-------------------------- MODULE RetentionProofs ---------------------------
(***************************************************************************)
(* Lemmas about Retention: what the rules, the floors and the budget return *)
(* for any copies, and what a pruning may therefore never delete.           *)
(***************************************************************************)
EXTENDS Retention, FiniteSetTheorems, WellFoundedInduction, TLAPS

\* S can be the copies of a task: finitely many, told apart by their number.
Copies(S) ==
    /\ IsFiniteSet(S)
    /\ \A c \in S : c.n \in Int /\ c.size \in Nat
    /\ \A c, d \in S : c.n = d.n => c = d

LEMMA SubsetOfCopies == ASSUME NEW S, Copies(S), NEW T \in SUBSET S PROVE Copies(T)
BY FS_Subset DEF Copies

LEMMA GoodCopies == ASSUME NEW S, Copies(S) PROVE Copies(Good(S)) /\ Good(S) \subseteq S
BY SubsetOfCopies DEF Good

LEMMA NewerCopies ==
    ASSUME NEW S, Copies(S), NEW c
    PROVE  /\ Newer(c, S) \subseteq S
           /\ IsFiniteSet(Newer(c, S)) /\ Cardinality(Newer(c, S)) \in Nat
<1>1. Newer(c, S) \subseteq S
  BY DEF Newer
<1>2. IsFiniteSet(Newer(c, S))
  BY <1>1, FS_Subset DEF Copies
<1>3. QED
  BY <1>1, <1>2, FS_CardinalityType

\* Among finitely many copies one has none newer: one with the fewest newer ones.
LEMMA NewestExists ==
    ASSUME NEW S, Copies(S), S # {}
    PROVE  Newest(S) \in S /\ Newer(Newest(S), S) = {}
<1> DEFINE R == StrictSubsetOrdering(S)
           T == {Newer(c, S) : c \in S}
<1>1. IsWellFoundedOn(R, FiniteSubsetsOf(S))
  BY FS_StrictSubsetOrderingWellFounded
<1>2. T \subseteq FiniteSubsetsOf(S) /\ T # {}
  <2>1. \A c \in S : Newer(c, S) \in SUBSET S
    BY DEF Newer
  <2>2. FiniteSubsetsOf(S) = SUBSET S
    BY FS_FiniteSubsetsOfFinite DEF Copies
  <2>3. QED
    BY <2>1, <2>2
<1>3. \E U \in T : \A V \in T : ~ (<<V, U>> \in R)
  <2> HIDE DEF R, T
  <2>1. QED
    BY <1>1, <1>2, WFMin
<1>4. PICK c \in S : \A V \in T : ~ (<<V, Newer(c, S)>> \in R)
  BY <1>3
<1>5. Newer(c, S) = {}
  <2> SUFFICES ASSUME NEW d \in Newer(c, S) PROVE FALSE
    OBVIOUS
  <2>1. Newer(d, S) \subseteq Newer(c, S) /\ d \notin Newer(d, S)
    BY DEF Newer, Copies
  <2>2. <<Newer(d, S), Newer(c, S)>> \in R
    <3>1. Newer(d, S) \in SUBSET S /\ Newer(c, S) \in SUBSET S
      BY DEF Newer
    <3>2. QED
      BY <2>1, <3>1 DEF StrictSubsetOrdering
  <2>3. d \in S
    BY DEF Newer
  <2>4. QED
    BY <1>4, <2>2, <2>3
<1>6. QED
  BY <1>5 DEF Newest

\* It is the only one.
LEMMA NewestUnique ==
    ASSUME NEW S, Copies(S), NEW c \in S, Newer(c, S) = {}
    PROVE  c = Newest(S)
<1>1. Newest(S) \in S /\ Newer(Newest(S), S) = {}
  BY NewestExists
<1>2. c.n = Newest(S).n
  BY <1>1 DEF Newer, Copies
<1>3. QED
  BY <1>1, <1>2 DEF Copies

-----------------------------------------------------------------------------
\* What each stage of a pruning returns.
LEMMA SurvivorsType == ASSUME NEW S, NEW q \in Policy PROVE Survivors(S, q) \in SUBSET S
BY DEF Survivors, Leading, FirstOfPeriods

LEMMA FloorsHold ==
    ASSUME NEW S, Copies(S), NEW kept \in SUBSET S
    PROVE  LET floored == ApplyFloors(S)[kept]
           IN  /\ floored \in SUBSET S /\ kept \subseteq floored
               /\ S # {} => floored # {}
               /\ Good(S) # {} => Good(floored) # {}
<1> DEFINE some == IF kept = {} /\ S # {} THEN {Newest(S)} ELSE kept
<1>1. ApplyFloors(S)[kept] =
        IF Good(some) = {} /\ Good(S) # {} THEN some \cup {Newest(Good(S))} ELSE some
  BY DEF ApplyFloors
<1>2. some \in SUBSET S /\ kept \subseteq some /\ (S # {} => some # {})
  BY NewestExists
<1>3. Good(S) # {} => Newest(Good(S)) \in Good(S)
  BY GoodCopies, NewestExists
<1>4. QED
  BY <1>1, <1>2, <1>3 DEF Good

LEMMA BudgetType ==
    ASSUME NEW S, NEW kept \in SUBSET S, NEW budget
    PROVE  OverBudget(S, budget)[kept] \in SUBSET kept
BY DEF OverBudget

\* What is left to the floors of the second round.
Afforded(S, q) == OverBudget(S, q.budget)[ApplyFloors(S)[Survivors(S, q)]]

LEMMA AffordedType ==
    ASSUME NEW S, Copies(S), NEW q \in Policy
    PROVE  Afforded(S, q) \in SUBSET S /\ Kept(S, q) = ApplyFloors(S)[Afforded(S, q)]
<1> DEFINE F == ApplyFloors(S)[Survivors(S, q)]
<1>1. F \in SUBSET S
  BY SurvivorsType, FloorsHold
<1>2. OverBudget(S, q.budget)[F] \in SUBSET F
  BY <1>1, BudgetType
<1>3. QED
  BY <1>1, <1>2 DEF Afforded, Kept

\* A pruning never takes the last good copy of a task: the newest good one is among those
\* kept whenever no other is, whatever the rules, the budget and the locks (_apply_floors).
THEOREM PruneSparesGood ==
    ASSUME NEW S, Copies(S), NEW q \in Policy, Good(S) # {}
    PROVE  Good(S \ Prune(S, q)) # {}
<1>1. Kept(S, q) \in SUBSET S /\ Good(Kept(S, q)) # {}
  BY AffordedType, FloorsHold
<1>2. QED
  BY <1>1 DEF Prune, Good

-----------------------------------------------------------------------------
\* The newest copy is claimed by any rule there is.
LEMMA NewestSurvives ==
    ASSUME NEW S, Copies(S), S # {}, NEW q \in Policy
    PROVE  Newest(S) \in Survivors(S, q)
<1> DEFINE c == Newest(S)
<1>1. c \in S /\ Newer(c, S) = {}
  BY NewestExists
<1>2. \A n \in Nat \ {0}, T \in SUBSET S : c \in T => c \in Leading(T, n)
  <2>1. \A T \in SUBSET S : Newer(c, T) = {}
    BY <1>1 DEF Newer
  <2>2. QED
    BY <2>1, FS_EmptySet DEF Leading
<1>3. \A k \in Bucket : FirstOfPeriods(S, k) \in SUBSET S /\ c \in FirstOfPeriods(S, k)
  BY <1>1 DEF FirstOfPeriods
<1>4. CASE q.last # 0
  BY <1>1, <1>2, <1>4 DEF Survivors, Policy
<1>5. CASE \E k \in Bucket : q.bucket[k] # 0
  <2>1. PICK k \in Bucket : q.bucket[k] # 0
    BY <1>5
  <2>2. c \in Leading(FirstOfPeriods(S, k), q.bucket[k])
    BY <1>2, <1>3, <2>1 DEF Policy
  <2>3. QED
    BY <2>1, <2>2 DEF Survivors
<1>6. CASE q.last = 0 /\ \A k \in Bucket : q.bucket[k] = 0
  BY <1>1, <1>6 DEF Survivors
<1>7. QED
  BY <1>4, <1>5, <1>6

\* Unless locked copies use up the budget, the newest copy is never pruned: the budget takes
\* it whatever its size.
THEOREM PruneSparesNewest ==
    ASSUME NEW S, Copies(S), S # {}, NEW q \in Policy,
           q.budget = 0 \/ \A c \in S : ~c.locked
    PROVE  Newest(S) \notin Prune(S, q)
<1> DEFINE c == Newest(S)
           F == ApplyFloors(S)[Survivors(S, q)]
<1>1. F \in SUBSET S /\ c \in F
  BY SurvivorsType, FloorsHold, NewestSurvives
<1>2. c \in Afforded(S, q)
  <2>1. CASE q.budget = 0
    BY <1>1, <2>1 DEF Afforded, OverBudget
  <2>2. CASE \A d \in S : ~d.locked
    <3>1. {d \in F : d.locked} = {}
      BY <1>1, <2>2
    <3>2. Newer(c, F \ {d \in F : d.locked}) = {}
      BY <1>1, NewestExists DEF Newer
    <3>3. QED
      BY <1>1, <3>1, <3>2 DEF Afforded, OverBudget
  <2>3. QED
    BY <2>1, <2>2
<1>3. c \in Kept(S, q)
  BY <1>2, AffordedType, FloorsHold
<1>4. QED
  BY <1>3 DEF Prune
-----------------------------------------------------------------------------
\* A second pruning.  Where copies disappear, the others lose no claim: no copy has more newer
\* ones than before, and a period newer than a copy's still has its newest copy before it.
LEMMA FewerNewer ==
    ASSUME NEW S, Copies(S), NEW T \in SUBSET S, NEW c
    PROVE  Cardinality(Newer(c, T)) <= Cardinality(Newer(c, S))
<1>1. Newer(c, T) \in SUBSET Newer(c, S)
  BY DEF Newer
<1>2. QED
  BY <1>1, NewerCopies, FS_Subset

LEMMA NewestOfPeriod ==
    ASSUME NEW S, Copies(S), NEW k \in Bucket, NEW d \in S
    PROVE  \E e \in FirstOfPeriods(S, k) :
              e.at \div Span[k] = d.at \div Span[k] /\ e.n >= d.n
<1> DEFINE Period(x) == x.at \div Span[k]
           P == {x \in S : Period(x) = Period(d)}
<1>1. FirstOfPeriods(S, k) = {x \in S : \A y \in Newer(x, S) : Period(y) # Period(x)}
  BY DEF FirstOfPeriods
<1> HIDE DEF Period
<1>2. Copies(P) /\ d \in P
  BY SubsetOfCopies
<1>3. PICK e \in P : Newer(e, P) = {}
  BY <1>2, NewestExists
<1>4. e \in FirstOfPeriods(S, k)
  BY <1>1, <1>3 DEF Newer
<1>5. e.n >= d.n
  BY <1>2, <1>3 DEF Newer, Copies
<1>6. QED
  BY <1>3, <1>4, <1>5 DEF Period

LEMMA FewerPeriods ==
    ASSUME NEW S, Copies(S), NEW T \in SUBSET S, NEW k \in Bucket, NEW c \in T
    PROVE  Cardinality(Newer(c, FirstOfPeriods(T, k)))
             <= Cardinality(Newer(c, FirstOfPeriods(S, k)))
<1> DEFINE A == Newer(c, FirstOfPeriods(T, k))
           B == Newer(c, FirstOfPeriods(S, k))
           Period(d) == d.at \div Span[k]
           f == [d \in A |-> CHOOSE e \in B : Period(e) = Period(d)]
<1>1. \A d \in A : \E e \in B : Period(e) = Period(d)
  <2> SUFFICES ASSUME NEW d \in A PROVE \E e \in B : Period(e) = Period(d)
    OBVIOUS
  <2>1. d \in S /\ d.n > c.n
    BY DEF Newer, FirstOfPeriods
  <2>2. PICK e \in FirstOfPeriods(S, k) : Period(e) = Period(d) /\ e.n >= d.n
    BY <2>1, NewestOfPeriod
  <2>3. c.n \in Int /\ d.n \in Int /\ e.n \in Int
    BY <2>1 DEF Copies, FirstOfPeriods
  <2>4. QED
    BY <2>1, <2>2, <2>3 DEF Newer
<1>2. \A d \in A : f[d] \in B /\ Period(f[d]) = Period(d)
  BY <1>1
<1>3. \A d, e \in A : Period(d) = Period(e) => d = e
  BY DEF Newer, FirstOfPeriods, Copies
<1>4. f \in Injection(A, B)
  BY <1>2, <1>3 DEF Injection, IsInjective
<1>5. IsFiniteSet(B)
  <2>1. Copies(FirstOfPeriods(S, k))
    BY SubsetOfCopies DEF FirstOfPeriods
  <2>2. QED
    BY <2>1, NewerCopies
<1>6. QED
  BY <1>4, <1>5, FS_Injection

LEMMA ClaimsRemain ==
    ASSUME NEW S, Copies(S), NEW T \in SUBSET S, NEW q \in Policy
    PROVE  Survivors(S, q) \cap T \subseteq Survivors(T, q)
<1> SUFFICES ASSUME NEW c \in Survivors(S, q), c \in T PROVE c \in Survivors(T, q)
  OBVIOUS
<1>1. CASE q.last = 0 /\ \A k \in Bucket : q.bucket[k] = 0
  BY <1>1 DEF Survivors
<1>2. CASE /\ ~(q.last = 0 /\ \A k \in Bucket : q.bucket[k] = 0)
           /\ c \in Leading(S, q.last)
  <2>1. c \in Leading(T, q.last)
    BY <1>2, FewerNewer, NewerCopies, SubsetOfCopies DEF Leading, Policy
  <2>2. QED
    BY <1>2, <2>1 DEF Survivors
<1>3. CASE /\ ~(q.last = 0 /\ \A k \in Bucket : q.bucket[k] = 0)
           /\ \E k \in Bucket : c \in Leading(FirstOfPeriods(S, k), q.bucket[k])
  <2>1. PICK k \in Bucket : c \in Leading(FirstOfPeriods(S, k), q.bucket[k])
    BY <1>3
  <2>2. c \in FirstOfPeriods(T, k)
    BY <2>1 DEF Leading, FirstOfPeriods, Newer
  <2>3. Copies(FirstOfPeriods(S, k)) /\ Copies(FirstOfPeriods(T, k))
    <3>1. FirstOfPeriods(S, k) \in SUBSET S /\ FirstOfPeriods(T, k) \in SUBSET S
      BY DEF FirstOfPeriods
    <3>2. QED
      BY <3>1, SubsetOfCopies
  <2>4. Cardinality(Newer(c, FirstOfPeriods(T, k))) < q.bucket[k]
    BY <2>1, <2>3, FewerPeriods, NewerCopies DEF Leading, Policy
  <2>5. c \in Leading(FirstOfPeriods(T, k), q.bucket[k])
    BY <2>2, <2>4 DEF Leading
  <2>6. QED
    BY <1>3, <2>5 DEF Survivors
<1>4. QED
  BY <1>1, <1>2, <1>3 DEF Survivors

\* Where only copies disappear that no rule claims, none gains a claim: the newest of those
\* that disappeared has enough claimed ones before it.
LEMMA NoNewLeader ==
    ASSUME NEW S, Copies(S), NEW T \in SUBSET S, NEW n \in Nat,
           Leading(S, n) \subseteq T
    PROVE  Leading(T, n) \subseteq Leading(S, n)
<1> SUFFICES ASSUME NEW c \in T, c \in Leading(T, n), c \notin Leading(S, n) PROVE FALSE
  BY DEF Leading
<1> DEFINE X == Newer(c, S) \ T
           e == Newest(X)
<1>1. X # {}
  <2>1. X = {} => Newer(c, S) = Newer(c, T)
    BY DEF Newer
  <2>2. QED
    BY <2>1 DEF Leading
<1>2. e \in X /\ Newer(e, X) = {}
  <2>1. Copies(X)
    BY SubsetOfCopies DEF Newer
  <2>2. QED
    BY <1>1, <2>1, NewestExists
<1>3. Newer(e, S) \in SUBSET Newer(c, T)
  BY <1>2 DEF Newer, Copies
<1>4. Cardinality(Newer(e, S)) >= n
  <2>1. e \in S /\ e \notin Leading(S, n)
    BY <1>2 DEF Newer
  <2>2. QED
    BY <2>1, NewerCopies DEF Leading
<1>5. Cardinality(Newer(c, T)) < n
  BY DEF Leading
<1>6. Cardinality(Newer(e, S)) <= Cardinality(Newer(c, T))
  BY <1>3, NewerCopies, SubsetOfCopies, FS_Subset
<1>7. QED
  BY <1>4, <1>5, <1>6, NewerCopies, SubsetOfCopies

LEMMA NoNewPeriod ==
    ASSUME NEW S, Copies(S), NEW T \in SUBSET S, NEW n \in Nat, NEW k \in Bucket,
           Leading(FirstOfPeriods(S, k), n) \subseteq T
    PROVE  Leading(FirstOfPeriods(T, k), n) \subseteq Leading(FirstOfPeriods(S, k), n)
<1> DEFINE F == FirstOfPeriods(S, k)
           G == FirstOfPeriods(T, k)
<1> SUFFICES ASSUME NEW c \in Leading(G, n), c \notin Leading(F, n) PROVE FALSE
  OBVIOUS
<1>0. F \in SUBSET S /\ G \in SUBSET T /\ F \cap T \subseteq G /\ c \in G
  BY DEF FirstOfPeriods, Newer, Leading
<1>1. Copies(F) /\ Copies(G)
  BY <1>0, SubsetOfCopies
<1> DEFINE X == {e \in F : e.n >= c.n} \ T
           e == Newest(X)
<1>2. X # {}
  <2>1. CASE c \in F
    <3>1. Newer(c, F) \subseteq T => Newer(c, F) \subseteq Newer(c, G)
      BY <1>0 DEF Newer
    <3>2. Newer(c, F) \subseteq Newer(c, G) => Cardinality(Newer(c, F)) <= Cardinality(Newer(c, G))
      BY <1>1, NewerCopies, FS_Subset
    <3>3. Cardinality(Newer(c, F)) >= n /\ Cardinality(Newer(c, G)) < n
      BY <1>1, <2>1, NewerCopies DEF Leading
    <3>4. PICK d \in Newer(c, F) : d \notin T
      BY <1>1, <3>1, <3>2, <3>3, NewerCopies
    <3>5. d \in X
      BY <3>4, <1>0 DEF Newer, Copies
    <3>6. QED
      BY <3>5
  <2>2. CASE c \notin F
    <3>1. PICK d \in F : d.at \div Span[k] = c.at \div Span[k] /\ d.n >= c.n
      BY <1>0, NewestOfPeriod
    <3>2. d \notin T
      <4>1. d.n # c.n
        BY <1>0, <2>2 DEF Copies
      <4>2. QED
        BY <1>0, <3>1, <4>1 DEF FirstOfPeriods, Newer, Copies
    <3>3. QED
      BY <3>1, <3>2
  <2>3. QED
    BY <2>1, <2>2
<1>3. e \in X /\ Newer(e, X) = {}
  <2>1. Copies(X)
    BY <1>1, SubsetOfCopies
  <2>2. QED
    BY <1>2, <2>1, NewestExists
<1>4. Newer(e, F) \in SUBSET Newer(c, G)
  <2> SUFFICES ASSUME NEW d \in Newer(e, F) PROVE d \in Newer(c, G)
    OBVIOUS
  <2>1. d \in F /\ d.n > e.n /\ e.n >= c.n /\ d.n \in Int /\ e.n \in Int /\ c.n \in Int
    BY <1>0, <1>3 DEF Newer, Copies
  <2>2. d \in T
    BY <1>3, <2>1 DEF Newer
  <2>3. QED
    BY <1>0, <2>1, <2>2 DEF Newer
<1>5. Cardinality(Newer(e, F)) >= n
  <2>1. e \in F /\ e \notin Leading(F, n)
    BY <1>3
  <2>2. QED
    BY <1>1, <2>1, NewerCopies DEF Leading
<1>6. Cardinality(Newer(c, G)) < n
  BY DEF Leading
<1>7. Cardinality(Newer(e, F)) <= Cardinality(Newer(c, G))
  BY <1>1, <1>4, NewerCopies, FS_Subset
<1>8. QED
  BY <1>1, <1>5, <1>6, <1>7, NewerCopies

LEMMA ClaimsAreTheSame ==
    ASSUME NEW S, Copies(S), NEW T \in SUBSET S, NEW q \in Policy,
           Survivors(S, q) \subseteq T
    PROVE  Survivors(T, q) = Survivors(S, q)
<1>1. Survivors(S, q) \subseteq Survivors(T, q)
  BY ClaimsRemain
<1>2. Survivors(T, q) \subseteq Survivors(S, q)
  <2>1. CASE q.last = 0 /\ \A k \in Bucket : q.bucket[k] = 0
    BY <2>1 DEF Survivors
  <2>2. CASE ~(q.last = 0 /\ \A k \in Bucket : q.bucket[k] = 0)
    <3>1. Leading(T, q.last) \subseteq Leading(S, q.last)
      BY <2>2, NoNewLeader DEF Survivors, Policy
    <3>2. ASSUME NEW k \in Bucket
          PROVE  Leading(FirstOfPeriods(T, k), q.bucket[k])
                   \subseteq Leading(FirstOfPeriods(S, k), q.bucket[k])
      <4>1. q.bucket[k] \in Nat
        BY DEF Policy
      <4>2. Leading(FirstOfPeriods(S, k), q.bucket[k]) \subseteq T
        BY <2>2 DEF Survivors
      <4>3. QED
        BY <4>1, <4>2, NoNewPeriod
    <3>3. QED
      BY <2>2, <3>1, <3>2 DEF Survivors
  <2>3. QED
    BY <2>1, <2>2
<1>3. QED
  BY <1>1, <1>2

\* Fewer copies take no more room.
LEMMA SizeMonotone ==
    ASSUME NEW S, Copies(S), NEW T \in SUBSET S
    PROVE  TotalSize(T) \in Nat /\ TotalSize(S) \in Nat /\ TotalSize(T) <= TotalSize(S)
<1> DEFINE Units(U) == {{c.n} \X (1 .. c.size) : c \in U}
<1>1. IsFiniteSet(Units(S))
  <2> DEFINE f == [c \in S |-> {c.n} \X (1 .. c.size)]
  <2>1. f \in Surjection(S, Units(S))
    BY DEF Surjection
  <2>2. QED
    BY <2>1, FS_Surjection DEF Copies
<1>2. \A U \in Units(S) : IsFiniteSet(U)
  <2> SUFFICES ASSUME NEW c \in S PROVE IsFiniteSet({c.n} \X (1 .. c.size))
    OBVIOUS
  <2>1. IsFiniteSet(1 .. c.size) /\ IsFiniteSet({c.n})
    <3>1. 1 \in Int /\ c.size \in Int
      BY DEF Copies
    <3>2. IsFiniteSet(1 .. c.size)
      BY <3>1, FS_Interval
    <3>3. QED
      BY <3>2, FS_Singleton
  <2>2. QED
    BY <2>1, FS_Product
<1>3. IsFiniteSet(UNION Units(S))
  BY <1>1, <1>2, FS_UNION
<1>4. UNION Units(T) \in SUBSET (UNION Units(S))
  OBVIOUS
<1>5. QED
  BY <1>3, <1>4, FS_Subset, FS_CardinalityType DEF TotalSize

\* With the floors on, there is never nothing left and the good one put back is the newest.
LEMMA FloorsAdd ==
    ASSUME NEW S, Copies(S), NEW kept \in SUBSET S, kept # {}
    PROVE  ApplyFloors(S)[kept] =
             IF Good(kept) = {} /\ Good(S) # {} THEN kept \cup {Newest(Good(S))} ELSE kept
BY DEF ApplyFloors

LEMMA NewestGoodRemains ==
    ASSUME NEW S, Copies(S), NEW T \in SUBSET S, Good(S) # {}, Newest(Good(S)) \in T
    PROVE  Good(T) # {} /\ Newest(Good(T)) = Newest(Good(S))
<1> DEFINE g == Newest(Good(S))
<1>1. Copies(Good(T)) /\ Copies(Good(S))
  BY GoodCopies, SubsetOfCopies
<1>2. g \in Good(T) /\ Newer(g, Good(T)) = {}
  BY <1>1, NewestExists DEF Good, Newer
<1>3. QED
  BY <1>1, <1>2, NewestUnique

\* Without a budget, the rules and the floors say the same of what the first pruning left.
LEMMA SettlesWithoutBudget ==
    ASSUME NEW S, Copies(S), S # {}, NEW q \in Policy, q.budget = 0
    PROVE  Prune(S \ Prune(S, q), q) = {}
<1> DEFINE T == S \ Prune(S, q)
           A == Survivors(S, q)
<1>1. /\ Kept(S, q) = ApplyFloors(S)[ApplyFloors(S)[A]]
      /\ Kept(T, q) = ApplyFloors(T)[ApplyFloors(T)[Survivors(T, q)]]
  <2>1. A \in SUBSET S /\ Survivors(T, q) \in SUBSET T
    BY SurvivorsType
  <2>2. ApplyFloors(S)[A] \in SUBSET S /\ ApplyFloors(T)[Survivors(T, q)] \in SUBSET T
    BY <2>1, FloorsHold, SubsetOfCopies
  <2>3. QED
    BY <2>2 DEF Kept, OverBudget
<1>2. A \in SUBSET S /\ A # {}
  BY SurvivorsType, NewestSurvives
<1>3. ASSUME NEW U, Copies(U), NEW kept \in SUBSET U, kept # {}
      PROVE  ApplyFloors(U)[ApplyFloors(U)[kept]] = ApplyFloors(U)[kept]
  <2>1. ApplyFloors(U)[kept] \in SUBSET U /\ ApplyFloors(U)[kept] # {}
    BY <1>3, FloorsHold
  <2>2. Good(U) # {} => Good(ApplyFloors(U)[kept]) # {}
    BY <1>3, FloorsHold
  <2>3. QED
    BY <2>1, <2>2, FloorsAdd, <1>3
<1>4. Kept(S, q) = ApplyFloors(S)[A] /\ Kept(S, q) \in SUBSET S
  BY <1>1, <1>2, <1>3, FloorsHold
<1>5. A \subseteq T /\ T \in SUBSET S /\ Kept(S, q) \subseteq T
  BY <1>2, <1>4, FloorsHold DEF Prune
<1>6. Survivors(T, q) = A
  BY <1>5, ClaimsAreTheSame
<1>7. Copies(T)
  BY <1>5, SubsetOfCopies
<1>8. Kept(T, q) = ApplyFloors(T)[A]
  BY <1>1, <1>2, <1>3, <1>5, <1>6, <1>7
<1>9. ApplyFloors(T)[A] = ApplyFloors(S)[A]
  <2>1. CASE Good(A) # {} \/ Good(S) = {}
    BY <1>2, <1>5, <1>7, <2>1, FloorsAdd DEF Good
  <2>2. CASE Good(A) = {} /\ Good(S) # {}
    <3>1. ApplyFloors(S)[A] = A \cup {Newest(Good(S))}
      BY <1>2, <2>2, FloorsAdd
    <3>2. Newest(Good(S)) \in T
      BY <1>4, <1>5, <3>1
    <3>3. Good(T) # {} /\ Newest(Good(T)) = Newest(Good(S))
      BY <1>5, <2>2, <3>2, NewestGoodRemains
    <3>4. QED
      BY <1>2, <1>5, <1>7, <2>2, <3>1, <3>3, FloorsAdd
  <2>3. QED
    BY <2>1, <2>2
<1>10. QED
  BY <1>4, <1>8, <1>9 DEF Prune

\* Within a budget, the second pruning has no more to make room for than the first.
LEMMA SettlesWithinBudget ==
    ASSUME NEW S, Copies(S), S # {}, NEW q \in Policy, q.budget # 0,
           \A c \in S : ~c.locked, ~Rescued(S, q)
    PROVE  Prune(S \ Prune(S, q), q) = {}
<1> DEFINE A == Survivors(S, q)
           F == ApplyFloors(S)[A]
           B == Afforded(S, q)
           Room(c, U) == Newer(c, U) = {} \/ TotalSize({c} \cup Newer(c, U)) <= q.budget
<1>1. A \in SUBSET S /\ A # {} /\ F \in SUBSET S /\ A \subseteq F /\ F # {}
  BY SurvivorsType, NewestSurvives, FloorsHold
<1>2. ASSUME NEW U, NEW kept \in SUBSET U, \A c \in kept : ~c.locked
      PROVE  OverBudget(U, q.budget)[kept] = {c \in kept : Room(c, kept)}
  <2>1. {c \in kept : c.locked} = {} /\ kept \ {} = kept
    BY <1>2
  <2>2. \A c : {} \cup {c} \cup Newer(c, kept) = {c} \cup Newer(c, kept)
    OBVIOUS
  <2>3. QED
    BY <2>1, <2>2 DEF OverBudget
<1>3. B = {c \in F : Room(c, F)}
  BY <1>1, <1>2 DEF Afforded
<1>4. B # {}
  <2>1. Newest(F) \in F /\ Newer(Newest(F), F) = {}
    BY <1>1, SubsetOfCopies, NewestExists
  <2>2. QED
    BY <1>3, <2>1
<1>5. Kept(S, q) = B
  <2>1. B \in SUBSET S /\ Kept(S, q) = ApplyFloors(S)[B]
    BY AffordedType
  <2>2. Good(B) # {} \/ Good(S) = {}
    BY DEF Rescued, Afforded, Policy
  <2>3. QED
    BY <1>4, <2>1, <2>2, FloorsAdd
<1>6. S \ Prune(S, q) = B /\ B \in SUBSET S /\ Copies(B)
  <2>1. B \in SUBSET S
    BY <1>1, <1>3
  <2>2. QED
    BY <1>5, <2>1, SubsetOfCopies DEF Prune
<1> DEFINE C == Survivors(B, q)
           G == ApplyFloors(B)[C]
<1>7. C \in SUBSET B /\ G \in SUBSET B /\ C \subseteq G /\ C # {}
  BY <1>4, <1>6, SurvivorsType, NewestSurvives, FloorsHold
<1>8. B \subseteq G
  <2> SUFFICES ASSUME NEW c \in B, c \notin C PROVE c \in G
    BY <1>7
  <2>1. c \in F /\ c \notin A
    BY <1>3, <1>6, ClaimsRemain
  <2>2. Good(A) = {} /\ Good(S) # {} /\ F = A \cup {Newest(Good(S))} /\ c = Newest(Good(S))
    <3>1. F = IF Good(A) = {} /\ Good(S) # {} THEN A \cup {Newest(Good(S))} ELSE A
      BY <1>1, FloorsAdd
    <3> HIDE DEF A, F
    <3>2. QED
      BY <2>1, <3>1
  <2>3. Good(B) # {} /\ Newest(Good(B)) = c
    BY <1>6, <2>2, NewestGoodRemains
  <2>4. Good(C) = {}
    <3>1. Good(B) \subseteq {c}
      BY <1>3, <2>2 DEF Good
    <3>2. QED
      BY <1>7, <3>1 DEF Good
  <2>5. G = C \cup {Newest(Good(B))}
    <3>1. G = IF Good(C) = {} /\ Good(B) # {} THEN C \cup {Newest(Good(B))} ELSE C
      BY <1>6, <1>7, FloorsAdd
    <3>2. QED
      BY <2>3, <2>4, <3>1
  <2> HIDE DEF C, G
  <2>6. QED
    BY <2>3, <2>5
<1>9. B \subseteq Afforded(B, q)
  <2>1. G = B
    BY <1>7, <1>8
  <2>2. Afforded(B, q) = {c \in B : Room(c, B)}
    BY <1>2, <1>6, <2>1 DEF Afforded
  <2>3. ASSUME NEW c \in B PROVE Room(c, B)
    <3>1. Newer(c, B) \subseteq Newer(c, F) /\ Room(c, F) /\ c \in F
      BY <1>3 DEF Newer
    <3>2. CASE Newer(c, F) = {}
      BY <3>1, <3>2
    <3>3. CASE TotalSize({c} \cup Newer(c, F)) <= q.budget
      <4>1. /\ {c} \cup Newer(c, F) \in SUBSET S
            /\ {c} \cup Newer(c, B) \in SUBSET ({c} \cup Newer(c, F))
        BY <1>1, <3>1 DEF Newer
      <4>2. /\ TotalSize({c} \cup Newer(c, B)) \in Nat /\ TotalSize({c} \cup Newer(c, F)) \in Nat
            /\ TotalSize({c} \cup Newer(c, B)) <= TotalSize({c} \cup Newer(c, F))
        BY <4>1, SubsetOfCopies, SizeMonotone
      <4>3. QED
        BY <3>3, <4>2 DEF Policy
    <3>4. QED
      BY <3>1, <3>2, <3>3
  <2>4. QED
    BY <2>2, <2>3
<1>10. B \subseteq Kept(B, q)
  BY <1>6, <1>9, AffordedType, FloorsHold
<1>11. QED
  BY <1>6, <1>10 DEF Prune

\* What a pruning leaves the next one leaves too, unless locked copies share the budget or
\* the floor put back a copy that the budget had not counted.
THEOREM PruningSettles ==
    ASSUME NEW S, Copies(S), NEW q \in Policy,
           q.budget = 0 \/ \A c \in S : ~c.locked, ~Rescued(S, q)
    PROVE  Prune(S \ Prune(S, q), q) = {}
<1>1. CASE S = {}
  BY <1>1 DEF Prune
<1>2. CASE S # {} /\ q.budget = 0
  BY <1>2, SettlesWithoutBudget
<1>3. CASE S # {} /\ q.budget # 0
  BY <1>3, SettlesWithinBudget
<1>4. QED
  BY <1>1, <1>2, <1>3
=============================================================================
