------------------------- MODULE EventWorkerProofs -------------------------
(***************************************************************************)
(* Proofs about the event worker: its types, the cooldowns, and that the    *)
(* bounded memory of the late window is large enough.                       *)
(***************************************************************************)
EXTENDS EventWorker, FiniteSetTheorems, SequenceTheorems, WellFoundedInduction, TLAPS

(***************************************************************************)
(* What the operators on rows and on the window return.                     *)
(***************************************************************************)

\* The sizes are numbers, the ids count from one.
LEMMA Sizes ==
    /\ MaxRow \in Nat /\ MaxOpen \in Nat /\ Window \in Nat /\ MaxChanges \in Nat /\ MaxFaults \in Nat
    /\ Batch \in Nat /\ Batch > 0 /\ SeenSize \in Nat /\ SeenSize > 0 /\ Window <= SeenSize
BY SizeAssumption

LEMMA Ids == ASSUME NEW i \in Row PROVE i \in Nat /\ i > 0 /\ i <= MaxRow
BY Sizes DEF Row

\* A set of rows that is not empty has a last one.
LEMMA MaxIs ==
    ASSUME NEW S \in SUBSET Row, S # {}
    PROVE  Max(S) \in S /\ \A i \in S : i <= Max(S)
<1> DEFINE D == {MaxRow - i : i \in S}
<1>1. D \in SUBSET Nat /\ D # {}
  <2>1. \A i \in S : MaxRow - i \in Nat
    BY Sizes DEF Row
  <2>2. QED
    BY <2>1
<1>2. \E d \in D : \A e \in D : ~ (<<e, d>> \in OpToRel(<, Nat))
  BY <1>1, NatLessThanWellFounded, WFMin
<1>3. \A k, j \in Nat : <<k, j>> \in OpToRel(<, Nat) <=> k < j
  BY DEF OpToRel
<1>4. PICK d \in D : \A e \in D : ~ (e < d)
  <2> HIDE DEF D
  <2>1. PICK d \in D : \A e \in D : ~ (<<e, d>> \in OpToRel(<, Nat))
    BY <1>2
  <2>2. \A e \in D : ~ (e < d)
    BY <1>1, <1>3, <2>1
  <2>3. QED
    BY <2>2
<1>5. PICK k \in S : d = MaxRow - k
  BY <1>4
<1>6. \A i \in S : k >= i
  BY <1>4, <1>5, Sizes DEF Row
<1>7. QED
  BY <1>6, Sizes DEF Max, Row

\* A finite set of rows has its ids in order.
InOrder(S, s) ==
    /\ s \in [1 .. Cardinality(S) -> S]
    /\ \A j, k \in 1 .. Cardinality(S) : j < k => s[j] < s[k]

LEMMA RowsFinite ==
    ASSUME NEW S \in SUBSET Row
    PROVE  IsFiniteSet(S) /\ Cardinality(S) \in Nat
<1>1. IsFiniteSet(Row)
  BY FS_Interval, Sizes DEF Row
<1>2. IsFiniteSet(S)
  BY <1>1, FS_Subset
<1>3. QED
  BY <1>2, FS_CardinalityType

\* One row more, later than the others, goes to the end.
LEMMA OneMore ==
    ASSUME NEW S \in SUBSET Row, NEW m \in S, \A i \in S : i <= m,
           NEW s, InOrder(S \ {m}, s)
    PROVE  \E t : InOrder(S, t)
<1> DEFINE n == Cardinality(S)
           t == [k \in 1 .. n |-> IF k = n THEN m ELSE s[k]]
<1>1. n \in Nat /\ n > 0 /\ Cardinality(S \ {m}) = n - 1
  BY RowsFinite, FS_RemoveElement, FS_EmptySet
<1>2. s \in [1 .. n - 1 -> S \ {m}] /\ \A j, k \in 1 .. n - 1 : j < k => s[j] < s[k]
  BY <1>1 DEF InOrder
<1> HIDE DEF n
<1>3. \A k \in 1 .. n : t[k] = IF k = n THEN m ELSE s[k]
  OBVIOUS
<1>4. \A k \in 1 .. n : k # n => k \in 1 .. n - 1
  BY <1>1
<1>5. t \in [1 .. n -> S]
  BY <1>2, <1>4
<1>6. ASSUME NEW j \in 1 .. n, NEW k \in 1 .. n, j < k PROVE t[j] < t[k]
  <2>1. j \in 1 .. n - 1
    BY <1>1, <1>6
  <2>2. t[j] = s[j] /\ s[j] \in S \ {m}
    BY <1>1, <1>2, <1>3, <2>1
  <2>3. CASE k = n
    <3>1. t[k] = m
      BY <1>3, <2>3
    <3>2. s[j] \in Row /\ m \in Row
      BY <2>2
    <3>3. s[j] \in Nat /\ m \in Nat /\ s[j] <= m /\ s[j] # m
      BY <2>2, <3>2, Ids
    <3>4. QED
      BY <2>2, <3>1, <3>3
  <2>4. CASE k # n
    BY <1>2, <1>3, <1>4, <1>6, <2>1, <2>2, <2>4
  <2>5. QED
    BY <2>3, <2>4
<1>7. QED
  <2>1. InOrder(S, t)
    <3> HIDE DEF t
    <3> QED
      BY <1>5, <1>6 DEF InOrder, n
  <2>2. QED
    BY <2>1

LEMMA SortedExists == \A S \in SUBSET Row : \E s : InOrder(S, s)
<1> SUFFICES ASSUME NEW S0 \in SUBSET Row, ~ \E s : InOrder(S0, s)
             PROVE  FALSE
  OBVIOUS
<1> DEFINE Lacking == {S \in SUBSET Row : ~ \E s : InOrder(S, s)}
           N == {Cardinality(S) : S \in Lacking}
<1>1. N \in SUBSET Nat /\ N # {}
  BY RowsFinite
<1>2. \E d \in N : \A e \in N : ~ (<<e, d>> \in OpToRel(<, Nat))
  BY <1>1, NatLessThanWellFounded, WFMin
<1>3. \A k, j \in Nat : <<k, j>> \in OpToRel(<, Nat) <=> k < j
  BY DEF OpToRel
<1>4. PICK d \in N : \A e \in N : ~ (e < d)
  <2> HIDE DEF N
  <2>1. PICK d \in N : \A e \in N : ~ (<<e, d>> \in OpToRel(<, Nat))
    BY <1>2
  <2>2. \A e \in N : ~ (e < d)
    BY <1>1, <1>3, <2>1
  <2>3. QED
    BY <2>2
<1>5. PICK S \in Lacking : d = Cardinality(S)
  BY <1>4
<1>6. S \in SUBSET Row /\ ~ \E s : InOrder(S, s)
  BY <1>5
<1>7. S # {}
  <2> SUFFICES ASSUME S = {} PROVE FALSE
    OBVIOUS
  <2>1. Cardinality({}) = 0
    BY FS_EmptySet
  <2>2. InOrder({}, [k \in 1 .. 0 |-> 0])
    BY <2>1 DEF InOrder
  <2>3. QED
    BY <1>6, <2>2
<1> DEFINE m == Max(S)
<1>8. m \in S /\ \A i \in S : i <= m
  BY <1>6, <1>7, MaxIs
<1> HIDE DEF m
<1>9. S \ {m} \in SUBSET Row /\ Cardinality(S \ {m}) = d - 1 /\ d \in Nat
  BY <1>5, <1>6, <1>8, RowsFinite, FS_RemoveElement
<1>10. S \ {m} \notin Lacking
  <2> SUFFICES ASSUME S \ {m} \in Lacking PROVE FALSE
    OBVIOUS
  <2>1. d - 1 \in N
    BY <1>9
  <2>2. QED
    BY <1>4, <1>9, <2>1
<1>11. PICK s : InOrder(S \ {m}, s)
  BY <1>9, <1>10
<1>12. QED
  BY <1>6, <1>8, <1>11, OneMore

\* Sorted: the rows of the set, each once.
Distinct(s) == \A h, k \in DOMAIN s : h # k => s[h] # s[k]

LEMMA SortedIs ==
    ASSUME NEW S \in SUBSET Row
    PROVE  /\ Sorted(S) \in Seq(Row) /\ Len(Sorted(S)) = Cardinality(S)
           /\ Range(Sorted(S)) = S /\ Distinct(Sorted(S))
<1> DEFINE s == Sorted(S)
           n == Cardinality(S)
<1>1. InOrder(S, s)
  <2>1. \E t : InOrder(S, t)
    BY SortedExists
  <2>2. \E t \in [1 .. Cardinality(S) -> S] :
            \A j, k \in 1 .. Cardinality(S) : j < k => t[j] < t[k]
    BY <2>1 DEF InOrder
  <2>3. QED
    BY <2>2 DEF InOrder, Sorted
<1>2. n \in Nat /\ IsFiniteSet(S)
  BY RowsFinite
<1>3. s \in [1 .. n -> S] /\ \A j, k \in 1 .. n : j < k => s[j] < s[k]
  BY <1>1 DEF InOrder
<1> HIDE DEF s, n
<1>4. s \in Seq(Row) /\ Len(s) = n
  <2>1. s \in [1 .. n -> Row]
    BY <1>3
  <2>2. QED
    BY <1>2, <2>1
<1>5. Distinct(s)
  <2> SUFFICES ASSUME NEW h \in 1 .. n, NEW k \in 1 .. n, h # k PROVE s[h] # s[k]
    BY <1>3 DEF Distinct
  <2>1. s[h] \in Nat /\ s[k] \in Nat
    <3>1. s[h] \in Row /\ s[k] \in Row
      BY <1>3
    <3>2. QED
      BY <3>1, Ids
  <2>2. h < k \/ k < h
    OBVIOUS
  <2>3. QED
    BY <1>3, <2>1, <2>2
<1>6. Range(s) = S
  <2>1. s \in Injection(1 .. n, S)
    BY <1>3, <1>5 DEF Injection, IsInjective, Distinct
  <2>2. Cardinality(1 .. n) = n
    BY <1>2, FS_Interval
  <2>3. s \in Surjection(1 .. n, S)
    BY <1>2, <2>1, <2>2, FS_Injection DEF n
  <2>4. QED
    BY <1>3, <2>3 DEF Surjection, Range
<1>7. QED
  BY <1>4, <1>5, <1>6 DEF s, n

\* What lies in the window behind an id is at most as much as the window holds.
LEMMA WindowFits ==
    ASSUME NEW last \in 0 .. MaxRow, NEW S \in SUBSET Row,
           \A i \in S : Below(last, Window) < i /\ i <= last
    PROVE  Cardinality(S) <= Window
<1> DEFINE b == Below(last, Window)
<1>1. last \in Nat /\ Window \in Nat
  BY Sizes
<1>2. b \in Nat /\ b <= last /\ last - b <= Window
  BY <1>1 DEF Below
<1> HIDE DEF b
<1>3. S \subseteq (b + 1) .. last
  <2> SUFFICES ASSUME NEW i \in S PROVE i \in (b + 1) .. last
    OBVIOUS
  <2>1. i \in Nat /\ b < i /\ i <= last
    BY Ids DEF b
  <2>2. QED
    BY <1>1, <1>2, <2>1
<1>4. /\ IsFiniteSet((b + 1) .. last)
      /\ Cardinality((b + 1) .. last) = IF b + 1 > last THEN 0 ELSE last - (b + 1) + 1
  BY <1>1, <1>2, FS_Interval
<1>5. Cardinality(S) <= Cardinality((b + 1) .. last)
  BY <1>3, <1>4, FS_Subset
<1>6. Cardinality(S) \in Nat
  BY RowsFinite
<1>7. QED
  BY <1>1, <1>2, <1>4, <1>5, <1>6

InWindow(last) == {i \in Visible : Below(last, Window) < i /\ i <= last}

LEMMA LateWindowIs ==
    ASSUME NEW last \in 0 .. MaxRow
    PROVE  /\ LateWindow(last) \in Seq(Row) /\ Len(LateWindow(last)) <= SeenSize
           /\ Range(LateWindow(last)) = InWindow(last) /\ Distinct(LateWindow(last))
<1>1. InWindow(last) \in SUBSET Row
  BY DEF InWindow, Visible
<1>2. LateWindow(last) = Sorted(InWindow(last))
  BY DEF LateWindow, InWindow
<1>3. Cardinality(InWindow(last)) <= Window /\ Cardinality(InWindow(last)) \in Nat
  <2>1. \A i \in InWindow(last) : Below(last, Window) < i /\ i <= last
    BY DEF InWindow
  <2>2. QED
    BY <1>1, <2>1, WindowFits, RowsFinite
<1>4. QED
  BY <1>1, <1>2, <1>3, SortedIs, Sizes

\* _Seen.add: the new id goes to the end, and the first of a full set makes room for it.
LEMMA RememberShape ==
    ASSUME NEW s \in Seq(Row), Len(s) <= SeenSize, NEW x \in Row, x \notin Range(s)
    PROVE  \E o \in {0, 1} :
               /\ o = 1 <=> Len(s) = SeenSize
               /\ Remember(s, x) \in Seq(Row)
               /\ Len(Remember(s, x)) = Len(s) - o + 1
               /\ \A k \in 1 .. Len(s) - o : Remember(s, x)[k] = s[k + o]
               /\ Remember(s, x)[Len(s) - o + 1] = x
<1>1. Remember(s, x) = Append(IF Len(s) = SeenSize THEN Tail(s) ELSE s, x)
  BY DEF Remember
<1>2. Len(s) \in Nat /\ SeenSize \in Nat /\ SeenSize > 0
  BY Sizes
<1>3. CASE Len(s) = SeenSize
  <2>1. s # << >>
    BY <1>2, <1>3
  <2>2. Tail(s) \in Seq(Row) /\ Len(Tail(s)) = Len(s) - 1
        /\ \A k \in 1 .. Len(Tail(s)) : Tail(s)[k] = s[k + 1]
    BY <2>1, HeadTailProperties
  <2> DEFINE b == Tail(s)
  <2> HIDE DEF b
  <2>3. b \in Seq(Row) /\ Len(b) = Len(s) - 1 /\ \A k \in 1 .. Len(b) : b[k] = s[k + 1]
    BY <2>2 DEF b
  <2>4. /\ Append(b, x) \in Seq(Row) /\ Len(Append(b, x)) = Len(b) + 1
        /\ \A k \in 1 .. Len(b) : Append(b, x)[k] = b[k]
        /\ Append(b, x)[Len(b) + 1] = x
    BY <2>3, AppendProperties
  <2>5. Remember(s, x) = Append(b, x)
    BY <1>1, <1>3 DEF b
  <2> DEFINE t == Append(b, x)
  <2> HIDE DEF t
  <2>6. t \in Seq(Row) /\ Len(t) = Len(s) - 1 + 1 /\ t[Len(s) - 1 + 1] = x
    BY <2>3, <2>4 DEF t
  <2>7. \A k \in 1 .. Len(s) - 1 : t[k] = s[k + 1]
    BY <2>3, <2>4 DEF t
  <2>8. QED
    BY <1>3, <2>5, <2>6, <2>7 DEF t
<1>4. CASE Len(s) # SeenSize
  <2>1. Remember(s, x) = Append(s, x)
    BY <1>1, <1>4
  <2>2. /\ Append(s, x) \in Seq(Row) /\ Len(Append(s, x)) = Len(s) + 1
        /\ \A k \in 1 .. Len(s) : Append(s, x)[k] = s[k]
        /\ Append(s, x)[Len(s) + 1] = x
    BY AppendProperties
  <2> DEFINE t == Append(s, x)
  <2> HIDE DEF t
  <2>3. t \in Seq(Row) /\ Len(t) = Len(s) - 0 + 1 /\ t[Len(s) - 0 + 1] = x
    BY <1>2, <2>2 DEF t
  <2>4. \A k \in 1 .. Len(s) - 0 : t[k] = s[k + 0]
    BY <1>2, <2>2 DEF t
  <2>5. QED
    BY <1>4, <2>1, <2>3, <2>4 DEF t
<1>5. QED
  BY <1>3, <1>4

LEMMA RememberType ==
    ASSUME NEW s \in Seq(Row), Len(s) <= SeenSize, NEW x \in Row
    PROVE  Remember(s, x) \in Seq(Row) /\ Len(Remember(s, x)) <= SeenSize
<1>1. CASE x \in Range(s)
  BY <1>1 DEF Remember
<1>2. CASE x \notin Range(s)
  <2>1. PICK o \in {0, 1} : /\ o = 1 <=> Len(s) = SeenSize
                            /\ Remember(s, x) \in Seq(Row)
                            /\ Len(Remember(s, x)) = Len(s) - o + 1
    BY <1>2, RememberShape
  <2>2. QED
    BY <2>1, Sizes
<1>3. QED
  BY <1>1, <1>2

\* A row in the set of those seen, with nothing added after it but what lies around it.
HeldIn(s, i) ==
    /\ i \in Range(s)
    /\ \A h, k \in DOMAIN s :
          h < k /\ s[h] = i => i - Window < s[k] /\ s[k] < i + Window

LEMMA RememberDistinct ==
    ASSUME NEW s \in Seq(Row), Len(s) <= SeenSize, NEW x \in Row, x \notin Range(s), Distinct(s)
    PROVE  Distinct(Remember(s, x))
<1> DEFINE t == Remember(s, x)
<1>1. PICK o \in {0, 1} :
               /\ o = 1 <=> Len(s) = SeenSize
               /\ t \in Seq(Row) /\ Len(t) = Len(s) - o + 1
               /\ \A k \in 1 .. Len(s) - o : t[k] = s[k + o]
               /\ t[Len(s) - o + 1] = x
  BY RememberShape
<1> HIDE DEF t
<1>2. SUFFICES ASSUME NEW h \in DOMAIN t, NEW k \in DOMAIN t, h # k PROVE t[h] # t[k]
  BY DEF Distinct, t
<1>3. DOMAIN s = 1 .. Len(s) /\ Len(s) \in Nat /\ DOMAIN t = 1 .. Len(s) - o + 1
  BY <1>1
<1>4. ASSUME NEW n \in DOMAIN t, n # Len(s) - o + 1
      PROVE  n \in 1 .. Len(s) - o /\ n + o \in DOMAIN s
  BY <1>1, <1>3, <1>4
<1>5. \A n \in 1 .. Len(s) - o : t[n] \in Range(s)
  BY <1>1, <1>3, <1>4 DEF Range
<1>6. CASE h = Len(s) - o + 1
  BY <1>1, <1>2, <1>4, <1>5, <1>6
<1>7. CASE k = Len(s) - o + 1
  BY <1>1, <1>2, <1>4, <1>5, <1>7
<1>8. CASE h # Len(s) - o + 1 /\ k # Len(s) - o + 1
  <2>1. t[h] = s[h + o] /\ t[k] = s[k + o] /\ h + o \in DOMAIN s /\ k + o \in DOMAIN s
    BY <1>1, <1>2, <1>4, <1>8
  <2>2. h + o # k + o
    BY <1>1, <1>2, <1>3
  <2>3. QED
    BY <2>1, <2>2 DEF Distinct
<1>9. QED
  BY <1>6, <1>7, <1>8

\* The row just added is held.
LEMMA RememberNew ==
    ASSUME NEW s \in Seq(Row), Len(s) <= SeenSize, NEW x \in Row, x \notin Range(s), Distinct(s)
    PROVE  HeldIn(Remember(s, x), x)
<1> DEFINE t == Remember(s, x)
<1>1. PICK o \in {0, 1} :
               /\ o = 1 <=> Len(s) = SeenSize
               /\ t \in Seq(Row) /\ Len(t) = Len(s) - o + 1
               /\ \A k \in 1 .. Len(s) - o : t[k] = s[k + o]
               /\ t[Len(s) - o + 1] = x
  BY RememberShape
<1>2. Distinct(t)
  BY RememberDistinct
<1> HIDE DEF t
<1>3. DOMAIN t = 1 .. Len(s) - o + 1 /\ Len(s) - o + 1 \in Nat /\ Len(s) - o + 1 > 0
  BY <1>1, Sizes
<1>4. Len(s) - o + 1 \in DOMAIN t
  BY <1>3
<1>5. x \in Range(t)
  BY <1>1, <1>4 DEF Range
<1>6. \A h \in DOMAIN t : t[h] = x => h = Len(s) - o + 1
  BY <1>1, <1>2, <1>4 DEF Distinct
<1>7. \A h, k \in DOMAIN t : h < k => h # Len(s) - o + 1
  BY <1>3
<1>8. QED
  BY <1>5, <1>6, <1>7 DEF HeldIn, t

\* No room for more: a full set whose first member is i, with nothing but rows around i, and
\* one row around i that it lacks, is smaller than what it is said to hold.
LEMMA NoRoom ==
    ASSUME NEW s \in Seq(Row), Len(s) = SeenSize, Distinct(s), 2 * Window - 1 <= SeenSize,
           NEW x \in Row, x \notin Range(s), s[1] \in Row,
           s[1] - Window < x, x < s[1] + Window,
           \A k \in DOMAIN s : 1 < k => s[1] - Window < s[k] /\ s[k] < s[1] + Window
    PROVE  FALSE
<1> DEFINE i == s[1]
           T == ((i - Window + 1) .. (i + Window - 1)) \ {i}
           f == [k \in 1 .. SeenSize |-> IF k = 1 THEN x ELSE s[k]]
<1>1. DOMAIN s = 1 .. SeenSize /\ SeenSize \in Nat /\ SeenSize > 0 /\ Window \in Nat
  BY Sizes
<1>2. i \in Nat /\ x \in Nat
  BY Ids
<1>3. i - Window < x /\ x < i + Window /\ x # i
  <2>1. i \in Range(s)
    BY <1>1 DEF Range
  <2>2. QED
    BY <2>1
<1>4. \A k \in 1 .. SeenSize : k # 1 =>
          s[k] \in Nat /\ s[k] # i /\ i - Window < s[k] /\ s[k] < i + Window
  <2> SUFFICES ASSUME NEW k \in 1 .. SeenSize, k # 1
               PROVE  s[k] \in Nat /\ s[k] # i /\ i - Window < s[k] /\ s[k] < i + Window
    OBVIOUS
  <2>1. k \in DOMAIN s /\ 1 \in DOMAIN s /\ 1 < k
    BY <1>1
  <2>2. s[k] \in Row
    BY <2>1
  <2>3. s[k] # s[1]
    BY <2>1 DEF Distinct
  <2>4. QED
    BY <2>1, <2>2, <2>3, Ids
<1> HIDE DEF i
<1>5. IsFiniteSet(T) /\ Cardinality(T) = 2 * Window - 2
  <2> DEFINE a == i - Window + 1
             b == i + Window - 1
  <2>1. a \in Int /\ b \in Int /\ i \in a .. b /\ b - a + 1 = 2 * Window - 1 /\ ~ (a > b)
    BY <1>1, <1>2, <1>3
  <2> HIDE DEF a, b
  <2>2. IsFiniteSet(a .. b) /\ Cardinality(a .. b) = 2 * Window - 1
    BY <2>1, FS_Interval
  <2>3. IsFiniteSet((a .. b) \ {i}) /\ Cardinality((a .. b) \ {i}) = Cardinality(a .. b) - 1
    BY <2>1, <2>2, FS_RemoveElement
  <2>4. QED
    BY <1>1, <2>2, <2>3 DEF a, b
<1>6. f \in [1 .. SeenSize -> T]
  BY <1>1, <1>2, <1>3, <1>4
<1>7. IsFiniteSet(1 .. SeenSize) /\ Cardinality(1 .. SeenSize) = SeenSize
  BY <1>1, FS_Interval
<1>8. \A k \in 1 .. SeenSize : f[k] = IF k = 1 THEN x ELSE s[k]
  OBVIOUS
<1> HIDE DEF T, f
<1>9. Cardinality(T) < Cardinality(1 .. SeenSize)
  BY <1>1, <1>5, <1>7
<1>10. PICK a \in 1 .. SeenSize, b \in 1 .. SeenSize : a # b /\ f[a] = f[b]
  BY <1>5, <1>6, <1>7, <1>9, FS_PigeonHole
<1>11. \A k \in 1 .. SeenSize : s[k] # x
  BY <1>1 DEF Range
<1>12. QED
  BY <1>1, <1>8, <1>10, <1>11 DEF Distinct

\* A row is held on while only rows around it are added: the set is large enough not to drop it.
LEMMA RememberKeeps ==
    ASSUME NEW s \in Seq(Row), Len(s) <= SeenSize, Distinct(s), 2 * Window - 1 <= SeenSize,
           NEW x \in Row, x \notin Range(s), NEW i \in Row, HeldIn(s, i),
           i - Window < x, x < i + Window
    PROVE  HeldIn(Remember(s, x), i)
<1> DEFINE t == Remember(s, x)
<1>1. PICK o \in {0, 1} :
               /\ o = 1 <=> Len(s) = SeenSize
               /\ t \in Seq(Row) /\ Len(t) = Len(s) - o + 1
               /\ \A k \in 1 .. Len(s) - o : t[k] = s[k + o]
               /\ t[Len(s) - o + 1] = x
  BY RememberShape
<1> HIDE DEF t
<1>2. DOMAIN s = 1 .. Len(s) /\ Len(s) \in Nat /\ DOMAIN t = 1 .. Len(s) - o + 1
  BY <1>1, Sizes
<1>3. PICK p \in DOMAIN s : s[p] = i
  BY DEF HeldIn, Range
<1>4. ~ (o = 1 /\ p = 1)
  <2> SUFFICES ASSUME o = 1, p = 1 PROVE FALSE
    OBVIOUS
  <2>1. \A k \in DOMAIN s : 1 < k => s[1] - Window < s[k] /\ s[k] < s[1] + Window
    BY <1>3 DEF HeldIn
  <2>2. QED
    BY <1>1, <1>3, <2>1, NoRoom
<1>5. p - o \in 1 .. Len(s) - o /\ p - o + o = p
  BY <1>1, <1>2, <1>3, <1>4
<1>6. t[p - o] = i
  BY <1>1, <1>3, <1>5
<1>7. i \in Range(t)
  BY <1>1, <1>2, <1>5, <1>6 DEF Range
<1>8. ASSUME NEW h \in DOMAIN t, NEW k \in DOMAIN t, h < k, t[h] = i
      PROVE  i - Window < t[k] /\ t[k] < i + Window
  <2>1. h \in 1 .. Len(s) - o /\ h + o \in DOMAIN s /\ t[h] = s[h + o]
    BY <1>1, <1>2, <1>8
  <2>2. CASE k = Len(s) - o + 1
    BY <1>1, <2>2
  <2>3. CASE k # Len(s) - o + 1
    <3>1. k \in 1 .. Len(s) - o /\ k + o \in DOMAIN s /\ h + o < k + o
      BY <1>1, <1>2, <1>8, <2>3
    <3>2. t[k] = s[k + o]
      BY <1>1, <3>1
    <3>3. QED
      BY <1>8, <2>1, <3>1, <3>2 DEF HeldIn
  <2>4. QED
    BY <2>2, <2>3
<1>9. QED
  BY <1>7, <1>8 DEF HeldIn, t

(***************************************************************************)
(* Types.  A tick that reads or evaluates has its late window.              *)
(***************************************************************************)

Ready(r) == tick[r].pc \in {"scan", "eval"} => seen[r] # None

Inv == TypeOK /\ \A r \in Replica : Ready(r)

USE DEF table, memory, history

LEMMA NoneApart == None \notin Nat /\ None \notin Seq(Row) /\ 0 \in 0 .. MaxRow
<1>1. None \notin Nat /\ None \notin Seq(Nat)
  BY ReplicaAssumption
<1>2. Row \subseteq Nat
  BY Ids
<1>3. Seq(Row) \subseteq Seq(Nat)
  BY <1>2, SeqMonotonic
<1>4. QED
  BY <1>1, <1>3, Sizes

LEMMA FaultType == ASSUME TypeOK, NEW kind, Fault(kind) PROVE faults' \in 0 .. MaxFaults
BY Sizes DEF TypeOK, Fault

LEMMA ChangeType == ASSUME TypeOK, NEW kind, Change(kind) PROVE changes' \in 0 .. MaxChanges
BY Sizes DEF TypeOK, Change

LEMMA IdleType == Idle \in Tick
BY NoneApart DEF Idle, Tick

LEMMA InvInit == Init => Inv
<1> SUFFICES ASSUME Init PROVE Inv
  OBVIOUS
<1>1. rows \in [Row -> {"free", "open", "visible", "gone"}]
  BY DEF Init
<1>2. tick \in [Replica -> Tick]
  BY IdleType DEF Init
<1>3. /\ evals \in [Replica -> [Row -> Nat]] /\ done \in [Replica -> SUBSET Row]
      /\ strayed \subseteq Replica
  BY DEF Init, Never
<1>4. /\ leading \in [Replica -> BOOLEAN] /\ cooled \in [Replica -> BOOLEAN]
      /\ ruled \in [Replica -> BOOLEAN] /\ stood \in [Replica -> BOOLEAN]
      /\ aware \in [Replica -> BOOLEAN] /\ seen \in [Replica -> Seq(Row) \cup {None}]
      /\ \A r \in Replica : seen[r] = None
  BY DEF Init
<1>5. /\ working \subseteq Replica /\ cursor \in 0 .. MaxRow \cup {None}
      /\ stamp \in BOOLEAN /\ enabled \in BOOLEAN /\ judged \subseteq Row /\ waived \subseteq Row
      /\ late \subseteq Row
  BY DEF Init
<1>6. changes \in 0 .. MaxChanges /\ faults \in 0 .. MaxFaults
  BY Sizes DEF Init
<1>7. TypeOK
  BY <1>1, <1>2, <1>3, <1>4, <1>5, <1>6 DEF TypeOK
<1>8. ASSUME NEW r \in Replica PROVE Ready(r)
  BY DEF Init, Idle, Ready
<1>9. QED
  BY <1>7, <1>8 DEF Inv

\* The steps outside the ticks.
LEMMA TableType ==
    ASSUME Inv, NEW i \in Row, Insert(i) \/ Commit(i) \/ Delete(i)
    PROVE  Inv'
<1>1. rows' \in [Row -> {"free", "open", "visible", "gone"}]
  BY DEF Inv, TypeOK, Insert, Commit, Delete, Appear
<1>2. changes' \in 0 .. MaxChanges
  BY ChangeType DEF Inv, TypeOK, Insert, Commit, Delete
<1>3. UNCHANGED <<working, cursor, stamp, enabled, leading, seen, ruled, cooled, tick, evals,
                  strayed, done, judged, waived, stood, aware, faults>>
  BY DEF Insert, Commit, Delete
<1>4. late' \subseteq Row
  BY DEF Inv, TypeOK, Insert, Commit, Delete, Appear
<1>5. QED
  BY <1>1, <1>2, <1>3, <1>4 DEF Inv, TypeOK, Ready

LEMMA ServiceType == ASSUME Inv, Pause \/ Resume PROVE Inv'
<1>1. changes' \in 0 .. MaxChanges /\ enabled' \in BOOLEAN
  BY ChangeType DEF Inv, TypeOK, Pause, Resume
<1>2. UNCHANGED <<working, rows, cursor, stamp, leading, seen, ruled, cooled, tick, evals,
                  strayed, done, judged, waived, late, stood, aware, faults>>
  BY DEF Pause, Resume
<1>3. QED
  BY <1>1, <1>2 DEF Inv, TypeOK, Ready

LEMMA LeaseType == ASSUME Inv, NEW r \in Replica, Grant(r) \/ Withdraw(r) PROVE Inv'
<1>1. working' \subseteq Replica
  BY DEF Inv, TypeOK, Grant, Withdraw, Lead!Grant, Lead!Withdraw
<1>2. faults' \in 0 .. MaxFaults
  BY FaultType DEF Inv, TypeOK, Grant, Withdraw
<1>3. changes' \in 0 .. MaxChanges
  BY Sizes DEF Inv, TypeOK, Grant, Withdraw
<1>4. UNCHANGED <<rows, cursor, stamp, enabled, leading, seen, ruled, cooled, tick, evals,
                  strayed, done, judged, waived, late, stood, aware>>
  BY DEF Grant, Withdraw
<1>5. QED
  BY <1>1, <1>2, <1>3, <1>4 DEF Inv, TypeOK, Ready

LEMMA RestartType == ASSUME Inv, NEW r \in Replica, Restart(r) PROVE Inv'
<1>1. /\ working' \subseteq Replica /\ leading' \in [Replica -> BOOLEAN]
      /\ cooled' \in [Replica -> BOOLEAN] /\ aware' \in [Replica -> BOOLEAN]
      /\ ruled' \in [Replica -> BOOLEAN] /\ stood' \in [Replica -> BOOLEAN]
  BY DEF Inv, TypeOK, Restart
<1>2. tick' \in [Replica -> Tick] /\ tick' = [tick EXCEPT ![r] = Idle]
  BY IdleType DEF Inv, TypeOK, Restart
<1>3. /\ evals' \in [Replica -> [Row -> Nat]] /\ done' \in [Replica -> SUBSET Row]
      /\ strayed' \subseteq Replica
  BY DEF Inv, TypeOK, Restart, Never
<1>4. seen' \in [Replica -> Seq(Row) \cup {None}] /\ seen' = [seen EXCEPT ![r] = None]
  BY DEF Inv, TypeOK, Restart
<1>5. \A q \in Replica : seen'[q] # None => Len(seen'[q]) <= SeenSize
  BY <1>4 DEF Inv, TypeOK
<1>6. faults' \in 0 .. MaxFaults
  BY FaultType DEF Inv, Restart
<1>7. UNCHANGED <<rows, cursor, stamp, enabled, judged, waived, late, changes>>
  BY DEF Restart
<1>8. TypeOK'
  BY <1>1, <1>2, <1>3, <1>4, <1>5, <1>6, <1>7 DEF Inv, TypeOK
<1>9. ASSUME NEW q \in Replica PROVE Ready(q)'
  BY <1>2, <1>4 DEF Inv, TypeOK, Ready, Idle
<1>10. QED
  BY <1>8, <1>9 DEF Inv

LEMMA TurnType == ASSUME Inv, NEW r \in Replica, StandBy(r) \/ StartTick(r) PROVE Inv'
<1>1. /\ leading' \in [Replica -> BOOLEAN] /\ cooled' \in [Replica -> BOOLEAN]
      /\ stood' \in [Replica -> BOOLEAN] /\ aware' \in [Replica -> BOOLEAN]
  <2>1. CASE StandBy(r)
    BY <2>1 DEF Inv, TypeOK, StandBy
  <2>2. CASE StartTick(r)
    <3>1. /\ leading' = [leading EXCEPT ![r] = TRUE] /\ stood' = [stood EXCEPT ![r] = FALSE]
          /\ aware' = [aware EXCEPT ![r] = @ \/ (stood[r] /\ stamp /\ faults' = faults)]
      BY <2>2 DEF StartTick
    <3>2. cooled' = cooled \/ cooled' = [cooled EXCEPT ![r] = @ \/ stamp]
      BY <2>2 DEF StartTick, RefreshCooldowns
    <3>3. QED
      BY <3>1, <3>2 DEF Inv, TypeOK
  <2>3. QED
    BY <2>1, <2>2
<1>2. faults' \in 0 .. MaxFaults
  BY FaultType DEF Inv, TypeOK, StandBy, StartTick, RefreshCooldowns
<1>3. [Idle EXCEPT !.pc = "cursor"] \in Tick
  BY NoneApart DEF Idle, Tick
<1>4. tick' = tick \/ tick' = [tick EXCEPT ![r] = [Idle EXCEPT !.pc = "cursor"]]
  BY DEF StandBy, StartTick
<1>5. UNCHANGED <<working, rows, cursor, stamp, enabled, seen, ruled, evals, strayed, done,
                  judged, waived, late, changes>>
  BY DEF StandBy, StartTick, RefreshCooldowns
<1>6. tick' \in [Replica -> Tick]
  BY <1>3, <1>4 DEF Inv, TypeOK
<1>7. TypeOK'
  BY <1>1, <1>2, <1>5, <1>6 DEF Inv, TypeOK
<1>8. ASSUME NEW q \in Replica PROVE Ready(q)'
  <2>1. tick'[q] = tick[q] \/ tick'[q].pc = "cursor"
    BY <1>4 DEF Inv, TypeOK, Idle
  <2>2. Ready(q)
    BY DEF Inv
  <2>3. QED
    BY <1>5, <2>1, <2>2 DEF Ready
<1>9. QED
  BY <1>7, <1>8 DEF Inv

\* The tail of the table, and what the cursor of a tick is read as.
TailOf == IF Visible = {} THEN 0 ELSE Max(Visible)
Reseeds == cursor # None => cursor > TailOf
Start  == IF Reseeds THEN TailOf ELSE cursor
Skipped == IF Reseeds THEN {i \in Visible : i <= LookBack(Start)} ELSE {}

LEMMA TailIs ==
    /\ TailOf \in 0 .. MaxRow
    /\ \A i \in Visible : i <= TailOf
    /\ Visible # {} => TailOf \in Visible
<1>1. Visible \in SUBSET Row
  BY DEF Visible
<1>2. CASE Visible = {}
  BY <1>2, NoneApart DEF TailOf
<1>3. CASE Visible # {}
  <2>1. TailOf \in Visible /\ \A i \in Visible : i <= TailOf
    BY <1>1, <1>3, MaxIs DEF TailOf
  <2>2. TailOf \in Nat /\ TailOf > 0 /\ TailOf <= MaxRow
    BY <1>1, <2>1, Ids
  <2>3. QED
    BY <2>1, <2>2, Sizes
<1>4. QED
  BY <1>2, <1>3

LEMMA StartType ==
    ASSUME TypeOK
    PROVE  Start \in 0 .. MaxRow /\ LookBack(Start) \in 0 .. MaxRow
<1>1. Start \in 0 .. MaxRow
  BY TailIs DEF Start, Reseeds, TypeOK
<1>2. Start \in Nat /\ Start <= MaxRow
  BY <1>1, Sizes
<1>3. QED
  BY <1>1, <1>2, Sizes DEF LookBack, Below

\* ReadCursor in the words above.
LEMMA ReadCursorIs ==
    ASSUME NEW r \in Replica, ReadCursor(r)
    PROVE  /\ tick[r].pc = "cursor" /\ cursor' = Start
           /\ tick' = [tick EXCEPT ![r].pc = "scan", ![r].last = Start, ![r].from = LookBack(Start)]
           /\ \/ ~Reseeds /\ seen[r] # None /\ UNCHANGED <<seen, evals, strayed, done, waived,
                                                           faults>>
              \/ /\ Reseeds \/ seen[r] = None
                 /\ seen' = [seen EXCEPT ![r] = LateWindow(Start)]
                 /\ done' = [done EXCEPT ![r] = {i \in judged : i <= Start}]
                 /\ waived' = waived \cup ((Skipped \cup Range(LateWindow(Start))) \ judged)
                 /\ strayed' = strayed \ {r} /\ UNCHANGED <<evals, faults>>
              \/ /\ Reseeds \/ seen[r] = None
                 /\ Fault("statement")
                 /\ seen' = [seen EXCEPT ![r] = << >>]
                 /\ done' = [done EXCEPT ![r] = {}]
                 /\ evals' = [evals EXCEPT ![r] = Never] /\ strayed' = strayed \ {r}
                 /\ waived' = waived \cup (Skipped \ judged)
           /\ UNCHANGED <<working, rows, stamp, enabled, leading, ruled, cooled, judged, late,
                          stood, aware, changes>>
BY DEF ReadCursor, Start, Reseeds, TailOf, Skipped

LEMMA ReadCursorType == ASSUME Inv, NEW r \in Replica, ReadCursor(r) PROVE Inv'
<1>1. Start \in 0 .. MaxRow /\ LookBack(Start) \in 0 .. MaxRow
  BY StartType DEF Inv
<1>2. LateWindow(Start) \in Seq(Row) /\ Len(LateWindow(Start)) <= SeenSize
  BY <1>1, LateWindowIs
<1>3. cursor' \in 0 .. MaxRow \cup {None}
  BY <1>1, ReadCursorIs
<1>4. tick' = [tick EXCEPT ![r].pc = "scan", ![r].last = Start, ![r].from = LookBack(Start)]
  BY ReadCursorIs
<1>5. tick' \in [Replica -> Tick]
  <2> DEFINE next == [tick[r] EXCEPT !.pc = "scan", !.last = Start, !.from = LookBack(Start)]
  <2>1. tick[r] \in Tick
    BY DEF Inv, TypeOK
  <2>2. next \in Tick
    BY <1>1, <2>1 DEF Tick
  <2>3. tick' = [tick EXCEPT ![r] = next]
    BY <1>4 DEF Inv, TypeOK
  <2> HIDE DEF next
  <2>4. QED
    BY <2>2, <2>3 DEF Inv, TypeOK
<1>6. \/ seen' = seen /\ seen[r] # None
      \/ seen' = [seen EXCEPT ![r] = LateWindow(Start)]
      \/ seen' = [seen EXCEPT ![r] = << >>]
  BY ReadCursorIs
<1>7. << >> \in Seq(Row) /\ Len(<< >>) <= SeenSize
  BY Sizes
<1>8. seen' \in [Replica -> Seq(Row) \cup {None}]
  BY <1>2, <1>6, <1>7 DEF Inv, TypeOK
<1>9. \A q \in Replica : seen'[q] # None => Len(seen'[q]) <= SeenSize
  BY <1>2, <1>6, <1>7 DEF Inv, TypeOK
<1>10. seen'[r] # None
  BY <1>2, <1>6, <1>7, NoneApart DEF Inv, TypeOK
<1>11. \A q \in Replica : q # r => seen'[q] = seen[q]
  BY <1>6 DEF Inv, TypeOK
<1>12. done' \in [Replica -> SUBSET Row]
  <2>1. {i \in judged : i <= Start} \in SUBSET Row
    BY DEF Inv, TypeOK
  <2>2. done' = done \/ done' = [done EXCEPT ![r] = {i \in judged : i <= Start}]
        \/ done' = [done EXCEPT ![r] = {}]
    BY ReadCursorIs
  <2>3. QED
    BY <2>1, <2>2 DEF Inv, TypeOK
<1>13. evals' \in [Replica -> [Row -> Nat]] /\ strayed' \subseteq Replica
  <2>1. Never \in [Row -> Nat]
    BY DEF Never
  <2>2. (evals' = evals \/ evals' = [evals EXCEPT ![r] = Never]) /\ strayed' \subseteq strayed
    BY ReadCursorIs
  <2>3. QED
    BY <2>1, <2>2 DEF Inv, TypeOK
<1>14. waived' \subseteq Row
  <2>1. Skipped \subseteq Row
    BY DEF Skipped, Visible
  <2>2. Range(LateWindow(Start)) \subseteq Row
    BY <1>1, LateWindowIs DEF InWindow, Visible
  <2>3. waived' \subseteq waived \cup Skipped \cup Range(LateWindow(Start))
    BY ReadCursorIs
  <2>4. QED
    BY <2>1, <2>2, <2>3 DEF Inv, TypeOK
<1>15. faults' \in 0 .. MaxFaults
  <2>1. faults' = faults \/ Fault("statement")
    BY ReadCursorIs
  <2>2. QED
    BY <2>1, FaultType DEF Inv, TypeOK
<1>16. UNCHANGED <<working, rows, stamp, enabled, leading, ruled, cooled, judged, late, stood,
                   aware, changes>>
  BY ReadCursorIs
<1>17. TypeOK'
  BY <1>3, <1>5, <1>8, <1>9, <1>12, <1>13, <1>14, <1>15, <1>16 DEF Inv, TypeOK
<1>18. ASSUME NEW q \in Replica PROVE Ready(q)'
  <2>1. CASE q = r
    BY <1>10, <2>1 DEF Ready
  <2>2. CASE q # r
    <3>1. tick'[q] = tick[q] /\ seen'[q] = seen[q]
      BY <1>4, <1>11, <2>2 DEF Inv, TypeOK
    <3>2. QED
      BY <3>1 DEF Inv, Ready
  <2>3. QED
    BY <2>1, <2>2
<1>19. QED
  BY <1>17, <1>18 DEF Inv

LEMMA QuerySinceIs == \A from : QuerySince(from) \subseteq {i \in Visible : i > from}
BY DEF QuerySince

LEMMA ScanType == ASSUME Inv, NEW r \in Replica, Scan(r) PROVE Inv'
<1> DEFINE found == QuerySince(tick[r].from)
           next == [tick[r] EXCEPT !.pc = "eval", !.from = 0, !.batch = found, !.top = Max(found),
                                   !.full = Cardinality(found) = Batch]
<1>1. found \in SUBSET Row
  BY QuerySinceIs DEF Visible
<1>2. tick[r].pc = "scan" /\ seen[r] # None /\ tick[r] \in Tick
  BY DEF Scan, Inv, Ready, TypeOK
<1>3. tick' = [tick EXCEPT ![r] = IF found = {} THEN Idle ELSE next]
  BY DEF Scan
<1>4. found # {} => next \in Tick
  <2> SUFFICES ASSUME found # {} PROVE next \in Tick
    OBVIOUS
  <2>1. Max(found) \in Row
    BY <1>1, MaxIs
  <2>2. Max(found) \in 0 .. MaxRow
    BY <2>1, Ids, Sizes
  <2>3. (Cardinality(found) = Batch) \in BOOLEAN
    OBVIOUS
  <2> HIDE DEF found
  <2>4. QED
    BY <1>1, <1>2, <2>2, <2>3, NoneApart DEF Tick
<1> HIDE DEF next, found
<1>5. tick' \in [Replica -> Tick]
  BY <1>3, <1>4, IdleType DEF Inv, TypeOK
<1>6. UNCHANGED <<working, rows, cursor, stamp, enabled, leading, seen, ruled, cooled, evals,
                  strayed, done, judged, waived, late, stood, aware, changes, faults>>
  BY DEF Scan
<1>7. ASSUME NEW q \in Replica PROVE Ready(q)'
  <2>1. CASE q = r
    BY <1>2, <1>6, <2>1 DEF Ready
  <2>2. CASE q # r
    <3>1. tick'[q] = tick[q]
      BY <1>3, <2>2 DEF Inv, TypeOK
    <3>2. QED
      BY <1>6, <3>1 DEF Inv, Ready
  <2>3. QED
    BY <2>1, <2>2
<1>8. TypeOK'
  BY <1>5, <1>6 DEF Inv, TypeOK
<1>9. QED
  BY <1>7, <1>8 DEF Inv

LEMMA FireType ==
    ASSUME Inv, NEW r \in Replica, Fire(r)
    PROVE  /\ cooled' \in [Replica -> BOOLEAN] /\ stamp' \in BOOLEAN
           /\ aware' \in [Replica -> BOOLEAN] /\ faults' \in 0 .. MaxFaults
<1>1. CASE cooled[r]
  BY <1>1 DEF Fire, Inv, TypeOK
<1>2. CASE ~cooled[r]
  <2>1. /\ cooled' = [cooled EXCEPT ![r] = TRUE] /\ aware' = [q \in Replica |-> q = r]
        /\ (stamp' = TRUE /\ faults' = faults) \/ (Fault("statement") /\ stamp' = stamp)
    BY <1>2 DEF Fire
  <2>2. faults' \in 0 .. MaxFaults
    BY <2>1, FaultType DEF Inv, TypeOK
  <2>3. cooled' \in [Replica -> BOOLEAN] /\ aware' \in [Replica -> BOOLEAN]
    BY <2>1 DEF Inv, TypeOK
  <2>4. stamp' \in BOOLEAN
    <3>1. stamp \in BOOLEAN
      BY DEF Inv, TypeOK
    <3>2. stamp' = TRUE \/ stamp' = stamp
      BY <2>1
    <3>3. QED
      BY <3>1, <3>2
  <2>5. QED
    BY <2>2, <2>3, <2>4
<1>3. QED
  BY <1>1, <1>2

LEMMA JudgeType ==
    ASSUME Inv, NEW r \in Replica, NEW i \in Row, Judge(r, i)
    PROVE  /\ cooled' \in [Replica -> BOOLEAN] /\ stamp' \in BOOLEAN
           /\ aware' \in [Replica -> BOOLEAN] /\ faults' \in 0 .. MaxFaults
           /\ ruled' \in [Replica -> BOOLEAN] /\ evals' \in [Replica -> [Row -> Nat]]
           /\ judged' \subseteq Row /\ waived' \subseteq Row /\ late' \subseteq Row
<1>1. CASE /\ ruled' = [ruled EXCEPT ![r] = TRUE]
           /\ evals' = IF r \in strayed THEN evals ELSE [evals EXCEPT ![r][i] = @ + 1]
           /\ judged' = judged \cup {i}
           /\ waived' = waived \ {i} /\ late' = late \ {i}
           /\ Fire(r)
  <2>1. evals' \in [Replica -> [Row -> Nat]]
    BY <1>1 DEF Inv, TypeOK
  <2>2. ruled' \in [Replica -> BOOLEAN] /\ judged' \subseteq Row /\ waived' \subseteq Row /\ late' \subseteq Row
    BY <1>1 DEF Inv, TypeOK
  <2>3. QED
    BY <1>1, <2>1, <2>2, FireType
<1>2. CASE /\ Fault("statement") /\ waived' = waived \cup ({i} \ judged)
           /\ UNCHANGED <<ruled, evals, judged, late, cooled, stamp, aware>>
  BY <1>2, FaultType DEF Inv, TypeOK
<1>3. QED
  BY <1>1, <1>2 DEF Judge

\* Evaluate in the words above.
Judges(r, i) ==
    /\ tick[r].pc = "eval"
    /\ i \in tick[r].batch \ Range(seen[r])
    /\ \A j \in tick[r].batch : j < i => j \in Range(seen[r])
    /\ seen' = [seen EXCEPT ![r] = Remember(@, i)]
    /\ tick' = [tick EXCEPT ![r].batch = {j \in @ : j > i}]
    /\ Judge(r, i)
    /\ UNCHANGED <<working, rows, cursor, enabled, leading, strayed, done, stood, changes>>

LEMMA EvaluateIs ==
    ASSUME Inv, NEW r \in Replica, Evaluate(r)
    PROVE  \E i \in Row : Judges(r, i)
<1>1. PICK i \in tick[r].batch \ Range(seen[r]) : Judges(r, i)
  BY DEF Evaluate, Judges
<1>2. tick[r].batch \subseteq Row
  BY DEF Inv, TypeOK, Tick
<1>3. QED
  BY <1>1, <1>2

LEMMA SeenType ==
    ASSUME Inv, NEW r \in Replica, tick[r].pc \in {"scan", "eval"}
    PROVE  seen[r] \in Seq(Row) /\ Len(seen[r]) <= SeenSize
BY DEF Inv, TypeOK, Ready

LEMMA EvaluateType == ASSUME Inv, NEW r \in Replica, Evaluate(r) PROVE Inv'
<1>1. PICK i \in Row : Judges(r, i)
  BY EvaluateIs
<1>2. seen[r] \in Seq(Row) /\ Len(seen[r]) <= SeenSize
  BY <1>1, SeenType DEF Judges
<1>3. Remember(seen[r], i) \in Seq(Row) /\ Len(Remember(seen[r], i)) <= SeenSize
  BY <1>2, RememberType
<1>4. seen' = [seen EXCEPT ![r] = Remember(seen[r], i)]
  BY <1>1 DEF Judges
<1>5. seen' \in [Replica -> Seq(Row) \cup {None}] /\ seen'[r] # None
  BY <1>3, <1>4, NoneApart DEF Inv, TypeOK
<1>6. \A q \in Replica : seen'[q] # None => Len(seen'[q]) <= SeenSize
  BY <1>3, <1>4 DEF Inv, TypeOK
<1>7. tick' = [tick EXCEPT ![r].batch = {j \in @ : j > i}]
  BY <1>1 DEF Judges
<1>8. tick' \in [Replica -> Tick]
  <2> DEFINE next == [tick[r] EXCEPT !.batch = {j \in @ : j > i}]
  <2>1. tick[r] \in Tick
    BY DEF Inv, TypeOK
  <2>2. next \in Tick
    BY <2>1 DEF Tick
  <2>3. tick' = [tick EXCEPT ![r] = next]
    BY <1>7 DEF Inv, TypeOK
  <2> HIDE DEF next
  <2>4. QED
    BY <2>2, <2>3 DEF Inv, TypeOK
<1>9. /\ cooled' \in [Replica -> BOOLEAN] /\ stamp' \in BOOLEAN
      /\ aware' \in [Replica -> BOOLEAN] /\ faults' \in 0 .. MaxFaults
      /\ ruled' \in [Replica -> BOOLEAN] /\ evals' \in [Replica -> [Row -> Nat]]
      /\ judged' \subseteq Row /\ waived' \subseteq Row /\ late' \subseteq Row
  BY <1>1, JudgeType DEF Judges
<1>12. UNCHANGED <<working, rows, cursor, enabled, leading, strayed, done, stood, changes>>
  BY <1>1 DEF Judges
<1>13. TypeOK'
  BY <1>5, <1>6, <1>8, <1>9, <1>12 DEF Inv, TypeOK
<1>14. ASSUME NEW q \in Replica PROVE Ready(q)'
  <2>1. CASE q = r
    BY <1>5, <2>1 DEF Ready
  <2>2. CASE q # r
    <3>1. tick'[q] = tick[q] /\ seen'[q] = seen[q]
      BY <1>4, <1>7, <2>2 DEF Inv, TypeOK
    <3>2. QED
      BY <3>1 DEF Inv, Ready
  <2>3. QED
    BY <2>1, <2>2
<1>15. QED
  BY <1>13, <1>14 DEF Inv

\* The cursor that Advance leaves to the next batch.
Moved(r) == IF tick[r].top > tick[r].last THEN tick[r].top ELSE tick[r].last

LEMMA AdvanceIs ==
    ASSUME NEW r \in Replica, Advance(r)
    PROVE  /\ tick[r].pc = "eval" /\ tick[r].batch \subseteq Range(seen[r])
           /\ cursor' = IF tick[r].top > tick[r].last THEN tick[r].top ELSE cursor
           /\ IF cursor' < cursor THEN Stray(OutOfReach(cursor'))
              ELSE UNCHANGED <<strayed, evals, done>>
           /\ tick' = [tick EXCEPT ![r] =
                         IF tick[r].full
                         THEN [Idle EXCEPT !.pc = "scan", !.last = Moved(r), !.from = tick[r].top]
                         ELSE Idle]
           /\ UNCHANGED <<working, rows, stamp, enabled, leading, seen, ruled, cooled, judged,
                          waived, late, stood, aware, changes, faults>>
BY DEF Advance, Moved

LEMMA StrayType ==
    ASSUME Inv, NEW at, Stray(OutOfReach(at))
    PROVE  /\ strayed' \subseteq Replica /\ evals' \in [Replica -> [Row -> Nat]]
           /\ done' \in [Replica -> SUBSET Row]
<1>1. OutOfReach(at) \subseteq Replica
  BY DEF OutOfReach
<1>2. strayed' \subseteq Replica
  BY <1>1 DEF Stray, Inv, TypeOK
<1>3. evals' \in [Replica -> [Row -> Nat]]
  <2>1. Never \in [Row -> Nat]
    BY DEF Never
  <2>2. QED
    BY <2>1 DEF Stray, Inv, TypeOK
<1>4. done' \in [Replica -> SUBSET Row]
  <2>1. \A q \in Replica : done[q] \subseteq Row
    BY DEF Inv, TypeOK
  <2>2. QED
    BY <2>1 DEF Stray
<1>5. QED
  BY <1>2, <1>3, <1>4

LEMMA AdvanceType == ASSUME Inv, NEW r \in Replica, Advance(r) PROVE Inv'
<1> DEFINE next == IF tick[r].full
                   THEN [Idle EXCEPT !.pc = "scan", !.last = Moved(r), !.from = tick[r].top]
                   ELSE Idle
<1>1. tick[r].top \in 0 .. MaxRow /\ tick[r].last \in 0 .. MaxRow
  BY DEF Inv, TypeOK, Tick
<1>2. Moved(r) \in 0 .. MaxRow
  BY <1>1 DEF Moved
<1>3. next \in Tick
  BY <1>1, <1>2, NoneApart DEF Idle, Tick
<1>4. tick' = [tick EXCEPT ![r] = next]
  BY AdvanceIs
<1> HIDE DEF next
<1>5. tick' \in [Replica -> Tick]
  BY <1>3, <1>4 DEF Inv, TypeOK
<1>6. cursor' \in 0 .. MaxRow \cup {None}
  BY <1>1, AdvanceIs DEF Inv, TypeOK
<1>7. /\ strayed' \subseteq Replica /\ evals' \in [Replica -> [Row -> Nat]]
      /\ done' \in [Replica -> SUBSET Row]
  BY AdvanceIs, StrayType DEF Inv, TypeOK
<1>8. UNCHANGED <<working, rows, stamp, enabled, leading, seen, ruled, cooled, judged, waived, late,
                  stood, aware, changes, faults>>
  BY AdvanceIs
<1>9. TypeOK'
  BY <1>5, <1>6, <1>7, <1>8 DEF Inv, TypeOK
<1>10. ASSUME NEW q \in Replica PROVE Ready(q)'
  <2>1. CASE q = r
    <3>1. tick[r].pc = "eval"
      BY AdvanceIs
    <3>2. seen[r] # None
      BY <3>1 DEF Inv, Ready
    <3>3. QED
      BY <1>8, <2>1, <3>2 DEF Ready
  <2>2. CASE q # r
    <3>1. tick'[q] = tick[q]
      BY <1>4, <2>2 DEF Inv, TypeOK
    <3>2. QED
      BY <1>8, <3>1 DEF Inv, Ready
  <2>3. QED
    BY <2>1, <2>2
<1>11. QED
  BY <1>9, <1>10 DEF Inv

LEMMA FailType == ASSUME Inv, NEW r \in Replica, Fail(r) PROVE Inv'
<1>1. tick' = [tick EXCEPT ![r] = Idle]
  BY DEF Fail
<1>2. tick' \in [Replica -> Tick]
  BY <1>1, IdleType DEF Inv, TypeOK
<1>3. faults' \in 0 .. MaxFaults
  BY FaultType DEF Inv, Fail
<1>4. UNCHANGED <<working, rows, cursor, stamp, enabled, leading, seen, ruled, cooled, judged,
                  waived, late, stood, aware, changes>>
  BY DEF Fail
<1>5. /\ strayed' \subseteq Replica /\ evals' \in [Replica -> [Row -> Nat]]
      /\ done' \in [Replica -> SUBSET Row]
  BY StrayType DEF Fail, Inv, TypeOK
<1>6. TypeOK'
  BY <1>2, <1>3, <1>4, <1>5 DEF Inv, TypeOK
<1>7. ASSUME NEW q \in Replica PROVE Ready(q)'
  BY <1>1, <1>4 DEF Inv, TypeOK, Ready, Idle
<1>8. QED
  BY <1>6, <1>7 DEF Inv

LEMMA InvStep == Inv /\ [Next]_vars => Inv'
<1> SUFFICES ASSUME Inv, [Next]_vars PROVE Inv'
  OBVIOUS
<1>1. ASSUME NEW i \in Row, Insert(i) \/ Commit(i) \/ Delete(i) PROVE Inv'
  BY <1>1, TableType
<1>2. CASE Pause \/ Resume
  BY <1>2, ServiceType
<1>3. ASSUME NEW r \in Replica, Grant(r) \/ Withdraw(r) PROVE Inv'
  BY <1>3, LeaseType
<1>4. ASSUME NEW r \in Replica, StepOf(r) PROVE Inv'
  <2>1. CASE StandBy(r) \/ StartTick(r)
    BY <2>1, TurnType
  <2>2. CASE ReadCursor(r)
    BY <2>2, ReadCursorType
  <2>3. CASE Scan(r)
    BY <2>3, ScanType
  <2>4. CASE Evaluate(r)
    BY <2>4, EvaluateType
  <2>5. CASE Advance(r)
    BY <2>5, AdvanceType
  <2>6. QED
    BY <1>4, <2>1, <2>2, <2>3, <2>4, <2>5 DEF StepOf
<1>5. ASSUME NEW r \in Replica, Restart(r) \/ Fail(r) PROVE Inv'
  BY <1>5, RestartType, FailType
<1>6. CASE UNCHANGED vars
  BY <1>6 DEF vars, Inv, TypeOK, Ready
<1>7. QED
  BY <1>1, <1>2, <1>3, <1>4, <1>5, <1>6 DEF Next

LEMMA Invariance == Spec => []Inv
BY InvInit, InvStep, PTL DEF Spec

\* The table, the cursor, the windows and the ticks keep their types for any number of
\* replicas and rows, whatever fails, and no window outgrows _Seen.
THEOREM TypeCorrect == Spec => []TypeOK
BY Invariance, PTL DEF Inv

(***************************************************************************)
(* Cooldowns.                                                               *)
(***************************************************************************)

\* Who took over, or started, since anybody else fired and could read it has the cooldown in
\* memory; and a process knows of every tick it began without the lease.
Informed ==
    /\ \A r \in Replica : stood[r] => ~leading[r]
    /\ \A r \in Replica : aware[r] /\ stamp => cooled[r]

LEMMA InformedInit == Init => Informed
BY DEF Init, Informed

LEMMA StartInformed == ASSUME Inv, Informed, NEW r \in Replica, StartTick(r) PROVE Informed'
<1>1. /\ leading' = [leading EXCEPT ![r] = TRUE] /\ stood' = [stood EXCEPT ![r] = FALSE]
      /\ aware' = [aware EXCEPT ![r] = @ \/ (stood[r] /\ stamp /\ faults' = faults)]
      /\ stamp' = stamp /\ faults \in Nat
  BY DEF StartTick, Inv, TypeOK
<1>2. \/ cooled' = [cooled EXCEPT ![r] = @ \/ stamp]
      \/ cooled' = cooled /\ (leading[r] \/ faults' = faults + 1)
  BY DEF StartTick, RefreshCooldowns, Fault
<1>3. \A q \in Replica : stood'[q] => ~leading'[q]
  BY <1>1 DEF Informed, Inv, TypeOK
<1>4. ASSUME NEW q \in Replica, aware'[q], stamp PROVE cooled'[q]
  <2>1. CASE q # r
    BY <1>1, <1>2, <1>4, <2>1 DEF Informed, Inv, TypeOK
  <2>2. CASE q = r /\ cooled' = [cooled EXCEPT ![r] = @ \/ stamp]
    BY <1>4, <2>2 DEF Inv, TypeOK
  <2>3. CASE q = r /\ cooled' = cooled /\ (leading[r] \/ faults' = faults + 1)
    <3>1. ~(stood[r] /\ faults' = faults)
      BY <1>1, <2>3 DEF Informed
    <3>2. aware[r]
      BY <1>1, <1>4, <2>3, <3>1 DEF Inv, TypeOK
    <3>3. QED
      BY <1>4, <2>3, <3>2 DEF Informed
  <2>4. QED
    BY <1>2, <2>1, <2>2, <2>3
<1>5. QED
  BY <1>1, <1>3, <1>4 DEF Informed

LEMMA InformedStep == ASSUME Inv, Informed, [Next]_vars PROVE Informed'
<1>1. CASE UNCHANGED <<aware, stamp, cooled, stood, leading>>
  BY <1>1 DEF Informed
<1>3. ASSUME NEW r \in Replica, Restart(r) PROVE Informed'
  <2>1. PICK read \in BOOLEAN : /\ cooled' = [cooled EXCEPT ![r] = read /\ stamp]
                                /\ aware' = [aware EXCEPT ![r] = read /\ stamp]
    BY <1>3 DEF Restart
  <2>2. UNCHANGED stamp /\ leading' = [leading EXCEPT ![r] = FALSE] /\ stood' = [stood EXCEPT ![r] = TRUE]
    BY <1>3 DEF Restart
  <2>3. QED
    BY <2>1, <2>2 DEF Informed, Inv, TypeOK
<1>4. ASSUME NEW r \in Replica, Fire(r), UNCHANGED <<stood, leading>> PROVE Informed'
  <2>1. CASE cooled[r]
    BY <1>4, <1>1, <2>1 DEF Fire
  <2>2. CASE ~cooled[r]
    <3>1. cooled' = [cooled EXCEPT ![r] = TRUE] /\ aware' = [q \in Replica |-> q = r]
      BY <1>4, <2>2 DEF Fire
    <3>2. QED
      BY <1>4, <3>1 DEF Informed, Inv, TypeOK
  <2>3. QED
    BY <2>1, <2>2
<1>5. ASSUME NEW r \in Replica, StepOf(r) PROVE Informed'
  <2>1. CASE StandBy(r)
    BY <2>1 DEF StandBy, Informed, Inv, TypeOK
  <2>2. CASE StartTick(r)
    BY <2>2, StartInformed
  <2>3. CASE ReadCursor(r)
    BY <1>1, <2>3, ReadCursorIs
  <2>4. CASE Evaluate(r)
    <3>1. PICK i \in Row : Judges(r, i)
      BY <2>4, EvaluateIs
    <3>2. Fire(r) \/ UNCHANGED <<aware, stamp, cooled>>
      BY <3>1 DEF Judges, Judge
    <3>3. UNCHANGED <<stood, leading>>
      BY <3>1 DEF Judges
    <3>4. QED
      BY <1>1, <1>4, <3>2, <3>3
  <2>5. CASE Advance(r)
    BY <1>1, <2>5, AdvanceIs
  <2>6. CASE Scan(r)
    BY <1>1, <2>6 DEF Scan
  <2>7. QED
    BY <1>5, <2>1, <2>2, <2>3, <2>4, <2>5, <2>6 DEF StepOf
<1>6. ASSUME NEW i \in Row, Insert(i) \/ Commit(i) \/ Delete(i) PROVE Informed'
  BY <1>1, <1>6 DEF Insert, Commit, Delete
<1>7. CASE Pause \/ Resume
  BY <1>1, <1>7 DEF Pause, Resume
<1>8. ASSUME NEW r \in Replica, Grant(r) \/ Withdraw(r) \/ Fail(r) PROVE Informed'
  BY <1>1, <1>8 DEF Grant, Withdraw, Fail
<1>9. CASE UNCHANGED vars
  BY <1>1, <1>9 DEF vars
<1>10. QED
  BY <1>3, <1>5, <1>6, <1>7, <1>8, <1>9 DEF Next

\* A stored cooldown holds across restarts and changes of leader for whoever began to work,
\* or started, since it was stored and could read it, for any number of replicas and faults
\* (_event_worker_tick_impl, _event_refresh_cooldowns, _attach_event_state).
THEOREM CooldownsHold == Spec => CooldownHeld
<1> DEFINE A == \A r \in Replica : Evaluate(r) /\ cooled'[r] # cooled[r] /\ stamp => ~aware[r]
<1>1. Inv /\ Informed => A
  <2> SUFFICES ASSUME Inv, Informed, NEW r \in Replica, Evaluate(r), cooled'[r] # cooled[r], stamp
               PROVE  ~aware[r]
    OBVIOUS
  <2>1. Fire(r)
    BY DEF Evaluate, Judge
  <2>2. ~cooled[r]
    BY <2>1 DEF Fire
  <2>3. QED
    BY <2>2 DEF Informed
<1>2. Init => Informed
  BY InformedInit
<1>3. Inv /\ Informed /\ [Next]_vars => Informed'
  BY InformedStep
<1>4. QED
  BY Invariance, <1>1, <1>2, <1>3, PTL DEF Spec, CooldownHeld

(***************************************************************************)
(* No row is lost.  What a tick has read past, its process has seen to or   *)
(* is about to, whatever happens to the lease and the cursor meanwhile; so  *)
(* a cursor is never stored past a row still to be met.                     *)
(***************************************************************************)

Answered == judged \cup waived
InTime   == Visible \ late

\* The window of a process holds nothing but what was evaluated or taken as done.
WindowAnswered(r) == seen[r] # None => Range(seen[r]) \subseteq Answered

TickAnswers(r) ==
    /\ tick[r].pc = "scan" => \A i \in InTime : i <= tick[r].from => i \in Answered
    /\ tick[r].pc = "eval" =>
         \A i \in InTime : i <= tick[r].top => i \in Answered \cup tick[r].batch

Lossless == NoneLost /\ \A r \in Replica : WindowAnswered(r) /\ TickAnswers(r)

LEMMA LosslessInit == Init => Lossless
BY DEF Init, Lossless, NoneLost, WindowAnswered, TickAnswers, Idle

\* A step that evaluates, waives and commits nothing, where no tick reads any further.
LEMMA NothingRead ==
    ASSUME Lossless, UNCHANGED <<rows, cursor, judged, waived, late>>,
           \A r \in Replica : /\ tick'[r] = tick[r] \/ tick'[r].pc \notin {"scan", "eval"}
                              /\ seen'[r] = seen[r] \/ seen'[r] = None
    PROVE  Lossless'
<1>1. Answered' = Answered /\ InTime' = InTime
  BY DEF Answered, InTime, Visible
<1>2. NoneLost'
  BY DEF Lossless, NoneLost, Visible
<1>3. ASSUME NEW r \in Replica PROVE WindowAnswered(r)' /\ TickAnswers(r)'
  <2>1. WindowAnswered(r) /\ TickAnswers(r)
    BY DEF Lossless
  <2>2. WindowAnswered(r)'
    BY <1>1, <2>1 DEF WindowAnswered
  <2>3. TickAnswers(r)'
    BY <1>1, <2>1 DEF TickAnswers
  <2>4. QED
    BY <2>2, <2>3
<1>4. QED
  BY <1>2, <1>3 DEF Lossless

\* A row that becomes visible is in time only where no tick has read past it.
LEMMA TableLossless ==
    ASSUME Inv, Lossless, NEW k \in Row, Insert(k) \/ Commit(k) \/ Delete(k)
    PROVE  Lossless'
<1>1. UNCHANGED <<cursor, judged, waived, tick, seen>>
  BY DEF Insert, Commit, Delete
<1>2. ASSUME NEW i \in InTime', i \notin InTime PROVE ~Overtaken(i)
  <2>1. CASE Delete(k)
    BY <1>2, <2>1 DEF Delete, InTime, Visible, Inv, TypeOK
  <2>2. CASE rows' = [rows EXCEPT ![k] = "open"] /\ late' = late
    BY <1>2, <2>2 DEF InTime, Visible, Inv, TypeOK
  <2>3. CASE Appear(k)
    <3>1. late \subseteq late' /\ (Overtaken(k) => k \in late')
      BY <2>3 DEF Appear
    <3>2. \A j \in Row : j # k => rows'[j] = rows[j]
      BY <2>3 DEF Appear, Inv, TypeOK
    <3>3. i = k
      BY <1>2, <3>1, <3>2 DEF InTime, Visible
    <3>4. QED
      BY <1>2, <3>1, <3>3 DEF InTime
  <2>4. QED
    BY <2>1, <2>2, <2>3 DEF Insert, Commit
<1>3. NoneLost'
  <2> SUFFICES ASSUME NEW i \in InTime', cursor # None, i <= Below(cursor, Window)
               PROVE  i \in Answered
    BY <1>1 DEF NoneLost, InTime, Answered
  <2>1. i \in InTime
    BY <1>2 DEF Overtaken
  <2>2. QED
    BY <2>1 DEF Lossless, NoneLost, InTime, Answered
<1>4. ASSUME NEW r \in Replica PROVE WindowAnswered(r)' /\ TickAnswers(r)'
  <2>1. WindowAnswered(r) /\ TickAnswers(r) /\ Answered' = Answered
    BY <1>1 DEF Lossless, Answered
  <2>2. WindowAnswered(r)'
    BY <1>1, <2>1 DEF WindowAnswered
  <2>3. ASSUME tick[r].pc = "scan", NEW i \in InTime', i <= tick[r].from PROVE i \in Answered
    BY <1>2, <2>1, <2>3 DEF Overtaken, TickAnswers
  <2>4. ASSUME tick[r].pc = "eval", NEW i \in InTime', i <= tick[r].top
        PROVE  i \in Answered \cup tick[r].batch
    BY <1>2, <2>1, <2>4 DEF Overtaken, TickAnswers
  <2>5. TickAnswers(r)'
    BY <1>1, <2>1, <2>3, <2>4 DEF TickAnswers
  <2>6. QED
    BY <2>2, <2>5
<1>5. QED
  BY <1>3, <1>4 DEF Lossless

\* The first read of a tick.  A cursor left where it was has nothing lost behind it; what one
\* put elsewhere leaves behind is waived.
LEMMA ReadCursorLossless ==
    ASSUME Inv, Lossless, NEW r \in Replica, ReadCursor(r)
    PROVE  Lossless'
<1>1. UNCHANGED <<rows, judged, late>> /\ cursor' = Start
  BY ReadCursorIs
<1>2. Answered \cup (Skipped \ judged) \subseteq Answered' /\ InTime' = InTime
  <2>1. Reseeds \/ Skipped = {}
    BY DEF Skipped
  <2>2. waived \cup (Skipped \ judged) \subseteq waived'
    BY <2>1, ReadCursorIs
  <2>3. QED
    BY <1>1, <2>2 DEF Answered, InTime, Visible
<1>3. ASSUME NEW i \in InTime, i <= LookBack(Start) PROVE i \in Answered'
  <2>1. CASE Reseeds
    <3>1. i \in Skipped
      BY <1>3, <2>1 DEF Skipped, InTime
    <3>2. QED
      BY <1>1, <1>2, <3>1 DEF Answered
  <2>2. CASE ~Reseeds
    <3>1. cursor # None /\ i <= Below(cursor, Window)
      BY <1>3, <2>2 DEF Start, Reseeds, LookBack
    <3>2. QED
      BY <1>2, <3>1 DEF Lossless, NoneLost, InTime, Answered
  <2>3. QED
    BY <2>1, <2>2
<1>4. NoneLost'
  <2>1. Visible' \ late' = InTime
    BY <1>2 DEF InTime
  <2>2. judged' \cup waived' = Answered'
    BY DEF Answered
  <2>3. QED
    BY <1>1, <1>3, <2>1, <2>2 DEF NoneLost, LookBack
<1>5. WindowAnswered(r)'
  <2>1. CASE seen' = seen
    BY <1>2, <2>1 DEF Lossless, WindowAnswered
  <2>2. CASE /\ seen' = [seen EXCEPT ![r] = LateWindow(Start)]
             /\ waived' = waived \cup ((Skipped \cup Range(LateWindow(Start))) \ judged)
    <3>1. seen'[r] = LateWindow(Start)
      BY <2>2 DEF Inv, TypeOK
    <3>2. Range(LateWindow(Start)) \subseteq judged' \cup waived'
      BY <1>1, <2>2
    <3>3. QED
      BY <3>1, <3>2 DEF WindowAnswered, Answered
  <2>3. CASE seen' = [seen EXCEPT ![r] = << >>]
    <3>1. seen'[r] = << >>
      BY <2>3 DEF Inv, TypeOK
    <3>2. Range(<< >>) = {}
      BY DEF Range
    <3>3. QED
      BY <3>1, <3>2 DEF WindowAnswered
  <2>4. QED
    BY <2>1, <2>2, <2>3, ReadCursorIs
<1>6. TickAnswers(r)'
  <2>1. tick' = [tick EXCEPT ![r].pc = "scan", ![r].last = Start, ![r].from = LookBack(Start)]
    BY ReadCursorIs
  <2>2. tick'[r].pc = "scan" /\ tick'[r].from = LookBack(Start)
    BY <2>1 DEF Inv, TypeOK, Tick
  <2>3. QED
    BY <1>2, <1>3, <2>2 DEF TickAnswers
<1>7. ASSUME NEW q \in Replica, q # r PROVE WindowAnswered(q)' /\ TickAnswers(q)'
  <2>1. tick' = [tick EXCEPT ![r].pc = "scan", ![r].last = Start, ![r].from = LookBack(Start)]
    BY ReadCursorIs
  <2>2. tick'[q] = tick[q]
    BY <1>7, <2>1 DEF Inv, TypeOK
  <2>3. \/ seen' = seen
        \/ seen' = [seen EXCEPT ![r] = LateWindow(Start)]
        \/ seen' = [seen EXCEPT ![r] = << >>]
    BY ReadCursorIs
  <2>4. seen'[q] = seen[q]
    BY <1>7, <2>3 DEF Inv, TypeOK
  <2>5. WindowAnswered(q) /\ TickAnswers(q)
    BY DEF Lossless
  <2>6. WindowAnswered(q)'
    BY <1>2, <2>4, <2>5 DEF WindowAnswered
  <2>7. TickAnswers(q)'
    BY <1>2, <2>2, <2>5 DEF TickAnswers
  <2>8. QED
    BY <2>6, <2>7
<1>8. QED
  BY <1>4, <1>5, <1>6, <1>7 DEF Lossless

\* A batch leaves out no visible row between the id it was read from and its last one.
Beyond(from) == {k \in Visible : k > from}
Lower(S, m)  == {k \in S : k < m}

LEMMA BatchUnbroken ==
    ASSUME NEW from, NEW j \in QuerySince(from), NEW i \in Visible, i > from, i <= j
    PROVE  i \in QuerySince(from)
<1> DEFINE S == Beyond(from)
<1>1. S \in SUBSET Row /\ \A m : Lower(S, m) \in SUBSET Row
  BY DEF Beyond, Lower, Visible
<1>2. QuerySince(from) = {m \in S : Cardinality(Lower(S, m)) < Batch}
  BY DEF QuerySince, Beyond, Lower
<1>3. i \in S /\ j \in S
  BY <1>2 DEF Beyond
<1> HIDE DEF S
<1>4. i \in Nat /\ j \in Nat /\ \A k \in S : k \in Nat
  BY <1>1, <1>3, Ids
<1>5. Lower(S, i) \subseteq Lower(S, j)
  BY <1>4 DEF Lower
<1>6. IsFiniteSet(Lower(S, j)) /\ Cardinality(Lower(S, i)) <= Cardinality(Lower(S, j))
  BY <1>1, <1>5, RowsFinite, FS_Subset
<1>7. Cardinality(Lower(S, i)) \in Nat /\ Cardinality(Lower(S, j)) \in Nat /\ Batch \in Nat
  BY <1>1, RowsFinite, Sizes
<1>8. Cardinality(Lower(S, j)) < Batch
  BY <1>2
<1>9. Cardinality(Lower(S, i)) < Batch
  BY <1>6, <1>7, <1>8
<1>10. QED
  BY <1>2, <1>3, <1>9

LEMMA ScanLossless ==
    ASSUME Inv, Lossless, NEW r \in Replica, Scan(r)
    PROVE  Lossless'
<1> DEFINE found == QuerySince(tick[r].from)
           next == [tick[r] EXCEPT !.pc = "eval", !.from = 0, !.batch = found, !.top = Max(found),
                                   !.full = Cardinality(found) = Batch]
<1>1. UNCHANGED <<rows, cursor, judged, waived, late, seen>> /\ tick[r].pc = "scan"
  BY DEF Scan
<1>2. tick' = [tick EXCEPT ![r] = IF found = {} THEN Idle ELSE next]
  BY DEF Scan
<1>3. \A q \in Replica : q # r => tick'[q] = tick[q]
  BY <1>2 DEF Inv, TypeOK
<1>4. CASE found = {}
  <2>1. tick'[r] = Idle
    BY <1>2, <1>4 DEF Inv, TypeOK
  <2>2. tick'[r].pc = "idle"
    BY <2>1 DEF Idle
  <2>3. QED
    BY <1>1, <1>3, <2>2, NothingRead
<1>5. CASE found # {}
  <2>1. found \in SUBSET Row
    BY QuerySinceIs DEF Visible
  <2>2. Max(found) \in found
    BY <1>5, <2>1, MaxIs
  <2>3. tick[r] \in Tick
    BY DEF Inv, TypeOK
  <2>4. next.pc = "eval" /\ next.batch = found /\ next.top = Max(found)
    BY <2>3 DEF Tick
  <2>5. tick'[r] = next
    BY <1>2, <1>5 DEF Inv, TypeOK
  <2> HIDE DEF next
  <2>6. tick'[r].pc = "eval" /\ tick'[r].batch = found /\ tick'[r].top = Max(found)
    BY <2>4, <2>5
  <2>7. Answered' = Answered /\ InTime' = InTime
    BY <1>1 DEF Answered, InTime, Visible
  <2>8. tick[r].from \in Nat
    BY <2>3, Sizes DEF Tick
  <2>9. ASSUME NEW i \in InTime, i <= Max(found) PROVE i \in Answered \cup found
    <3>1. CASE i <= tick[r].from
      BY <1>1, <3>1 DEF Lossless, TickAnswers
    <3>2. CASE i > tick[r].from
      BY <2>2, <2>9, <3>2, BatchUnbroken DEF InTime
    <3>3. i \in Nat
      BY Ids DEF InTime, Visible
    <3>4. QED
      BY <2>8, <3>1, <3>2, <3>3
  <2> HIDE DEF found
  <2>10. TickAnswers(r)'
    BY <2>6, <2>7, <2>9 DEF TickAnswers
  <2>11. ASSUME NEW q \in Replica PROVE WindowAnswered(q)' /\ (q # r => TickAnswers(q)')
    <3>1. WindowAnswered(q) /\ TickAnswers(q)
      BY DEF Lossless
    <3>2. QED
      BY <1>1, <1>3, <2>7, <3>1 DEF WindowAnswered, TickAnswers
  <2>12. NoneLost'
    BY <1>1 DEF Lossless, NoneLost, Visible
  <2>13. QED
    BY <2>10, <2>11, <2>12 DEF Lossless
<1>6. QED
  BY <1>4, <1>5

LEMMA RememberRange ==
    ASSUME NEW s \in Seq(Row), Len(s) <= SeenSize, NEW x \in Row
    PROVE  Range(Remember(s, x)) \subseteq Range(s) \cup {x}
<1>1. CASE x \in Range(s)
  BY <1>1 DEF Remember
<1>2. CASE x \notin Range(s)
  <2> DEFINE t == Remember(s, x)
  <2>1. PICK o \in {0, 1} : /\ o = 1 <=> Len(s) = SeenSize
                            /\ t \in Seq(Row) /\ Len(t) = Len(s) - o + 1
                            /\ \A k \in 1 .. Len(s) - o : t[k] = s[k + o]
                            /\ t[Len(s) - o + 1] = x
    BY <1>2, RememberShape
  <2> HIDE DEF t
  <2>2. Len(s) \in Nat /\ DOMAIN s = 1 .. Len(s) /\ DOMAIN t = 1 .. Len(s) - o + 1
    BY <2>1
  <2>3. ASSUME NEW k \in DOMAIN t PROVE t[k] \in Range(s) \cup {x}
    <3>1. CASE k = Len(s) - o + 1
      BY <2>1, <3>1
    <3>2. CASE k # Len(s) - o + 1
      <4>1. k \in 1 .. Len(s) - o /\ k + o \in DOMAIN s
        BY <2>2, <3>2
      <4>2. QED
        BY <2>1, <4>1 DEF Range
    <3>3. QED
      BY <3>1, <3>2
  <2>4. QED
    BY <2>3 DEF Range, t
<1>3. QED
  BY <1>1, <1>2

\* The rows of the batch before the one evaluated are in the window, so they are answered.
LEMMA EvaluateLossless ==
    ASSUME Inv, Lossless, NEW r \in Replica, Evaluate(r)
    PROVE  Lossless'
<1>1. PICK x \in Row : Judges(r, x)
  BY EvaluateIs
<1>2. UNCHANGED <<rows, cursor>> /\ tick[r].pc = "eval"
  BY <1>1 DEF Judges
<1>3. Answered' = Answered \cup {x} /\ InTime' \subseteq InTime \cup {x}
  <2>1. \/ judged' = judged \cup {x} /\ waived' = waived \ {x} /\ late' = late \ {x}
        \/ judged' = judged /\ waived' = waived \cup ({x} \ judged) /\ late' = late
    BY <1>1 DEF Judges, Judge
  <2>2. QED
    BY <1>2, <2>1 DEF Answered, InTime, Visible
<1>4. seen[r] \in Seq(Row) /\ Len(seen[r]) <= SeenSize /\ seen[r] # None
  BY <1>2, SeenType DEF Inv, Ready
<1>5. Range(seen[r]) \subseteq Answered
  BY <1>4 DEF Lossless, WindowAnswered
<1>6. seen'[r] = Remember(seen[r], x) /\ \A q \in Replica : q # r => seen'[q] = seen[q]
  BY <1>1 DEF Judges, Inv, TypeOK
<1>7. WindowAnswered(r)'
  BY <1>3, <1>4, <1>5, <1>6, RememberRange DEF WindowAnswered
<1>8. /\ tick'[r].pc = "eval" /\ tick'[r].top = tick[r].top
      /\ tick'[r].batch = {j \in tick[r].batch : j > x}
  BY <1>1, <1>2 DEF Judges, Inv, TypeOK, Tick
<1>9. \A q \in Replica : q # r => tick'[q] = tick[q]
  BY <1>1 DEF Judges, Inv, TypeOK
<1>10. ASSUME NEW i \in InTime, i <= tick[r].top PROVE i \in Answered' \cup tick'[r].batch
  <2>1. i \in Answered \cup tick[r].batch
    BY <1>2, <1>10 DEF Lossless, TickAnswers
  <2>2. \A j \in tick[r].batch : j < x => j \in Range(seen[r])
    BY <1>1 DEF Judges
  <2>3. i \in Nat /\ x \in Nat
    BY Ids DEF InTime, Visible
  <2>4. i < x \/ i = x \/ i > x
    BY <2>3
  <2>5. QED
    BY <1>3, <1>5, <1>8, <2>1, <2>2, <2>4
<1>11. TickAnswers(r)'
  BY <1>3, <1>8, <1>10 DEF TickAnswers
<1>12. ASSUME NEW q \in Replica, q # r PROVE WindowAnswered(q)' /\ TickAnswers(q)'
  <2>1. WindowAnswered(q) /\ TickAnswers(q) /\ tick'[q] = tick[q] /\ seen'[q] = seen[q]
    BY <1>6, <1>9, <1>12 DEF Lossless
  <2>2. QED
    BY <1>3, <2>1 DEF WindowAnswered, TickAnswers
<1>13. NoneLost'
  <2> SUFFICES ASSUME NEW i \in InTime', cursor # None, i <= Below(cursor, Window)
               PROVE  i \in Answered'
    BY <1>2 DEF NoneLost, InTime, Answered
  <2>1. i \in InTime => i \in Answered
    BY DEF Lossless, NoneLost, InTime, Answered
  <2>2. QED
    BY <1>3, <2>1
<1>14. QED
  BY <1>7, <1>11, <1>12, <1>13 DEF Lossless

\* The cursor moves to the end of a batch that has been answered, however far behind it
\* another replica has stored meanwhile.
LEMMA AdvanceLossless ==
    ASSUME Inv, Lossless, NEW r \in Replica, Advance(r)
    PROVE  Lossless'
<1> DEFINE next == IF tick[r].full
                   THEN [Idle EXCEPT !.pc = "scan", !.last = Moved(r), !.from = tick[r].top]
                   ELSE Idle
<1>1. /\ UNCHANGED <<rows, judged, waived, late, seen>> /\ tick[r].pc = "eval"
      /\ tick[r].batch \subseteq Range(seen[r])
      /\ cursor' = IF tick[r].top > tick[r].last THEN tick[r].top ELSE cursor
      /\ tick' = [tick EXCEPT ![r] = next]
  BY AdvanceIs
<1>2. Answered' = Answered /\ InTime' = InTime
  BY <1>1 DEF Answered, InTime, Visible
<1>3. ASSUME NEW i \in InTime, i <= tick[r].top PROVE i \in Answered
  <2>1. i \in Answered \cup tick[r].batch
    BY <1>1, <1>3 DEF Lossless, TickAnswers
  <2>2. Range(seen[r]) \subseteq Answered
    BY <1>1 DEF Lossless, WindowAnswered, Inv, Ready
  <2>3. QED
    BY <1>1, <2>1, <2>2
<1>4. NoneLost'
  <2>1. CASE cursor' = cursor
    BY <1>1, <2>1 DEF Lossless, NoneLost, Visible
  <2>2. CASE cursor' = tick[r].top
    <3> SUFFICES ASSUME NEW i \in InTime, i <= Below(tick[r].top, Window) PROVE i \in Answered
      BY <1>2, <2>2 DEF NoneLost, InTime, Answered
    <3>1. tick[r].top \in Nat /\ Window \in Nat /\ i \in Nat /\ i > 0
      BY Sizes, Ids DEF Inv, TypeOK, Tick, InTime, Visible
    <3>2. i <= tick[r].top
      BY <3>1 DEF Below
    <3>3. QED
      BY <1>3, <3>2
  <2>3. QED
    BY <1>1, <2>1, <2>2
<1>5. next.pc = "idle" \/ (next.pc = "scan" /\ next.from = tick[r].top)
  BY DEF Idle
<1> HIDE DEF next
<1>6. tick'[r] = next /\ \A q \in Replica : q # r => tick'[q] = tick[q]
  BY <1>1 DEF Inv, TypeOK
<1>7. TickAnswers(r)'
  BY <1>2, <1>3, <1>5, <1>6 DEF TickAnswers
<1>8. ASSUME NEW q \in Replica PROVE WindowAnswered(q)' /\ (q # r => TickAnswers(q)')
  <2>1. WindowAnswered(q) /\ TickAnswers(q)
    BY DEF Lossless
  <2>2. QED
    BY <1>1, <1>2, <1>6, <2>1 DEF WindowAnswered, TickAnswers
<1>9. QED
  BY <1>4, <1>7, <1>8 DEF Lossless

LEMMA LosslessStep == ASSUME Inv, Lossless, [Next]_vars PROVE Lossless'
<1>1. ASSUME NEW i \in Row, Insert(i) \/ Commit(i) \/ Delete(i) PROVE Lossless'
  BY <1>1, TableLossless
<1>2. ASSUME UNCHANGED <<rows, cursor, judged, waived, late, tick, seen>> PROVE Lossless'
  BY <1>2, NothingRead
<1>3. CASE Pause \/ Resume
  BY <1>2, <1>3 DEF Pause, Resume
<1>4. ASSUME NEW r \in Replica, Grant(r) \/ Withdraw(r) PROVE Lossless'
  BY <1>2, <1>4 DEF Grant, Withdraw
<1>5. ASSUME NEW r \in Replica, tick' = [tick EXCEPT ![r] = Idle],
             UNCHANGED <<rows, cursor, judged, waived, late>>,
             seen' = seen \/ seen' = [seen EXCEPT ![r] = None]
      PROVE  Lossless'
  <2>1. tick'[r].pc = "idle"
    BY <1>5 DEF Inv, TypeOK, Idle
  <2>2. \A q \in Replica : /\ tick'[q] = tick[q] \/ tick'[q].pc \notin {"scan", "eval"}
                           /\ seen'[q] = seen[q] \/ seen'[q] = None
    BY <1>5, <2>1 DEF Inv, TypeOK
  <2>3. QED
    BY <1>5, <2>2, NothingRead
<1>6. ASSUME NEW r \in Replica, Restart(r) PROVE Lossless'
  BY <1>5, <1>6 DEF Restart
<1>7. ASSUME NEW r \in Replica, Fail(r) PROVE Lossless'
  BY <1>5, <1>7 DEF Fail
<1>8. ASSUME NEW r \in Replica, StartTick(r) PROVE Lossless'
  <2>1. UNCHANGED <<rows, cursor, judged, waived, late, seen>>
    BY <1>8 DEF StartTick, RefreshCooldowns
  <2>2. tick' = tick \/ tick' = [tick EXCEPT ![r] = [Idle EXCEPT !.pc = "cursor"]]
    BY <1>8 DEF StartTick
  <2>3. \A q \in Replica : tick'[q] = tick[q] \/ tick'[q].pc = "cursor"
    BY <2>2 DEF Inv, TypeOK, Idle
  <2>4. QED
    BY <2>1, <2>3, NothingRead
<1>9. ASSUME NEW r \in Replica, StepOf(r) PROVE Lossless'
  <2>1. CASE StandBy(r)
    BY <1>2, <2>1 DEF StandBy
  <2>2. QED
    BY <1>8, <1>9, <2>1, ReadCursorLossless, ScanLossless, EvaluateLossless, AdvanceLossless
       DEF StepOf
<1>10. CASE UNCHANGED vars
  BY <1>2, <1>10 DEF vars
<1>11. QED
  BY <1>1, <1>3, <1>4, <1>6, <1>7, <1>9, <1>10 DEF Next

\* No row is lost that some tick could still meet when it was committed, for any number of
\* replicas and rows, whatever fails, dies or is withdrawn in the middle of a tick: the cursor
\* never leaves it more than the late window behind before it is evaluated, taken as done, or
\* passed by a process that could not load its rules (manager.py:290-307, 396, 429).
THEOREM NoRowLost == Spec => []NoneLost
<1>1. Init => Lossless
  BY LosslessInit
<1>2. Inv /\ Lossless /\ [Next]_vars => Lossless'
  BY LosslessStep
<1>3. Lossless => NoneLost
  BY DEF Lossless
<1>4. QED
  BY Invariance, <1>1, <1>2, <1>3, PTL DEF Spec

(***************************************************************************)
(* The late window.  As long as no statement fails and the lease is not     *)
(* lost in the middle of a tick, the cursor moves past every row that is    *)
(* evaluated before the next tick begins.  A row is then read again only    *)
(* while it is in the window behind the cursor, and until that ends only    *)
(* rows less than a window away from it, before or after, are added to      *)
(* _Seen.  So twice the window is room enough; the code has four times.     *)
(***************************************************************************)

Orderly == {"statement", "lease"} \cap Faults = {} /\ 2 * Window - 1 <= SeenSize

\* The rows r must not evaluate again.
Dealt(r) == {i \in Row : evals[r][i] > 0} \cup done[r]

\* The rows that have been visible.
Past == {i \in Row : rows[i] \in {"visible", "gone"}}

\* At most one replica is in a tick, and it holds the lease.
Single ==
    /\ \A a, b \in working : a = b
    /\ \A r \in Replica : tick[r].pc # "idle" => r \in working

\* A replica without a window has nothing to remember.
Unread ==
    \A r \in Replica :
        /\ seen[r] = None => Dealt(r) = {}
        /\ cursor = None => seen[r] = None

\* What is evaluated or about to be is a row that was visible.
Passed ==
    /\ judged \subseteq Past
    /\ \A r \in Replica : Dealt(r) \subseteq judged /\ tick[r].batch \subseteq Past

\* A tick works on the stored cursor and reads no further back than the window.
AtCursor(r) ==
    /\ tick[r].pc \in {"scan", "eval"} => tick[r].last = cursor
    /\ tick[r].pc = "scan" => tick[r].from >= Below(cursor, Window)
    /\ tick[r].pc = "eval" =>
          /\ tick[r].top > Below(cursor, Window)
          /\ \A j \in tick[r].batch : Below(cursor, Window) < j /\ j <= tick[r].top

\* A row dealt with is behind the cursor, or will be when the batch is done with.
Behind(r) ==
    \A i \in Dealt(r) \cap Visible :
        \/ i <= cursor
        \/ tick[r].pc = "eval" /\ i <= tick[r].top /\ \A j \in tick[r].batch : i < j

\* A row that the tick is about to meet again is held.
Again(r) ==
    tick[r].pc = "eval" =>
        \A i \in tick[r].batch \cap Dealt(r) : i <= cursor /\ HeldIn(seen[r], i)

\* The last row of the batch is there as long as any before it is.
TopSeen(r) ==
    tick[r].pc = "eval" =>
        \A i \in (Dealt(r) \cup tick[r].batch) \cap Visible :
            i <= tick[r].top => tick[r].top \in Visible

\* The next tick may read row i again.
Near(r, i) ==
    \/ cursor < i + Window /\ (tick[r].pc = "eval" => tick[r].top < i + Window)
    \/ \A v \in Visible : v < i + Window

\* Every row dealt with that may be read again is held.
Remembered(r) == \A i \in Dealt(r) \cap Visible : Near(r, i) => HeldIn(seen[r], i)

Sound(r) ==
    /\ AtCursor(r) /\ Behind(r) /\ Again(r) /\ TopSeen(r) /\ Remembered(r)
    /\ seen[r] # None => Distinct(seen[r])

Kept == Inv /\ strayed = {} /\ Single /\ Unread /\ Passed /\ \A r \in Replica : Sound(r)

LEMMA KeptInit == Init => Kept
<1> SUFFICES ASSUME Init PROVE Kept
  OBVIOUS
<1>1. \A r \in Replica : Dealt(r) = {}
  BY DEF Init, Dealt, Never
<1>2. \A r \in Replica : tick[r].pc = "idle" /\ tick[r].batch = {} /\ seen[r] = None
  BY DEF Init, Idle
<1>3. Single
  BY <1>2 DEF Init, Single
<1>4. Unread
  BY <1>1, <1>2 DEF Unread
<1>5. Passed
  BY <1>1, <1>2 DEF Init, Passed
<1>6. ASSUME NEW r \in Replica PROVE Sound(r)
  BY <1>1, <1>2 DEF Sound, AtCursor, Behind, Again, TopSeen, Remembered
<1>7. QED
  BY InvInit, <1>3, <1>4, <1>5, <1>6 DEF Kept, Init

LEMMA NoSuchFault == ASSUME Orderly PROVE ~Fault("statement") /\ ~Fault("lease")
BY DEF Orderly, Fault

\* Types of what the arguments are about.
LEMMA TickIs ==
    ASSUME Inv, NEW r \in Replica
    PROVE  /\ tick[r].top \in Nat /\ tick[r].last \in Nat /\ tick[r].from \in Nat
           /\ tick[r].batch \subseteq Row
           /\ tick[r].pc \in {"idle", "cursor", "scan", "eval"} /\ tick[r].full \in BOOLEAN
<1>1. tick[r] \in Tick
  BY DEF Inv, TypeOK
<1>2. QED
  BY <1>1, Sizes DEF Tick

LEMMA CursorIs ==
    ASSUME Inv, Unread, NEW r \in Replica, seen[r] # None
    PROVE  cursor \in Nat /\ Below(cursor, Window) \in Nat
<1>1. cursor \in Nat
  BY Sizes DEF Inv, TypeOK, Unread
<1>2. QED
  BY <1>1, Sizes DEF Below

LEMMA DealtIs ==
    ASSUME Inv, Unread, NEW r \in Replica, NEW i \in Dealt(r)
    PROVE  i \in Row /\ i \in Nat /\ i > 0 /\ seen[r] # None /\ cursor \in Nat
<1>1. i \in Row
  BY DEF Dealt, Inv, TypeOK
<1>2. seen[r] # None
  BY DEF Unread
<1>3. QED
  BY <1>1, <1>2, Ids, CursorIs

\* A step that leaves the replica, the cursor and the rows alone.
LEMMA Untouched ==
    ASSUME Kept, NEW q \in Replica,
           cursor' = cursor, rows' = rows, tick'[q] = tick[q], seen'[q] = seen[q],
           evals'[q] = evals[q], done'[q] = done[q]
    PROVE  Sound(q)'
<1>1. Dealt(q)' = Dealt(q) /\ Visible' = Visible
  BY DEF Dealt, Visible
<1>2. Sound(q)
  BY DEF Kept
<1>3. AtCursor(q)' /\ Behind(q)' /\ Again(q)' /\ TopSeen(q)'
  BY <1>1, <1>2 DEF Sound, AtCursor, Behind, Again, TopSeen
<1>4. \A i : Near(q, i)' <=> Near(q, i)
  BY <1>1 DEF Near
<1>5. Remembered(q)'
  BY <1>1, <1>2, <1>4 DEF Sound, Remembered
<1>6. QED
  BY <1>2, <1>3, <1>5 DEF Sound

\* A tick begins, or ends without a batch.
LEMMA BetweenBatches ==
    ASSUME Kept, NEW q \in Replica,
           cursor' = cursor, rows' = rows, seen'[q] = seen[q],
           evals'[q] = evals[q], done'[q] = done[q],
           tick[q].pc # "eval", tick'[q].pc \in {"idle", "cursor"}
    PROVE  Sound(q)'
<1>1. Dealt(q)' = Dealt(q) /\ Visible' = Visible
  BY DEF Dealt, Visible
<1>2. Sound(q)
  BY DEF Kept
<1>3. AtCursor(q)' /\ Behind(q)' /\ Again(q)' /\ TopSeen(q)'
  BY <1>1, <1>2 DEF Sound, AtCursor, Behind, Again, TopSeen
<1>4. \A i : Near(q, i)' => Near(q, i)
  BY <1>1 DEF Near
<1>5. Remembered(q)'
  BY <1>1, <1>2, <1>4 DEF Sound, Remembered
<1>6. QED
  BY <1>2, <1>3, <1>5 DEF Sound

\* The cursor is moved, by the tick of another replica: forward, or to the tail.
LEMMA MovedByAnother ==
    ASSUME Kept, NEW q \in Replica, rows' = rows, tick'[q] = tick[q], seen'[q] = seen[q],
           evals'[q] = evals[q], done'[q] = done[q], tick[q].pc = "idle",
           cursor' \in Nat, cursor' = TailOf \/ (cursor \in Nat => cursor <= cursor')
    PROVE  Sound(q)'
<1>1. Dealt(q)' = Dealt(q) /\ Visible' = Visible
  BY DEF Dealt, Visible
<1>2. Sound(q) /\ Inv /\ Unread
  BY DEF Kept
<1>3. AtCursor(q)' /\ Again(q)' /\ TopSeen(q)'
  BY DEF AtCursor, Again, TopSeen
<1>4. \A i \in Visible : i \in Nat /\ i <= TailOf
  BY TailIs, Ids DEF Visible
<1>5. Behind(q)'
  <2> SUFFICES ASSUME NEW i \in Dealt(q) \cap Visible PROVE i <= cursor'
    BY <1>1 DEF Behind
  <2>1. i <= cursor /\ cursor \in Nat
    BY <1>2, DealtIs DEF Sound, Behind
  <2>2. QED
    BY <1>4, <2>1
<1>6. ASSUME NEW i \in Dealt(q) \cap Visible, Near(q, i)' PROVE Near(q, i)
  <2>1. i \in Nat /\ cursor \in Nat /\ Window \in Nat
    BY <1>2, DealtIs, Sizes
  <2>2. cursor' < i + Window \/ \A v \in Visible : v < i + Window
    BY <1>1, <1>6 DEF Near
  <2>3. CASE cursor' = TailOf
    BY <1>4, <2>1, <2>2, <2>3 DEF Near
  <2>4. CASE cursor <= cursor'
    BY <2>1, <2>2, <2>4 DEF Near
  <2>5. QED
    BY <2>1, <2>3, <2>4
<1>7. Remembered(q)'
  BY <1>1, <1>2, <1>6 DEF Sound, Remembered
<1>8. QED
  BY <1>2, <1>3, <1>5, <1>7 DEF Sound

\* Rows are added, committed and deleted, the oldest first, while the replica rests.
LEMMA RowsOnly ==
    ASSUME Kept, NEW q \in Replica,
           UNCHANGED <<cursor, judged, tick, seen, evals, strayed, done>>,
           \A i \in Past : i \in Visible' => i \in Visible,
           \A v \in Visible \ Visible' : \A i \in Visible \cap Visible' : v < i
    PROVE  Sound(q)'
<1>1. Dealt(q)' = Dealt(q)
  BY DEF Dealt
<1>2. Sound(q) /\ Inv /\ Unread /\ Passed
  BY DEF Kept
<1>3. \A i \in Dealt(q) \cup tick[q].batch : i \in Visible' => i \in Visible
  BY <1>2 DEF Passed
<1>4. AtCursor(q)' /\ Again(q)'
  BY <1>1, <1>2 DEF Sound, AtCursor, Again
<1>5. Behind(q)'
  BY <1>1, <1>2, <1>3 DEF Sound, Behind
<1>6. \A v : v \in Visible => v \in Nat
  BY Ids DEF Visible
<1>7. TopSeen(q)'
  <2> SUFFICES ASSUME tick[q].pc = "eval",
                      NEW i \in (Dealt(q) \cup tick[q].batch) \cap Visible', i <= tick[q].top
               PROVE  tick[q].top \in Visible'
    BY <1>1 DEF TopSeen
  <2>1. i \in Visible /\ tick[q].top \in Visible
    BY <1>2, <1>3 DEF Sound, TopSeen
  <2>2. ~ (tick[q].top < i)
    BY <1>6, <2>1
  <2>3. QED
    BY <2>1, <2>2
<1>8. ASSUME NEW i \in Dealt(q) \cap Visible', Near(q, i)' PROVE Near(q, i)
  <2>1. i \in Nat /\ i \in Visible /\ Window \in Nat
    BY <1>2, <1>3, DealtIs, Sizes
  <2>2. CASE cursor < i + Window /\ (tick[q].pc = "eval" => tick[q].top < i + Window)
    BY <2>2 DEF Near
  <2>3. CASE \A v \in Visible' : v < i + Window
    <3>1. ASSUME NEW v \in Visible, v \notin Visible' PROVE v < i + Window
      BY <1>6, <2>1, <3>1
    <3>2. \A v \in Visible : v < i + Window
      BY <2>3, <3>1
    <3>3. QED
      BY <3>2 DEF Near
  <2>4. QED
    BY <1>8, <2>2, <2>3 DEF Near
<1>9. Remembered(q)'
  <2> SUFFICES ASSUME NEW i \in Dealt(q) \cap Visible', Near(q, i)' PROVE HeldIn(seen[q], i)
    BY <1>1 DEF Remembered
  <2>1. i \in Dealt(q) \cap Visible /\ Near(q, i)
    BY <1>3, <1>8
  <2>2. QED
    BY <1>2, <2>1 DEF Sound, Remembered
<1>10. QED
  BY <1>2, <1>4, <1>5, <1>7, <1>9 DEF Sound

LEMMA TableKept ==
    ASSUME Kept, NEW k \in Row, Insert(k) \/ Commit(k) \/ Delete(k)
    PROVE  Single' /\ Unread' /\ Passed' /\ \A r \in Replica : Sound(r)'
<1>1. UNCHANGED <<working, cursor, tick, seen, evals, strayed, done, judged>>
  BY DEF Insert, Commit, Delete
<1>2. Inv /\ Single /\ Unread /\ Passed
  BY DEF Kept
<1>3. rows \in [Row -> {"free", "open", "visible", "gone"}]
  BY <1>2 DEF Inv, TypeOK
<1>4. /\ Past \subseteq Past' /\ \A i \in Past : i \in Visible' => i \in Visible
      /\ \A v \in Visible \ Visible' : \A i \in Visible \cap Visible' : v < i
  <2>1. CASE Insert(k) \/ Commit(k)
    BY <1>3, <2>1 DEF Insert, Commit, Appear, Past, Visible
  <2>2. CASE Delete(k)
    <3>1. rows' = [j \in Row |-> IF j <= k /\ rows[j] = "visible" THEN "gone" ELSE rows[j]]
      BY <2>2 DEF Delete
    <3>2. Past \subseteq Past' /\ \A i \in Past : i \in Visible' => i \in Visible
      BY <1>3, <3>1 DEF Past, Visible
    <3>3. ASSUME NEW v \in Visible \ Visible', NEW i \in Visible \cap Visible' PROVE v < i
      <4>1. v <= k /\ ~ (i <= k)
        BY <3>1, <3>3 DEF Visible
      <4>2. v \in Nat /\ i \in Nat /\ k \in Nat
        BY Ids DEF Visible
      <4>3. QED
        BY <4>1, <4>2
    <3>4. QED
      BY <3>2, <3>3
  <2>3. QED
    BY <2>1, <2>2
<1>5. \A r \in Replica : Dealt(r)' = Dealt(r)
  BY <1>1 DEF Dealt
<1>6. Single' /\ Unread' /\ Passed'
  BY <1>1, <1>2, <1>4, <1>5 DEF Single, Unread, Passed
<1>7. \A r \in Replica : Sound(r)'
  BY <1>1, <1>4, RowsOnly
<1>8. QED
  BY <1>6, <1>7

\* The operator, the lease, a replica that stands by.
LEMMA ElsewhereKept ==
    ASSUME Kept, UNCHANGED <<rows, cursor, tick, seen, evals, strayed, done, judged>>, Single'
    PROVE  Unread' /\ Passed' /\ \A r \in Replica : Sound(r)'
<1>1. \A r \in Replica : Dealt(r)' = Dealt(r)
  BY DEF Dealt
<1>2. Past' = Past
  BY DEF Past
<1>3. Unread' /\ Passed'
  BY <1>1, <1>2 DEF Kept, Unread, Passed
<1>4. QED
  BY <1>3, Untouched

LEMMA LeaseKept ==
    ASSUME Kept, Orderly, NEW r \in Replica, Grant(r) \/ Withdraw(r)
    PROVE  Single'
<1>1. Inv /\ Single /\ tick' = tick
  BY DEF Kept, Grant, Withdraw
<1>2. CASE Grant(r)
  <2>1. working = {} /\ working' = {r}
    BY <1>2 DEF Grant, Lead!Grant
  <2>2. QED
    BY <1>1, <2>1 DEF Single
<1>3. CASE Withdraw(r)
  <2>1. tick[r] = Idle
    BY <1>3, NoSuchFault DEF Withdraw
  <2>2. working' = working \ {r}
    BY <1>3 DEF Withdraw, Lead!Withdraw
  <2>3. QED
    BY <1>1, <2>1, <2>2 DEF Single, Idle
<1>4. QED
  BY <1>2, <1>3

LEMMA TurnKept ==
    ASSUME Kept, NEW r \in Replica, StartTick(r)
    PROVE  Single' /\ Unread' /\ Passed' /\ \A q \in Replica : Sound(q)'
<1>1. Inv /\ Single /\ Unread /\ Passed
  BY DEF Kept
<1>2. UNCHANGED <<working, rows, cursor, seen, evals, strayed, done, judged>> /\ r \in working
  BY DEF StartTick
<1>3. tick[r] = Idle
  BY DEF StartTick
<1>4. \A q \in Replica : \/ tick'[q] = tick[q]
                         \/ q = r /\ tick'[q] = [Idle EXCEPT !.pc = "cursor"]
  BY <1>1 DEF StartTick, Inv, TypeOK
<1>5. \A q \in Replica : Dealt(q)' = Dealt(q)
  BY <1>2 DEF Dealt
<1>6. Past' = Past
  BY <1>2 DEF Past
<1>7. Single'
  BY <1>1, <1>2, <1>4 DEF Single
<1>8. Unread'
  BY <1>1, <1>2, <1>5 DEF Unread
<1>9. Passed'
  <2>1. \A q \in Replica : tick'[q].batch \subseteq Past
    BY <1>1, <1>3, <1>4 DEF Passed, Idle
  <2>2. QED
    BY <1>1, <1>2, <1>5, <1>6, <2>1 DEF Passed
<1>10. ASSUME NEW q \in Replica PROVE Sound(q)'
  <2>1. CASE tick'[q] = tick[q]
    BY <1>2, <2>1, Untouched
  <2>2. CASE q = r /\ tick'[q] = [Idle EXCEPT !.pc = "cursor"]
    <3>1. tick[q].pc # "eval" /\ tick'[q].pc = "cursor"
      BY <1>3, <2>2 DEF Idle
    <3>2. QED
      BY <1>2, <3>1, BetweenBatches
  <2>3. QED
    BY <1>4, <2>1, <2>2
<1>11. QED
  BY <1>7, <1>8, <1>9, <1>10

LEMMA RestartKept ==
    ASSUME Kept, NEW r \in Replica, Restart(r)
    PROVE  Single' /\ Unread' /\ Passed' /\ \A q \in Replica : Sound(q)'
<1>1. Inv /\ Single /\ Unread /\ Passed
  BY DEF Kept
<1>2. UNCHANGED <<rows, cursor, judged>> /\ working' = working \ {r}
  BY DEF Restart
<1>3. tick'[r] = Idle /\ seen'[r] = None /\ evals'[r] = Never /\ done'[r] = {}
  BY <1>1 DEF Restart, Inv, TypeOK
<1>4. \A q \in Replica : q # r => /\ tick'[q] = tick[q] /\ seen'[q] = seen[q]
                                  /\ evals'[q] = evals[q] /\ done'[q] = done[q]
  BY <1>1 DEF Restart, Inv, TypeOK
<1>5. Dealt(r)' = {}
  BY <1>3 DEF Dealt, Never
<1>6. \A q \in Replica : q # r => Dealt(q)' = Dealt(q)
  BY <1>4 DEF Dealt
<1>7. Past' = Past
  BY <1>2 DEF Past
<1>8. Single'
  BY <1>1, <1>2, <1>3, <1>4 DEF Single, Idle
<1>9. Unread'
  BY <1>1, <1>2, <1>3, <1>4, <1>5, <1>6 DEF Unread
<1>10. Passed'
  <2>1. \A q \in Replica : Dealt(q)' \subseteq judged
    BY <1>1, <1>5, <1>6 DEF Passed
  <2>2. \A q \in Replica : tick'[q].batch \subseteq Past
    BY <1>1, <1>3, <1>4 DEF Passed, Idle
  <2>3. QED
    BY <1>1, <1>2, <1>7, <2>1, <2>2 DEF Passed
<1>11. ASSUME NEW q \in Replica PROVE Sound(q)'
  <2>1. CASE q # r
    BY <1>2, <1>4, <2>1, Untouched
  <2>2. CASE q = r
    <3>1. AtCursor(r)' /\ Behind(r)' /\ Again(r)' /\ TopSeen(r)' /\ Remembered(r)'
      BY <1>3, <1>5 DEF AtCursor, Behind, Again, TopSeen, Remembered, Idle
    <3>2. QED
      BY <1>3, <2>2, <3>1 DEF Sound
  <2>3. QED
    BY <2>1, <2>2
<1>12. QED
  BY <1>8, <1>9, <1>10, <1>11

\* A batch is read: what it meets again lies in the window, and is held.
LEMMA ScanSound ==
    ASSUME Kept, NEW r \in Replica, Scan(r), QuerySince(tick[r].from) # {}
    PROVE  Sound(r)' /\ tick'[r].batch \subseteq Visible
<1> DEFINE found == QuerySince(tick[r].from)
           top == Max(found)
<1>1. Inv /\ Unread /\ Sound(r) /\ tick[r].pc = "scan" /\ seen[r] # None
  BY DEF Kept, Scan, Inv, Ready
<1>2. UNCHANGED <<rows, cursor, seen, evals, strayed, done>>
  BY DEF Scan
<1>3. cursor \in Nat /\ Below(cursor, Window) \in Nat /\ Window \in Nat
  BY <1>1, CursorIs, Sizes
<1>4. /\ tick'[r].pc = "eval" /\ tick'[r].last = tick[r].last
      /\ tick'[r].batch = found /\ tick'[r].top = top
  <2>1. tick[r] \in Tick
    BY <1>1 DEF Inv, TypeOK
  <2>2. tick'[r] = [tick[r] EXCEPT !.pc = "eval", !.from = 0, !.batch = found, !.top = top,
                                   !.full = Cardinality(found) = Batch]
    BY <1>1 DEF Scan, Inv, TypeOK
  <2> HIDE DEF found, top
  <2>3. QED
    BY <2>1, <2>2 DEF Tick
<1>5. found \in SUBSET Row /\ found \subseteq Visible /\ \A j \in found : j > tick[r].from
  BY QuerySinceIs DEF Visible
<1>6. top \in found /\ \A j \in found : j <= top
  BY <1>5, MaxIs
<1> HIDE DEF found, top
<1>7. \A j \in found : j \in Nat /\ Below(cursor, Window) < j
  <2>1. tick[r].from >= Below(cursor, Window) /\ tick[r].from \in Nat
    BY <1>1, TickIs DEF Sound, AtCursor
  <2>2. QED
    BY <1>3, <1>5, <2>1, Ids
<1>8. Dealt(r)' = Dealt(r) /\ Visible' = Visible
  BY <1>2 DEF Dealt, Visible
<1>9. AtCursor(r)'
  <2>1. tick'[r].last = cursor
    BY <1>1, <1>4 DEF Sound, AtCursor
  <2>2. QED
    BY <1>2, <1>4, <1>6, <1>7, <2>1 DEF AtCursor
<1>10. \A i \in Dealt(r) \cap Visible : i <= cursor
  BY <1>1 DEF Sound, Behind
<1>11. Behind(r)'
  BY <1>2, <1>8, <1>10 DEF Behind
<1>12. Again(r)'
  <2> SUFFICES ASSUME NEW i \in found \cap Dealt(r) PROVE i <= cursor /\ HeldIn(seen[r], i)
    BY <1>2, <1>4, <1>8 DEF Again
  <2>1. i \in Visible /\ i \in Nat /\ Below(cursor, Window) < i
    BY <1>5, <1>7
  <2>2. cursor < i + Window
    BY <1>3, <2>1 DEF Below
  <2>3. Near(r, i)
    BY <1>1, <2>2 DEF Near
  <2>4. QED
    BY <1>1, <1>10, <2>1, <2>3 DEF Sound, Remembered
<1>13. TopSeen(r)'
  BY <1>4, <1>5, <1>6, <1>8 DEF TopSeen
<1>14. \A i : Near(r, i)' => Near(r, i)
  BY <1>1, <1>2, <1>8 DEF Near
<1>15. Remembered(r)'
  BY <1>1, <1>2, <1>8, <1>14 DEF Sound, Remembered
<1>16. QED
  BY <1>1, <1>2, <1>4, <1>5, <1>9, <1>11, <1>12, <1>13, <1>15 DEF Sound

LEMMA ScanKept ==
    ASSUME Kept, NEW r \in Replica, Scan(r)
    PROVE  Single' /\ Unread' /\ Passed' /\ \A q \in Replica : Sound(q)'
<1>1. Inv /\ Single /\ Unread /\ Passed
  BY DEF Kept
<1>2. UNCHANGED <<working, rows, cursor, seen, evals, strayed, done, judged>> /\ tick[r].pc = "scan"
  BY DEF Scan
<1>3. \A q \in Replica : q # r => tick'[q] = tick[q]
  BY <1>1 DEF Scan, Inv, TypeOK
<1>4. QuerySince(tick[r].from) = {} => tick'[r] = Idle
  BY <1>1 DEF Scan, Inv, TypeOK
<1>5. \A q \in Replica : Dealt(q)' = Dealt(q)
  BY <1>2 DEF Dealt
<1>6. Past' = Past
  BY <1>2 DEF Past
<1>7. Single'
  BY <1>1, <1>2, <1>3 DEF Single
<1>8. Unread'
  BY <1>1, <1>2, <1>5 DEF Unread
<1>9. Passed'
  <2>1. tick'[r].batch \subseteq Past
    <3>1. CASE QuerySince(tick[r].from) = {}
      BY <1>4, <3>1 DEF Idle
    <3>2. CASE QuerySince(tick[r].from) # {}
      BY <3>2, ScanSound DEF Past, Visible
    <3>3. QED
      BY <3>1, <3>2
  <2>2. QED
    BY <1>1, <1>2, <1>3, <1>5, <1>6, <2>1 DEF Passed
<1>10. ASSUME NEW q \in Replica PROVE Sound(q)'
  <2>1. CASE q # r
    BY <1>2, <1>3, <2>1, Untouched
  <2>2. CASE q = r /\ QuerySince(tick[r].from) # {}
    BY <2>2, ScanSound
  <2>3. CASE q = r /\ QuerySince(tick[r].from) = {}
    <3>1. tick[q].pc # "eval" /\ tick'[q].pc = "idle"
      BY <1>2, <1>4, <2>3 DEF Idle
    <3>2. QED
      BY <1>2, <3>1, BetweenBatches
  <2>4. QED
    BY <2>1, <2>2, <2>3
<1>11. QED
  BY <1>7, <1>8, <1>9, <1>10

\* Where a tick begins is behind the last visible row.
LEMMA StartIs ==
    ASSUME Inv
    PROVE  /\ Start \in Nat /\ Start \in 0 .. MaxRow /\ Start <= TailOf /\ TailOf \in Nat
           /\ Below(Start, Window) \in Nat
           /\ \A i \in Nat : i > Below(Start, Window) <=> i > 0 /\ Start < i + Window
<1>1. Start \in 0 .. MaxRow /\ Start \in Nat /\ TailOf \in Nat
  BY StartType, TailIs, Sizes DEF Inv
<1>2. Start <= TailOf
  <2>1. cursor \in Nat \/ cursor = None
    BY Sizes DEF Inv, TypeOK
  <2>2. CASE Reseeds
    BY <1>1, <2>2 DEF Start
  <2>3. CASE ~Reseeds
    <3>1. cursor # None /\ ~ (cursor > TailOf)
      BY <2>3 DEF Reseeds
    <3>2. QED
      BY <1>1, <2>1, <2>3, <3>1 DEF Start
  <2>4. QED
    BY <2>2, <2>3
<1>3. QED
  BY <1>1, <1>2, Sizes DEF Below

\* The window is read: it holds all that the next batches may meet again.
LEMMA WindowHolds ==
    ASSUME Inv, NEW i \in Visible, i <= Start, Start < i + Window
    PROVE  HeldIn(LateWindow(Start), i)
<1> DEFINE s == LateWindow(Start)
<1>1. Range(s) = InWindow(Start)
  BY StartIs, LateWindowIs
<1>2. i \in Nat /\ i > 0 /\ Window \in Nat
  BY Ids, Sizes DEF Visible
<1>3. i \in Range(s)
  BY <1>1, <1>2, StartIs DEF InWindow
<1> HIDE DEF s
<1>4. ASSUME NEW k \in DOMAIN s PROVE i - Window < s[k] /\ s[k] < i + Window
  <2>1. s[k] \in InWindow(Start)
    BY <1>1 DEF Range
  <2>2. s[k] \in Nat /\ s[k] <= Start /\ s[k] > Below(Start, Window)
    BY <2>1, Ids DEF InWindow, Visible
  <2>3. Start < s[k] + Window
    BY <2>2, StartIs
  <2>4. QED
    BY <1>2, <2>2, <2>3, StartIs
<1>5. QED
  BY <1>3, <1>4 DEF HeldIn, s

LEMMA ReadsIs ==
    ASSUME Inv, NEW r \in Replica, ReadCursor(r)
    PROVE  /\ tick'[r].pc = "scan" /\ tick'[r].last = Start
           /\ tick'[r].from = Below(Start, Window) /\ tick'[r].batch = tick[r].batch
           /\ \A q \in Replica : q # r => tick'[q] = tick[q]
<1> DEFINE next == [tick[r] EXCEPT !.pc = "scan", !.last = Start, !.from = LookBack(Start)]
<1>0. tick \in [Replica -> Tick]
  BY DEF Inv, TypeOK
<1>1. tick' = [tick EXCEPT ![r] = next]
  BY ReadCursorIs
<1>2. tick[r] \in Tick
  BY <1>0
<1>3. /\ next.pc = "scan" /\ next.last = Start /\ next.from = LookBack(Start)
      /\ next.batch = tick[r].batch
  BY <1>2 DEF Tick
<1> HIDE DEF next
<1>4. QED
  BY <1>0, <1>1, <1>3 DEF LookBack

\* The window in memory is kept.
LEMMA KeptWindowSound ==
    ASSUME Kept, NEW r \in Replica, ReadCursor(r), ~Reseeds, UNCHANGED <<seen, evals, strayed,
                                                                         done>>
    PROVE  Sound(r)'
<1>1. Inv /\ Sound(r) /\ tick[r].pc = "cursor" /\ rows' = rows
  BY ReadCursorIs DEF Kept
<1>2. cursor' = cursor
  BY ReadCursorIs DEF Start
<1>3. Dealt(r)' = Dealt(r) /\ Visible' = Visible
  BY <1>1 DEF Dealt, Visible
<1>4. tick'[r].pc = "scan" /\ tick'[r].last = cursor /\ tick'[r].from = Below(cursor, Window)
  BY <1>1, ReadsIs DEF Start
<1>5. AtCursor(r)'
  <2>1. Below(cursor, Window) \in Nat
    BY <1>1, StartIs DEF Start
  <2>2. QED
    BY <1>2, <1>4, <2>1 DEF AtCursor
<1>6. Behind(r)'
  BY <1>1, <1>2, <1>3, <1>4 DEF Sound, Behind
<1>7. Again(r)' /\ TopSeen(r)'
  BY <1>4 DEF Again, TopSeen
<1>8. \A i : Near(r, i)' => Near(r, i)
  BY <1>1, <1>2, <1>3, <1>4 DEF Near
<1>9. Remembered(r)'
  BY <1>1, <1>3, <1>8 DEF Sound, Remembered
<1>10. QED
  BY <1>1, <1>5, <1>6, <1>7, <1>9 DEF Sound

\* The window is read from the table.
LEMMA NewWindowSound ==
    ASSUME Kept, NEW r \in Replica, ReadCursor(r), Reseeds \/ seen[r] = None,
           seen' = [seen EXCEPT ![r] = LateWindow(Start)],
           done' = [done EXCEPT ![r] = {i \in judged : i <= Start}],
           evals' = evals
    PROVE  /\ Sound(r)' /\ Dealt(r)' \subseteq judged /\ seen'[r] # None
           /\ \A q \in Replica : q # r => seen'[q] = seen[q] /\ Dealt(q)' = Dealt(q)
<1>1. Inv /\ Unread /\ Passed /\ rows' = rows /\ cursor' = Start
  BY ReadCursorIs DEF Kept
<1>2. seen'[r] = LateWindow(Start) /\ done'[r] = {i \in judged : i <= Start}
  BY <1>1 DEF Inv, TypeOK
<1>3. \A q \in Replica : q # r => seen'[q] = seen[q] /\ Dealt(q)' = Dealt(q)
  BY <1>1 DEF Inv, TypeOK, Dealt
<1>4. LateWindow(Start) \in Seq(Row) /\ Distinct(LateWindow(Start))
  BY <1>1, StartIs, LateWindowIs
<1>5. seen'[r] # None
  BY <1>2, <1>4, NoneApart
<1>6. \A i \in Dealt(r)' : i \in Dealt(r) \/ (i \in judged /\ i <= Start)
  BY <1>2 DEF Dealt
<1>7. Dealt(r)' \subseteq judged
  BY <1>1, <1>6 DEF Passed
<1>8. Visible' = Visible
  BY <1>1 DEF Visible
<1>9. ASSUME NEW i \in Dealt(r)' \cap Visible PROVE i <= Start
  <2>1. CASE i \in judged /\ i <= Start
    BY <2>1
  <2>2. CASE i \in Dealt(r)
    <3>1. Start = TailOf
      BY <1>1, <2>2 DEF Unread, Start
    <3>2. QED
      BY <3>1, TailIs
  <2>3. QED
    BY <1>6, <2>1, <2>2
<1>10. tick'[r].pc = "scan" /\ tick'[r].last = Start /\ tick'[r].from = Below(Start, Window)
  BY <1>1, ReadsIs
<1>11. AtCursor(r)'
  BY <1>1, <1>10, StartIs DEF AtCursor
<1>12. Behind(r)' /\ Again(r)' /\ TopSeen(r)'
  BY <1>1, <1>8, <1>9, <1>10 DEF Behind, Again, TopSeen
<1>13. Remembered(r)'
  <2> SUFFICES ASSUME NEW i \in Dealt(r)' \cap Visible, Near(r, i)'
               PROVE  HeldIn(LateWindow(Start), i)
    BY <1>2, <1>8 DEF Remembered
  <2>1. i \in Nat /\ Window \in Nat /\ TailOf \in Visible
    BY Ids, Sizes, TailIs DEF Visible
  <2>2. Start < i + Window \/ TailOf < i + Window
    BY <1>1, <1>8, <2>1 DEF Near
  <2>3. Start < i + Window
    BY <1>1, <2>1, <2>2, StartIs
  <2>4. QED
    BY <1>1, <1>9, <2>3, WindowHolds
<1>14. QED
  BY <1>2, <1>3, <1>4, <1>5, <1>7, <1>11, <1>12, <1>13 DEF Sound

LEMMA ReadCursorKept ==
    ASSUME Kept, Orderly, NEW r \in Replica, ReadCursor(r)
    PROVE  Single' /\ Unread' /\ Passed' /\ \A q \in Replica : Sound(q)'
<1>1. Inv /\ Single /\ Unread /\ Passed
  BY DEF Kept
<1>2. UNCHANGED <<working, rows, judged>> /\ tick[r].pc = "cursor" /\ cursor' = Start
  BY ReadCursorIs
<1>3. \/ /\ ~Reseeds /\ seen[r] # None /\ UNCHANGED <<seen, evals, strayed, done>>
      \/ /\ Reseeds \/ seen[r] = None
         /\ seen' = [seen EXCEPT ![r] = LateWindow(Start)]
         /\ done' = [done EXCEPT ![r] = {i \in judged : i <= Start}]
         /\ evals' = evals
  BY ReadCursorIs, NoSuchFault
<1>4. /\ Dealt(r)' \subseteq judged /\ seen'[r] # None /\ Sound(r)'
      /\ \A q \in Replica : q # r => seen'[q] = seen[q] /\ Dealt(q)' = Dealt(q)
  <2>1. CASE ~Reseeds /\ seen[r] # None /\ UNCHANGED <<seen, evals, strayed, done>>
    <3>1. \A q \in Replica : Dealt(q)' = Dealt(q)
      BY <2>1 DEF Dealt
    <3>2. QED
      BY <1>1, <2>1, <3>1, KeptWindowSound DEF Passed
  <2>2. CASE /\ Reseeds \/ seen[r] = None
             /\ seen' = [seen EXCEPT ![r] = LateWindow(Start)]
             /\ done' = [done EXCEPT ![r] = {i \in judged : i <= Start}]
             /\ evals' = evals
    BY <2>2, NewWindowSound
  <2>3. QED
    BY <1>3, <2>1, <2>2
<1>5. cursor' \in Nat /\ cursor' # None
  BY <1>1, <1>2, StartIs, NoneApart
<1>6. tick'[r].batch = tick[r].batch /\ \A q \in Replica : q # r => tick'[q] = tick[q]
  BY <1>1, ReadsIs
<1>7. \A q \in Replica : q # r => tick[q].pc = "idle"
  BY <1>1, <1>2, TickIs DEF Single
<1>8. Single'
  BY <1>1, <1>2, <1>6 DEF Single
<1>9. Unread'
  BY <1>1, <1>4, <1>5 DEF Unread
<1>10. Passed'
  <2>1. Past' = Past
    BY <1>2 DEF Past
  <2>2. QED
    BY <1>1, <1>2, <1>4, <1>6, <2>1 DEF Passed
<1>11. ASSUME NEW q \in Replica PROVE Sound(q)'
  <2>1. CASE q = r
    BY <1>4, <2>1
  <2>2. CASE q # r
    <3>1. cursor' = TailOf \/ (cursor \in Nat => cursor <= cursor')
      BY <1>2 DEF Start
    <3>2. evals'[q] = evals[q] /\ done'[q] = done[q]
      BY <1>1, <1>3, <2>2 DEF Inv, TypeOK
    <3>3. QED
      BY <1>2, <1>4, <1>5, <1>6, <1>7, <2>2, <3>1, <3>2, MovedByAnother
  <2>3. QED
    BY <2>1, <2>2
<1>12. QED
  BY <1>8, <1>9, <1>10, <1>11

\* The rules can be read when no statement fails, and the row is counted.
LEMMA JudgesGood ==
    ASSUME Orderly, strayed = {}, NEW r \in Replica, NEW x \in Row, Judges(r, x)
    PROVE  judged' = judged \cup {x} /\ evals' = [evals EXCEPT ![r][x] = @ + 1]
<1>1. ~(~ruled[r] /\ Fault("statement"))
  BY NoSuchFault
<1>2. QED
  BY <1>1 DEF Judges, Judge

\* Evaluating a row: what it changes for its replica, and for the others nothing.
LEMMA JudgesIs ==
    ASSUME Inv, Orderly, strayed = {}, NEW r \in Replica, NEW x \in Row, Judges(r, x)
    PROVE  /\ tick[r].pc = "eval" /\ tick'[r].pc = "eval" /\ tick'[r].last = tick[r].last
           /\ tick'[r].top = tick[r].top /\ tick'[r].batch = {j \in tick[r].batch : j > x}
           /\ seen'[r] = Remember(seen[r], x)
           /\ Dealt(r)' = Dealt(r) \cup {x} /\ judged' = judged \cup {x}
           /\ \A q \in Replica : q # r => /\ tick'[q] = tick[q] /\ seen'[q] = seen[q]
                                          /\ evals'[q] = evals[q] /\ Dealt(q)' = Dealt(q)
           /\ UNCHANGED <<working, rows, cursor, done>>
<1> DEFINE next == [tick[r] EXCEPT !.batch = {j \in @ : j > x}]
<1>1. UNCHANGED <<working, rows, cursor, done>> /\ judged' = judged \cup {x} /\ tick[r].pc = "eval"
  BY JudgesGood DEF Judges
<1>2. tick' = [tick EXCEPT ![r] = next] /\ tick[r] \in Tick /\ tick \in [Replica -> Tick]
  BY DEF Judges, Inv, TypeOK
<1>3. /\ next.pc = tick[r].pc /\ next.last = tick[r].last /\ next.top = tick[r].top
      /\ next.batch = {j \in tick[r].batch : j > x}
  BY <1>2 DEF Tick
<1> HIDE DEF next
<1>4. tick'[r] = next /\ \A q \in Replica : q # r => tick'[q] = tick[q]
  BY <1>2
<1>5. /\ seen'[r] = Remember(seen[r], x)
      /\ \A q \in Replica : q # r => seen'[q] = seen[q]
  BY DEF Judges, Inv, TypeOK
<1>6. evals \in [Replica -> [Row -> Nat]] /\ evals' = [evals EXCEPT ![r][x] = @ + 1]
  BY JudgesGood DEF Inv, TypeOK
<1>7. /\ evals'[r][x] = evals[r][x] + 1 /\ evals[r][x] \in Nat
      /\ \A i \in Row : i # x => evals'[r][i] = evals[r][i]
      /\ \A q \in Replica : q # r => evals'[q] = evals[q]
  BY <1>6
<1>8. Dealt(r)' = Dealt(r) \cup {x}
  <2>1. evals'[r][x] > 0
    BY <1>7
  <2>2. done'[r] = done[r]
    BY <1>1
  <2>3. QED
    BY <1>7, <2>1, <2>2 DEF Dealt
<1>9. \A q \in Replica : q # r => Dealt(q)' = Dealt(q)
  BY <1>1, <1>7 DEF Dealt
<1>10. QED
  BY <1>1, <1>3, <1>4, <1>5, <1>7, <1>8, <1>9

\* The row evaluated was not dealt with, and adding it leaves the others held.
LEMMA JudgesNew ==
    ASSUME Kept, NEW r \in Replica, NEW x \in Row, Judges(r, x)
    PROVE  x \notin Dealt(r)
<1>1. tick[r].pc = "eval" /\ x \in tick[r].batch /\ x \notin Range(seen[r]) /\ Again(r)
  BY DEF Judges, Kept, Sound
<1>2. QED
  BY <1>1 DEF Again, HeldIn

LEMMA JudgesNear ==
    ASSUME Kept, NEW r \in Replica, NEW x \in Row, Judges(r, x), NEW i \in Dealt(r),
           \/ i \in tick[r].batch /\ x < i
           \/ i \in Visible /\ Near(r, i)
    PROVE  i - Window < x /\ x < i + Window
<1>1. Inv /\ Unread /\ Sound(r) /\ tick[r].pc = "eval" /\ x \in tick[r].batch /\ x # i
  BY JudgesNew DEF Kept, Judges
<1>2. i \in Nat /\ x \in Nat /\ cursor \in Nat /\ Window \in Nat /\ tick[r].top \in Nat
  BY <1>1, DealtIs, Ids, Sizes, TickIs
<1>3. Below(cursor, Window) < x /\ x <= tick[r].top
  BY <1>1 DEF Sound, AtCursor
<1>4. cursor < x + Window
  BY <1>2, <1>3 DEF Below
<1>5. CASE i \in tick[r].batch /\ x < i
  <2>1. i <= cursor
    BY <1>1, <1>5 DEF Sound, Again
  <2>2. QED
    BY <1>2, <1>4, <1>5, <2>1
<1>6. CASE i \in Visible /\ Near(r, i)
  <2>1. i <= cursor \/ i < x
    BY <1>1, <1>6 DEF Sound, Behind
  <2>2. i - Window < x
    BY <1>2, <1>4, <1>6, <2>1
  <2>3. CASE x < i
    BY <1>2, <2>2, <2>3
  <2>4. CASE i < x
    <3>1. tick[r].top \in Visible
      BY <1>1, <1>2, <1>3, <1>6, <2>4 DEF Sound, TopSeen
    <3>2. tick[r].top < i + Window
      BY <1>1, <1>6, <3>1 DEF Near
    <3>3. QED
      BY <1>2, <1>3, <2>2, <3>2
  <2>5. QED
    BY <1>1, <1>2, <2>3, <2>4
<1>7. QED
  BY <1>5, <1>6

LEMMA EvaluateSound ==
    ASSUME Kept, Orderly, NEW r \in Replica, NEW x \in Row, Judges(r, x)
    PROVE  Sound(r)'
<1>1. Inv /\ strayed = {} /\ Unread /\ Sound(r) /\ tick[r].pc = "eval" /\ x \in tick[r].batch
  BY DEF Kept, Judges
<1>2. /\ tick'[r].pc = "eval" /\ tick'[r].last = tick[r].last
      /\ tick'[r].top = tick[r].top /\ tick'[r].batch = {j \in tick[r].batch : j > x}
      /\ seen'[r] = Remember(seen[r], x) /\ Dealt(r)' = Dealt(r) \cup {x}
      /\ rows' = rows /\ cursor' = cursor
  BY <1>1, JudgesIs
<1>3. /\ seen[r] \in Seq(Row) /\ Len(seen[r]) <= SeenSize /\ seen[r] # None
      /\ Distinct(seen[r]) /\ x \notin Range(seen[r])
  <2>1. seen[r] \in Seq(Row) /\ Len(seen[r]) <= SeenSize
    BY <1>1, SeenType
  <2>2. QED
    BY <1>1, <2>1, NoneApart DEF Sound, Judges
<1>4. Visible' = Visible /\ x \notin Dealt(r) /\ 2 * Window - 1 <= SeenSize
  BY <1>2, JudgesNew DEF Visible, Orderly
<1>5. ASSUME NEW i \in Dealt(r), HeldIn(seen[r], i),
             (i \in tick[r].batch /\ x < i) \/ (i \in Visible /\ Near(r, i))
      PROVE  HeldIn(Remember(seen[r], x), i)
  <2>1. i \in Row
    BY <1>1, DealtIs
  <2>2. i - Window < x /\ x < i + Window
    BY <1>5, JudgesNear
  <2>3. QED
    BY <1>3, <1>4, <1>5, <2>1, <2>2, RememberKeeps
<1>6. AtCursor(r)'
  BY <1>1, <1>2 DEF Sound, AtCursor
<1>7. x <= tick[r].top
  BY <1>1 DEF Sound, AtCursor
<1>8. Behind(r)'
  BY <1>1, <1>2, <1>4, <1>7 DEF Sound, Behind
<1>9. Again(r)'
  <2> SUFFICES ASSUME NEW i \in tick'[r].batch \cap Dealt(r)'
               PROVE  i <= cursor' /\ HeldIn(seen'[r], i)
    BY DEF Again
  <2>1. i \in Nat /\ x \in Nat
    <3>1. i \in Row
      BY <1>1, <1>2, TickIs
    <3>2. QED
      BY <3>1, Ids
  <2>2. i # x /\ x < i /\ i \in tick[r].batch /\ i \in Dealt(r) \cup {x}
    BY <1>2, <2>1
  <2>3. i \in Dealt(r) /\ i <= cursor /\ HeldIn(seen[r], i)
    BY <1>1, <2>2 DEF Sound, Again
  <2>4. HeldIn(Remember(seen[r], x), i)
    BY <1>5, <2>2, <2>3
  <2>5. QED
    BY <1>2, <2>3, <2>4
<1>10. TopSeen(r)'
  BY <1>1, <1>2, <1>4 DEF Sound, TopSeen
<1>11. \A i : Near(r, i)' <=> Near(r, i)
  BY <1>1, <1>2, <1>4 DEF Near
<1>12. Remembered(r)'
  <2> SUFFICES ASSUME NEW i \in (Dealt(r) \cup {x}) \cap Visible, Near(r, i)
               PROVE  HeldIn(Remember(seen[r], x), i)
    BY <1>2, <1>4, <1>11 DEF Remembered
  <2>1. CASE i = x
    BY <1>3, <2>1, RememberNew
  <2>2. CASE i \in Dealt(r)
    BY <1>1, <1>5, <2>2 DEF Sound, Remembered
  <2>3. QED
    BY <2>1, <2>2
<1>13. Distinct(Remember(seen[r], x))
  BY <1>3, RememberDistinct
<1>14. QED
  BY <1>2, <1>6, <1>8, <1>9, <1>10, <1>12, <1>13 DEF Sound

LEMMA EvaluateKept ==
    ASSUME Kept, Orderly, NEW r \in Replica, Evaluate(r)
    PROVE  Single' /\ Unread' /\ Passed' /\ \A q \in Replica : Sound(q)'
<1>1. Inv /\ strayed = {} /\ Single /\ Unread /\ Passed
  BY DEF Kept
<1>2. PICK x \in Row : Judges(r, x)
  BY <1>1, EvaluateIs
<1>3. /\ tick[r].pc = "eval" /\ tick'[r].pc = "eval"
      /\ tick'[r].batch = {j \in tick[r].batch : j > x}
      /\ Dealt(r)' = Dealt(r) \cup {x} /\ judged' = judged \cup {x}
      /\ \A q \in Replica : q # r => /\ tick'[q] = tick[q] /\ seen'[q] = seen[q]
                                     /\ evals'[q] = evals[q] /\ Dealt(q)' = Dealt(q)
      /\ UNCHANGED <<working, rows, cursor, done>>
  BY <1>1, <1>2, JudgesIs
<1>4. seen'[r] # None
  <2>1. Inv'
    BY <1>1, EvaluateType
  <2>2. QED
    BY <1>3, <2>1 DEF Inv, Ready
<1>5. cursor # None
  <2>1. seen[r] # None
    BY <1>1, <1>3 DEF Inv, Ready
  <2>2. QED
    BY <1>1, <2>1 DEF Unread
<1>6. Single'
  BY <1>1, <1>3 DEF Single
<1>7. Unread'
  BY <1>1, <1>3, <1>4, <1>5 DEF Unread
<1>8. Passed'
  <2>1. Past' = Past
    BY <1>3 DEF Past
  <2>2. x \in Past
    BY <1>1, <1>2 DEF Passed, Judges
  <2>3. \A q \in Replica : Dealt(q)' \subseteq judged'
    BY <1>1, <1>3 DEF Passed
  <2>4. \A q \in Replica : tick'[q].batch \subseteq Past
    BY <1>1, <1>3 DEF Passed
  <2>5. QED
    BY <1>1, <1>3, <2>1, <2>2, <2>3, <2>4 DEF Passed
<1>9. ASSUME NEW q \in Replica PROVE Sound(q)'
  <2>1. CASE q = r
    BY <1>2, <2>1, EvaluateSound
  <2>2. CASE q # r
    BY <1>3, <2>2, Untouched
  <2>3. QED
    BY <2>1, <2>2
<1>10. QED
  BY <1>6, <1>7, <1>8, <1>9

\* The batch is done with: the cursor is behind nothing that was dealt with.
LEMMA AdvanceMoves ==
    ASSUME Kept, NEW r \in Replica, Advance(r)
    PROVE  /\ cursor \in Nat /\ cursor' \in Nat /\ cursor <= cursor' /\ tick[r].top <= cursor'
           /\ cursor' = Moved(r) /\ cursor' \in {cursor, tick[r].top}
           /\ UNCHANGED <<strayed, evals, done>> /\ tick'[r].batch = {}
           /\ \/ tick'[r].pc = "idle"
              \/ tick'[r].pc = "scan" /\ tick'[r].last = cursor' /\ tick'[r].from = tick[r].top
           /\ \A q \in Replica : q # r => tick'[q] = tick[q]
<1>1. Inv /\ Unread /\ Sound(r) /\ tick[r].pc = "eval"
  BY AdvanceIs DEF Kept
<1>2. seen[r] # None
  BY <1>1 DEF Inv, Ready
<1>3. cursor \in Nat /\ tick[r].top \in Nat /\ tick[r].last = cursor
  BY <1>1, <1>2, CursorIs, TickIs DEF Sound, AtCursor
<1>4. cursor' = IF tick[r].top > tick[r].last THEN tick[r].top ELSE cursor
  BY AdvanceIs
<1>5. UNCHANGED <<strayed, evals, done>>
  <2>1. ~(cursor' < cursor)
    BY <1>3, <1>4
  <2>2. QED
    BY <2>1, AdvanceIs
<1>6. tick' = [tick EXCEPT ![r] =
                 IF tick[r].full
                 THEN [Idle EXCEPT !.pc = "scan", !.last = Moved(r), !.from = tick[r].top]
                 ELSE Idle]
  BY AdvanceIs
<1>7. /\ tick'[r] = IF tick[r].full
                    THEN [Idle EXCEPT !.pc = "scan", !.last = Moved(r), !.from = tick[r].top]
                    ELSE Idle
      /\ \A q \in Replica : q # r => tick'[q] = tick[q]
  BY <1>1, <1>6 DEF Inv, TypeOK
<1>8. cursor' \in Nat /\ cursor <= cursor' /\ tick[r].top <= cursor' /\ cursor' = Moved(r)
  BY <1>3, <1>4 DEF Moved
<1>9. CASE tick[r].full
  <2>1. tick'[r] = [Idle EXCEPT !.pc = "scan", !.last = Moved(r), !.from = tick[r].top]
    BY <1>7, <1>9
  <2>2. /\ tick'[r].pc = "scan" /\ tick'[r].last = Moved(r) /\ tick'[r].from = tick[r].top
        /\ tick'[r].batch = {}
    BY <2>1 DEF Idle
  <2>3. QED
    BY <1>3, <1>4, <1>5, <1>7, <1>8, <2>2
<1>10. CASE ~tick[r].full
  <2>1. tick'[r] = Idle
    BY <1>7, <1>10
  <2>2. tick'[r].pc = "idle" /\ tick'[r].batch = {}
    BY <2>1 DEF Idle
  <2>3. QED
    BY <1>3, <1>4, <1>5, <1>7, <1>8, <2>2
<1>11. QED
  BY <1>9, <1>10

LEMMA AdvanceSound ==
    ASSUME Kept, NEW r \in Replica, Advance(r)
    PROVE  Sound(r)'
<1>1. Inv /\ Unread /\ Sound(r) /\ tick[r].pc = "eval"
  BY AdvanceIs DEF Kept
<1>2. UNCHANGED <<rows, seen, evals>>
  BY AdvanceIs, AdvanceMoves
<1>3. /\ cursor \in Nat /\ cursor' \in Nat /\ cursor <= cursor' /\ tick[r].top <= cursor'
      /\ cursor' = Moved(r) /\ cursor' \in {cursor, tick[r].top} /\ done' = done
  BY AdvanceMoves
<1>4. tick'[r].pc # "eval" /\ tick'[r].pc # "cursor"
  BY AdvanceMoves
<1>5. tick'[r].pc = "scan" => tick'[r].last = cursor' /\ tick'[r].from = tick[r].top
  BY AdvanceMoves
<1>6. Dealt(r)' = Dealt(r) /\ Visible' = Visible
  BY <1>2, <1>3 DEF Dealt, Visible
<1>7. tick[r].top \in Nat /\ Window \in Nat
  BY <1>1, TickIs, Sizes
<1>8. AtCursor(r)'
  <2>1. tick[r].top > Below(cursor, Window)
    BY <1>1 DEF Sound, AtCursor
  <2>2. tick[r].top >= Below(cursor', Window)
    BY <1>3, <1>7, <2>1 DEF Below
  <2>3. QED
    BY <1>4, <1>5, <2>2 DEF AtCursor
<1>9. Behind(r)'
  <2> SUFFICES ASSUME NEW i \in Dealt(r) \cap Visible PROVE i <= cursor'
    BY <1>6 DEF Behind
  <2>1. i <= cursor \/ i <= tick[r].top
    BY <1>1 DEF Sound, Behind
  <2>2. i \in Nat
    BY Ids DEF Visible
  <2>3. QED
    BY <1>3, <1>7, <2>1, <2>2
<1>10. Again(r)' /\ TopSeen(r)'
  BY <1>4 DEF Again, TopSeen
<1>11. Remembered(r)'
  <2> SUFFICES ASSUME NEW i \in Dealt(r) \cap Visible, Near(r, i)' PROVE HeldIn(seen[r], i)
    BY <1>2, <1>6 DEF Remembered
  <2>1. i \in Nat
    BY Ids DEF Visible
  <2>2. cursor' < i + Window \/ \A v \in Visible : v < i + Window
    BY <1>6 DEF Near
  <2>3. cursor' < i + Window => cursor < i + Window /\ tick[r].top < i + Window
    BY <1>3, <1>7, <2>1
  <2>4. Near(r, i)
    BY <2>2, <2>3 DEF Near
  <2>5. QED
    BY <1>1, <2>4 DEF Sound, Remembered
<1>12. QED
  BY <1>1, <1>2, <1>8, <1>9, <1>10, <1>11 DEF Sound

LEMMA AdvanceKept ==
    ASSUME Kept, NEW r \in Replica, Advance(r)
    PROVE  Single' /\ Unread' /\ Passed' /\ \A q \in Replica : Sound(q)'
<1>1. Inv /\ Single /\ Unread /\ Passed /\ tick[r].pc = "eval"
  BY AdvanceIs DEF Kept
<1>2. UNCHANGED <<working, rows, seen, evals, judged>>
  BY AdvanceIs, AdvanceMoves
<1>3. /\ cursor \in Nat /\ cursor' \in Nat /\ cursor <= cursor' /\ done' = done
      /\ \A q \in Replica : q # r => tick'[q] = tick[q]
  BY AdvanceMoves
<1>4. tick'[r].batch = {}
  BY AdvanceMoves
<1>5. cursor' # None
  BY <1>3, NoneApart
<1>6. Past' = Past
  BY <1>2 DEF Past
<1>7. \A q \in Replica : Dealt(q)' = Dealt(q)
  BY <1>2, <1>3 DEF Dealt
<1>8. Single'
  BY <1>1, <1>2, <1>3 DEF Single
<1>9. Unread'
  BY <1>1, <1>2, <1>5, <1>7 DEF Unread
<1>10. Passed'
  <2>1. \A q \in Replica : tick'[q].batch \subseteq Past
    BY <1>1, <1>3, <1>4 DEF Passed
  <2>2. QED
    BY <1>1, <1>2, <1>6, <1>7, <2>1 DEF Passed
<1>11. ASSUME NEW q \in Replica PROVE Sound(q)'
  <2>1. CASE q = r
    BY <2>1, AdvanceSound
  <2>2. CASE q # r
    <3>1. tick[q].pc = "idle"
      BY <1>1, <2>2, TickIs DEF Single
    <3>2. QED
      BY <1>2, <1>3, <2>2, <3>1, MovedByAnother
  <2>3. QED
    BY <2>1, <2>2
<1>12. QED
  BY <1>8, <1>9, <1>10, <1>11

LEMMA KeptStep == ASSUME Orderly, Kept, [Next]_vars PROVE Kept'
<1>1. Inv'
  BY InvStep DEF Kept
<1>2. Single' /\ Unread' /\ Passed' /\ \A q \in Replica : Sound(q)'
  <2>1. ASSUME NEW k \in Row, Insert(k) \/ Commit(k) \/ Delete(k)
        PROVE  Single' /\ Unread' /\ Passed' /\ \A q \in Replica : Sound(q)'
    BY <2>1, TableKept
  <2>2. CASE Pause \/ Resume
    <3>1. UNCHANGED <<working, rows, cursor, tick, seen, evals, strayed, done, judged>>
      BY <2>2 DEF Pause, Resume
    <3>2. Single'
      BY <3>1 DEF Kept, Single
    <3>3. QED
      BY <3>1, <3>2, ElsewhereKept
  <2>3. ASSUME NEW r \in Replica, Grant(r) \/ Withdraw(r)
        PROVE  Single' /\ Unread' /\ Passed' /\ \A q \in Replica : Sound(q)'
    <3>1. UNCHANGED <<rows, cursor, tick, seen, evals, strayed, done, judged>>
      BY <2>3 DEF Grant, Withdraw
    <3>2. Single'
      BY <2>3, LeaseKept
    <3>3. QED
      BY <3>1, <3>2, ElsewhereKept
  <2>4. ASSUME NEW r \in Replica, StandBy(r)
        PROVE  Single' /\ Unread' /\ Passed' /\ \A q \in Replica : Sound(q)'
    <3>1. UNCHANGED <<working, rows, cursor, tick, seen, evals, strayed, done, judged>>
      BY <2>4 DEF StandBy
    <3>2. Single'
      BY <3>1 DEF Kept, Single
    <3>3. QED
      BY <3>1, <3>2, ElsewhereKept
  <2>5. ASSUME NEW r \in Replica, Restart(r)
        PROVE  Single' /\ Unread' /\ Passed' /\ \A q \in Replica : Sound(q)'
    BY <2>5, RestartKept
  <2>6. ASSUME NEW r \in Replica, StartTick(r)
        PROVE  Single' /\ Unread' /\ Passed' /\ \A q \in Replica : Sound(q)'
    BY <2>6, TurnKept
  <2>7. ASSUME NEW r \in Replica, ReadCursor(r)
        PROVE  Single' /\ Unread' /\ Passed' /\ \A q \in Replica : Sound(q)'
    BY <2>7, ReadCursorKept
  <2>8. ASSUME NEW r \in Replica, Scan(r)
        PROVE  Single' /\ Unread' /\ Passed' /\ \A q \in Replica : Sound(q)'
    BY <2>8, ScanKept
  <2>9. ASSUME NEW r \in Replica, Evaluate(r)
        PROVE  Single' /\ Unread' /\ Passed' /\ \A q \in Replica : Sound(q)'
    BY <2>9, EvaluateKept
  <2>10. ASSUME NEW r \in Replica, Advance(r)
         PROVE  Single' /\ Unread' /\ Passed' /\ \A q \in Replica : Sound(q)'
    BY <2>10, AdvanceKept
  <2>11. ASSUME NEW r \in Replica PROVE ~Fail(r)
    BY NoSuchFault DEF Fail
  <2>12. CASE UNCHANGED vars
    <3>1. UNCHANGED <<working, rows, cursor, tick, seen, evals, strayed, done, judged>>
      BY <2>12 DEF vars
    <3>2. Single'
      BY <3>1 DEF Kept, Single
    <3>3. QED
      BY <3>1, <3>2, ElsewhereKept
  <2>13. QED
    BY <2>1, <2>2, <2>3, <2>4, <2>5, <2>6, <2>7, <2>8, <2>9, <2>10, <2>11, <2>12
    DEF Next, StepOf
<1>3. strayed' = {}
  <2>1. strayed = {}
    BY DEF Kept
  <2>2. ASSUME NEW k \in Row, Insert(k) \/ Commit(k) \/ Delete(k) PROVE strayed' = {}
    BY <2>1, <2>2 DEF Insert, Commit, Delete, history
  <2>3. CASE Pause \/ Resume \/ UNCHANGED vars
    BY <2>1, <2>3 DEF Pause, Resume, vars, history
  <2>4. ASSUME NEW r \in Replica, \/ Grant(r) \/ Withdraw(r) \/ Restart(r) \/ StandBy(r)
                                  \/ StartTick(r) \/ Scan(r) \/ Evaluate(r)
        PROVE strayed' = {}
    BY <2>1, <2>4 DEF Grant, Withdraw, Restart, StandBy, StartTick, Scan, Evaluate, history
  <2>5. ASSUME NEW r \in Replica, ReadCursor(r) PROVE strayed' = {}
    BY <2>1, <2>5 DEF ReadCursor
  <2>6. ASSUME NEW r \in Replica, Advance(r) PROVE strayed' = {}
    BY <2>1, <2>6, AdvanceMoves
  <2>7. ASSUME NEW r \in Replica PROVE ~Fail(r)
    BY NoSuchFault DEF Fail
  <2>8. QED
    BY <2>2, <2>3, <2>4, <2>5, <2>6, <2>7 DEF Next, StepOf
<1>4. QED
  BY <1>1, <1>2, <1>3 DEF Kept

\* The count of a row goes up when a rule is evaluated on it, and starts again with the process.
LEMMA EvalsIs ==
    ASSUME Orderly, Kept, [Next]_vars, NEW r \in Replica
    PROVE  evals'[r] = evals[r] \/ evals'[r] = Never \/ \E x \in Row : Judges(r, x)
<1>1. Inv /\ strayed = {} /\ evals \in [Replica -> [Row -> Nat]]
  BY DEF Kept, Inv, TypeOK
<1>2. ASSUME NEW k \in Row, Insert(k) \/ Commit(k) \/ Delete(k) PROVE evals' = evals
  BY <1>2 DEF Insert, Commit, Delete
<1>3. CASE Pause \/ Resume \/ UNCHANGED vars
  BY <1>3 DEF Pause, Resume, vars
<1>4. ASSUME NEW q \in Replica, \/ Grant(q) \/ Withdraw(q) \/ StandBy(q) \/ StartTick(q)
                                \/ Scan(q) \/ Advance(q) \/ Fail(q)
      PROVE evals' = evals
  <2>1. ~Fail(q)
    BY NoSuchFault DEF Fail
  <2>2. Advance(q) => evals' = evals
    BY AdvanceMoves
  <2>3. QED
    BY <1>4, <2>1, <2>2 DEF Grant, Withdraw, StandBy, StartTick, Scan, history
<1>5. ASSUME NEW q \in Replica, Restart(q) PROVE evals' = [evals EXCEPT ![q] = Never]
  BY <1>5 DEF Restart
<1>6. ASSUME NEW q \in Replica, ReadCursor(q) PROVE evals' = evals
  BY <1>6, NoSuchFault, ReadCursorIs
<1>7. ASSUME NEW q \in Replica, Evaluate(q)
      PROVE  evals'[r] = evals[r] \/ \E x \in Row : Judges(r, x)
  <2>1. PICK x \in Row : Judges(q, x)
    BY <1>1, <1>7, EvaluateIs
  <2>2. q # r => evals'[r] = evals[r]
    BY <1>1, <2>1, JudgesIs
  <2>3. QED
    BY <2>1, <2>2
<1>8. QED
  BY <1>1, <1>2, <1>3, <1>4, <1>5, <1>6, <1>7 DEF Next, StepOf

LEMMA EvaluatesIs ==
    ASSUME Orderly, Kept, [Next]_vars, NEW r \in Replica, NEW i \in Row, evals'[r][i] # 0
    PROVE  evals'[r][i] = evals[r][i] \/ (evals'[r][i] = 1 /\ i \notin Dealt(r))
<1>1. Inv /\ strayed = {}
  BY DEF Kept
<1>2. CASE evals'[r] = evals[r]
  BY <1>2
<1>3. CASE evals'[r] = Never
  BY <1>3 DEF Never
<1>4. ASSUME NEW x \in Row, Judges(r, x)
      PROVE  evals'[r][i] = evals[r][i] \/ (evals'[r][i] = 1 /\ i \notin Dealt(r))
  <2>1. evals \in [Replica -> [Row -> Nat]] /\ evals' = [evals EXCEPT ![r][x] = @ + 1]
    BY <1>1, <1>4, JudgesGood DEF Inv, TypeOK
  <2>2. CASE i = x
    <3>1. i \notin Dealt(r)
      BY <1>4, <2>2, JudgesNew
    <3>2. evals[r][i] \in Nat /\ ~ (evals[r][i] > 0)
      BY <2>1, <3>1 DEF Dealt
    <3>3. evals'[r][i] = evals[r][i] + 1
      BY <2>1, <2>2
    <3>4. QED
      BY <3>1, <3>2, <3>3
  <2>3. CASE i # x
    BY <2>1, <2>3
  <2>4. QED
    BY <2>2, <2>3
<1>5. QED
  BY <1>1, <1>2, <1>3, <1>4, EvalsIs

LEMMA KeptAlways == ASSUME Orderly PROVE Spec => []Kept
<1>1. Kept /\ [Next]_vars => Kept'
  BY KeptStep
<1>2. QED
  BY KeptInit, <1>1, PTL DEF Spec

\* OnceEach for any number of replicas and rows and any sizes, as long as no statement fails
\* and no lease is lost in the middle of a tick: the bounded memory of _Seen holds every row
\* that the look back behind the cursor may meet again, if it has room for twice the window
\* less one.
THEOREM SeenSuffices == ASSUME Orderly PROVE Spec => []OnceEach
<1>1. Init => OnceEach
  BY DEF Init, Never, OnceEach
<1>2. ASSUME OnceEach, Kept, [Next]_vars PROVE OnceEach'
  <2> SUFFICES ASSUME NEW r \in Replica, NEW i \in Row PROVE evals'[r][i] <= 1
    BY DEF OnceEach
  <2>1. evals'[r][i] = 0 \/ evals'[r][i] = evals[r][i] \/ evals'[r][i] = 1
    BY <1>2, EvaluatesIs
  <2>2. evals[r][i] <= 1
    BY <1>2 DEF OnceEach
  <2>3. QED
    BY <2>1, <2>2
<1>3. OnceEach /\ Kept /\ [Next]_vars => OnceEach'
  BY <1>2
<1>4. QED
  BY KeptAlways, <1>1, <1>3, PTL DEF Spec

\* NoReplay in the same setting: what was evaluated and passed before a process read its
\* window, by itself before a restart or by another replica, it does not evaluate again.
THEOREM NothingReplayed == ASSUME Orderly PROVE Spec => NoReplay
<1>1. ASSUME Kept, [Next]_vars
      PROVE  [\A r \in Replica : \A i \in done[r] : ~Evaluates(r, i)]_vars
  <2> SUFFICES ASSUME NEW r \in Replica, NEW i \in done[r], Evaluates(r, i) PROVE FALSE
    OBVIOUS
  <2>1. Inv /\ i \in Row /\ i \in Dealt(r)
    BY <1>1 DEF Kept, Inv, TypeOK, Dealt
  <2>2. evals[r][i] \in Nat /\ evals'[r][i] > evals[r][i]
    BY <2>1 DEF Inv, TypeOK, Evaluates
  <2>3. evals'[r][i] = 0 \/ evals'[r][i] = evals[r][i]
    BY <1>1, <2>1, EvaluatesIs
  <2>4. QED
    BY <2>2, <2>3
<1>2. Kept /\ [Next]_vars => [\A r \in Replica : \A i \in done[r] : ~Evaluates(r, i)]_vars
  BY <1>1
<1>3. QED
  BY KeptAlways, <1>2, PTL DEF Spec, NoReplay

(***************************************************************************)
(* Who evaluates a row a second time.  A new leader takes the rows that     *)
(* were evaluated before as done when it reads its window, and whoever      *)
(* evaluates after that is itself.  Only a replica that leads again comes   *)
(* with a window from before the rows others evaluated in between.          *)
(***************************************************************************)

\* Nobody leads who has led before: its window would be the one of its first term.
NewToLead == \A r \in Replica : Grant(r) => seen[r] = None

\* Each row evaluated counts for the process that did.
Credited == \A i \in judged : \E q \in Replica : evals[q][i] > 0

\* The replica that works will not come upon the row again without knowing it.
Known(r, i) ==
    \/ i \in Dealt(r)
    \/ rows[i] = "gone" /\ (tick[r].pc = "eval" => i \notin tick[r].batch)

AllKnown == \A r \in working : seen[r] # None => \A i \in judged : Known(r, i)

LEMMA KnownInit == Init => Credited /\ AllKnown
BY DEF Init, Credited, AllKnown

\* The operator, a replica that stands by, the lease: a new leader has no window yet.
LEMMA ElsewhereKnown ==
    ASSUME Credited, AllKnown, UNCHANGED <<rows, tick, seen, evals, strayed, done, judged>>,
           \A r \in working' : r \in working \/ seen[r] = None
    PROVE  Credited' /\ AllKnown'
<1>1. \A r \in Replica : Dealt(r)' = Dealt(r)
  BY DEF Dealt
<1>2. \A r, i : Known(r, i) => Known(r, i)'
  BY DEF Known, Dealt
<1>3. QED
  BY <1>2 DEF Credited, AllKnown

\* A row evaluated and deleted is not seen again.
LEMMA TableKnown ==
    ASSUME Kept, Credited, AllKnown, NEW k \in Row, Insert(k) \/ Commit(k) \/ Delete(k)
    PROVE  Credited' /\ AllKnown'
<1>1. UNCHANGED <<working, tick, seen, evals, strayed, done, judged>>
  BY DEF Insert, Commit, Delete
<1>2. rows \in [Row -> {"free", "open", "visible", "gone"}] /\ judged \subseteq Row
  BY DEF Kept, Inv, TypeOK
<1>3. \A i \in judged : rows[i] = "gone" => rows'[i] = "gone"
  BY <1>2 DEF Insert, Commit, Delete, Appear
<1>4. ASSUME NEW r, NEW i \in judged, Known(r, i) PROVE Known(r, i)'
  BY <1>1, <1>3, <1>4 DEF Known, Dealt
<1>5. QED
  BY <1>1, <1>4 DEF Credited, AllKnown

\* Only the replica in a tick works, so a step of its tick is all there is to look at.
LEMMA AloneInTick ==
    ASSUME Kept, NEW r \in Replica, tick[r].pc # "idle"
    PROVE  working = {r} /\ \A q \in Replica : q # r => tick[q].pc = "idle"
BY DEF Kept, Single, Inv, TypeOK

\* A tick begins, or is done with a batch.
LEMMA BetweenKnown ==
    ASSUME Kept, Credited, AllKnown, NEW r \in Replica, working \subseteq {r},
           UNCHANGED <<working, rows, seen, evals, strayed, done, judged>>, tick'[r].pc # "eval"
    PROVE  Credited' /\ AllKnown'
<1>1. \A i : Known(r, i) => Known(r, i)'
  BY DEF Known, Dealt
<1>2. QED
  BY <1>1 DEF Credited, AllKnown

\* The first reading takes all that was evaluated and is still there as done.
LEMMA ReadCursorKnown ==
    ASSUME Kept, Orderly, Credited, AllKnown, NEW r \in Replica, ReadCursor(r)
    PROVE  Credited' /\ AllKnown'
<1>1. Inv /\ Unread /\ Passed
  BY DEF Kept
<1>2. UNCHANGED <<working, rows, judged>> /\ tick[r].pc = "cursor"
  BY ReadCursorIs
<1>3. \/ ~Reseeds /\ seen[r] # None /\ UNCHANGED <<seen, evals, strayed, done>>
      \/ /\ Reseeds \/ seen[r] = None
         /\ done' = [done EXCEPT ![r] = {i \in judged : i <= Start}]
         /\ evals' = evals
  BY ReadCursorIs, NoSuchFault
<1>4. working = {r} /\ \A q \in Replica : q # r => tick[q].pc = "idle"
  BY <1>2, AloneInTick
<1>5. tick'[r].pc = "scan"
  BY <1>1, ReadsIs
<1>6. CASE ~Reseeds /\ seen[r] # None /\ UNCHANGED <<seen, evals, strayed, done>>
  BY <1>2, <1>4, <1>5, <1>6, BetweenKnown
<1>7. CASE /\ Reseeds \/ seen[r] = None
           /\ done' = [done EXCEPT ![r] = {i \in judged : i <= Start}]
           /\ evals' = evals
  <2>1. done'[r] = {i \in judged : i <= Start}
    BY <1>1, <1>7 DEF Inv, TypeOK
  <2>2. ASSUME NEW i \in judged, i \in Visible PROVE i <= Start
    <3>1. CASE Reseeds
      BY <2>2, <3>1, TailIs DEF Start
    <3>2. CASE ~Reseeds
      <4>1. PICK q \in Replica : evals[q][i] > 0
        BY DEF Credited
      <4>2. i \in Dealt(q)
        BY <1>1, <4>1 DEF Passed, Dealt, Visible, Past
      <4>3. q # r
        BY <1>1, <1>7, <3>2, <4>2 DEF Unread
      <4>4. i <= cursor
        BY <1>4, <2>2, <4>2, <4>3 DEF Kept, Sound, Behind
      <4>5. QED
        BY <3>2, <4>4 DEF Start
    <3>3. QED
      BY <3>1, <3>2
  <2>3. ASSUME NEW i \in judged PROVE Known(r, i)'
    <3>1. i \in Row /\ rows[i] \in {"visible", "gone"}
      BY <1>1 DEF Passed, Past
    <3>2. CASE rows[i] = "visible"
      BY <2>1, <2>2, <3>1, <3>2 DEF Visible, Known, Dealt
    <3>3. CASE rows[i] = "gone"
      BY <1>2, <1>5, <3>3 DEF Known
    <3>4. QED
      BY <3>1, <3>2, <3>3
  <2>4. QED
    BY <1>2, <1>4, <1>7, <2>3 DEF Credited, AllKnown
<1>8. QED
  BY <1>3, <1>6, <1>7

\* A batch is of visible rows.
LEMMA ScanKnown ==
    ASSUME Kept, Credited, AllKnown, NEW r \in Replica, Scan(r)
    PROVE  Credited' /\ AllKnown'
<1>1. UNCHANGED <<working, rows, seen, evals, strayed, done, judged>> /\ tick[r].pc = "scan"
  BY DEF Scan
<1>2. working = {r}
  BY <1>1, AloneInTick
<1>3. CASE QuerySince(tick[r].from) = {}
  <2>1. tick'[r].pc = "idle"
    BY <1>3 DEF Scan, Kept, Inv, TypeOK, Idle
  <2>2. QED
    BY <1>1, <1>2, <2>1, BetweenKnown
<1>4. CASE QuerySince(tick[r].from) # {}
  <2>1. tick'[r].batch \subseteq Visible
    BY <1>4, ScanSound
  <2>2. ASSUME NEW i \in judged, Known(r, i) PROVE Known(r, i)'
    BY <1>1, <2>1, <2>2 DEF Known, Dealt, Visible
  <2>3. QED
    BY <1>1, <1>2, <2>2 DEF Credited, AllKnown
<1>5. QED
  BY <1>3, <1>4

\* The row evaluated is dealt with from now on.
LEMMA EvaluateKnown ==
    ASSUME Kept, Orderly, Credited, AllKnown, NEW r \in Replica, NEW x \in Row, Judges(r, x)
    PROVE  Credited' /\ AllKnown'
<1>1. Inv /\ strayed = {}
  BY DEF Kept
<1>2. /\ tick[r].pc = "eval" /\ tick'[r].batch \subseteq tick[r].batch
      /\ Dealt(r)' = Dealt(r) \cup {x} /\ judged' = judged \cup {x}
      /\ \A q \in Replica : q # r => evals'[q] = evals[q]
      /\ UNCHANGED <<working, rows>>
  BY <1>1, JudgesIs
<1>3. working = {r} /\ seen[r] # None
  BY <1>1, <1>2, AloneInTick DEF Inv, Ready
<1>4. evals \in [Replica -> [Row -> Nat]] /\ evals' = [evals EXCEPT ![r][x] = @ + 1]
  BY <1>1, JudgesGood DEF Inv, TypeOK
<1>5. evals'[r][x] > 0
  <2>1. evals[r][x] \in Nat /\ evals'[r][x] = evals[r][x] + 1
    BY <1>4
  <2>2. QED
    BY <2>1
<1>6. Credited'
  <2> SUFFICES ASSUME NEW i \in judged \cup {x} PROVE \E q \in Replica : evals'[q][i] > 0
    BY <1>2 DEF Credited
  <2>1. CASE i = x
    BY <1>5, <2>1
  <2>2. CASE i # x
    <3>1. PICK q \in Replica : evals[q][i] > 0
      BY <2>2 DEF Credited
    <3>2. evals'[q][i] = evals[q][i]
      BY <1>4, <2>2
    <3>3. QED
      BY <3>1, <3>2
  <2>3. QED
    BY <2>1, <2>2
<1>7. ASSUME NEW i \in judged \cup {x} PROVE Known(r, i)'
  BY <1>2, <1>3, <1>7 DEF AllKnown, Known
<1>8. QED
  BY <1>2, <1>3, <1>6, <1>7 DEF AllKnown

LEMMA KnownStep ==
    ASSUME Orderly, "crash" \notin Faults, Kept, Credited, AllKnown, [Next]_vars, [NewToLead]_vars
    PROVE  Credited' /\ AllKnown'
<1>1. Inv /\ Single
  BY DEF Kept
<1>2. ASSUME NEW k \in Row, Insert(k) \/ Commit(k) \/ Delete(k) PROVE Credited' /\ AllKnown'
  BY <1>2, TableKnown
<1>3. CASE Pause \/ Resume \/ UNCHANGED vars
  BY <1>3, ElsewhereKnown DEF Pause, Resume, vars, table, memory, history
<1>4. ASSUME NEW r \in Replica, StandBy(r) \/ Withdraw(r) PROVE Credited' /\ AllKnown'
  <2>1. UNCHANGED <<rows, tick, seen, evals, strayed, done, judged>> /\ working' \subseteq working
    BY <1>4 DEF StandBy, Withdraw, Lead!Withdraw, table, memory, history
  <2>2. QED
    BY <2>1, ElsewhereKnown
<1>5. ASSUME NEW r \in Replica, Grant(r), NewToLead PROVE Credited' /\ AllKnown'
  <2>1. UNCHANGED <<rows, tick, seen, evals, strayed, done, judged>> /\ working' = {r} /\ seen[r] = None
    BY <1>5 DEF Grant, Lead!Grant, NewToLead, table, memory, history
  <2>2. QED
    BY <2>1, ElsewhereKnown
<1>6. ASSUME NEW r \in Replica, StartTick(r) PROVE Credited' /\ AllKnown'
  <2>1. UNCHANGED <<working, rows, seen, evals, strayed, done, judged>> /\ working \subseteq {r}
    BY <1>1, <1>6 DEF StartTick, Single, Inv, TypeOK
  <2>2. tick[r].pc # "eval" /\ tick'[r].pc # "eval"
    BY <1>1, <1>6 DEF StartTick, Idle, Inv, TypeOK
  <2>3. QED
    BY <2>1, <2>2, BetweenKnown
<1>7. ASSUME NEW r \in Replica, ReadCursor(r) PROVE Credited' /\ AllKnown'
  BY <1>7, ReadCursorKnown
<1>8. ASSUME NEW r \in Replica, Scan(r) PROVE Credited' /\ AllKnown'
  BY <1>8, ScanKnown
<1>9. ASSUME NEW r \in Replica, Evaluate(r) PROVE Credited' /\ AllKnown'
  BY <1>1, <1>9, EvaluateIs, EvaluateKnown
<1>10. ASSUME NEW r \in Replica, Advance(r) PROVE Credited' /\ AllKnown'
  <2>1. UNCHANGED <<working, rows, seen, evals, strayed, done, judged>> /\ tick'[r].pc # "eval"
    BY <1>10, AdvanceIs, AdvanceMoves
  <2>2. working = {r}
    BY <1>10, AdvanceIs, AloneInTick
  <2>3. QED
    BY <2>1, <2>2, BetweenKnown
<1>11. ASSUME NEW r \in Replica PROVE ~Fail(r) /\ ~Restart(r)
  BY NoSuchFault DEF Fail, Restart, Fault
<1>12. QED
  BY <1>2, <1>3, <1>4, <1>5, <1>6, <1>7, <1>8, <1>9, <1>10, <1>11 DEF Next, StepOf

\* Finding 5 has no other cause: while nothing fails or crashes and nobody leads a second time,
\* no row is evaluated twice by anybody (NoDoubleFire), through any number of changes of leader,
\* late commits, deletions and pauses.
THEOREM NoneTwice ==
    ASSUME Orderly, "crash" \notin Faults
    PROVE  Spec /\ [][NewToLead]_vars => NoDoubleFire
<1>1. Kept /\ Credited /\ AllKnown /\ [Next]_vars /\ [NewToLead]_vars => (Credited /\ AllKnown)'
  BY KnownStep
<1>2. ASSUME Kept, AllKnown, [Next]_vars
      PROVE  [\A r \in Replica, i \in Row : Evaluates(r, i) => i \notin judged]_vars
  <2> SUFFICES ASSUME NEW r \in Replica, NEW i \in Row, Evaluates(r, i), i \in judged PROVE FALSE
    OBVIOUS
  <2>1. Inv /\ strayed = {}
    BY <1>2 DEF Kept
  <2>2. evals \in [Replica -> [Row -> Nat]] /\ evals[r][i] \in Nat /\ evals'[r][i] > evals[r][i]
    BY <2>1 DEF Inv, TypeOK, Evaluates
  <2>3. PICK x \in Row : Judges(r, x)
    <3>1. evals'[r] # evals[r] /\ evals'[r] # Never
      BY <2>2 DEF Never
    <3>2. QED
      BY <1>2, <2>1, <3>1, EvalsIs
  <2>4. i = x
    BY <2>1, <2>2, <2>3, JudgesGood
  <2>5. tick[r].pc = "eval" /\ x \in tick[r].batch /\ x \notin Dealt(r)
    BY <1>2, <2>3, JudgesNew DEF Judges
  <2>6. r \in working /\ seen[r] # None
    BY <1>2, <2>1, <2>5, AloneInTick DEF Inv, Ready
  <2>7. QED
    BY <1>2, <2>4, <2>5, <2>6 DEF AllKnown, Known
<1>3. Kept /\ AllKnown /\ [Next]_vars
        => [\A r \in Replica, i \in Row : Evaluates(r, i) => i \notin judged]_vars
  BY <1>2
<1>4. QED
  BY KeptAlways, KnownInit, <1>1, <1>3, PTL DEF Spec, NoDoubleFire
=============================================================================
