----------------------------- MODULE Retention -----------------------------
(***************************************************************************)
(* Which automatic copies of a task its retention deletes: the pure part of *)
(* src/src/lib/core/backup/schedule.py.                                     *)
(*                                                                         *)
(* A copy is a record [n, task, ok, size, at, locked]: n orders the copies  *)
(* by mtime, at is the mtime its periods are computed from.  S is always    *)
(* the set of copies is_auto() gives to one task.                           *)
(***************************************************************************)
EXTENDS Integers, FiniteSets

CONSTANTS Bucket,   \* the kinds of period: keep_daily, keep_weekly, ...
          Span      \* the length of each, in units of the clock

ASSUME SpanAssumption == Span \in [Bucket -> Nat \ {0}]

\* retention_policy: a counter, one counter per kind of period, max_size; 0 is "not set".
Policy == [last : Nat, bucket : [Bucket -> Nat], budget : Nat]

Newer(c, S) == {d \in S : d.n > c.n}
Newest(S)   == CHOOSE c \in S : Newer(c, S) = {}
Good(S)     == {c \in S : c.ok}
TotalSize(S) == Cardinality(UNION {{c.n} \X (1 .. c.size) : c \in S})

LeadingShifted(S, count) ==
    {c \in S : Cardinality(Newer(c, S)) > 0 /\ Cardinality(Newer(c, S)) <= count}

\* The first of a list that is newest first.
Leading(S, count) == {c \in S : Cardinality(Newer(c, S)) < count}

\* The newest copy of each period.
FirstOfPeriods(S, k) ==
    {c \in S : \A d \in Newer(c, S) : d.at \div Span[k] # c.at \div Span[k]}

\* survivors: no rule at all keeps everything; else a copy survives if any rule claims it.
Survivors(S, q) ==
    IF q.last = 0 /\ \A k \in Bucket : q.bucket[k] = 0 THEN S
    ELSE Leading(S, q.last)
         \cup UNION {Leading(FirstOfPeriods(S, k), q.bucket[k]) : k \in Bucket}

ApplyOneFloor(S) ==
    [kept \in SUBSET S |-> IF kept = {} /\ S # {} THEN {Newest(S)} ELSE kept]

\* _apply_floors: the newest if nothing is kept, the newest good one if no kept one is good.
ApplyFloors(S) ==
    [kept \in SUBSET S |->
        LET some == IF kept = {} /\ S # {} THEN {Newest(S)} ELSE kept
        IN  IF Good(some) = {} /\ Good(S) # {} THEN some \cup {Newest(Good(S))} ELSE some]

OverBudgetOldest(S, budget) ==
    [kept \in SUBSET S |->
        IF budget = 0 THEN kept
        ELSE {c \in kept : TotalSize({d \in kept : d.n <= c.n}) <= budget}]

\* _over_budget: the locked ones spend their size first, then the unlocked from the newest
\* on while there is room; alone, the newest is kept whatever its size.
OverBudget(S, budget) ==
    [kept \in SUBSET S |->
        LET held == {c \in kept : c.locked}
            free == kept \ held
        IN  IF budget = 0 THEN kept
            ELSE held \cup {c \in free :
                   \/ held = {} /\ Newer(c, free) = {}
                   \/ TotalSize(held \cup {c} \cup Newer(c, free)) <= budget}]

Kept(S, q) == ApplyFloors(S)[OverBudget(S, q.budget)[ApplyFloors(S)[Survivors(S, q)]]]

\* The budget leaves no good copy where there is one: the floor puts back one it did not count.
Rescued(S, q) ==
    /\ q.budget > 0 /\ Good(S) # {}
    /\ Good(OverBudget(S, q.budget)[ApplyFloors(S)[Survivors(S, q)]]) = {}

\* prune: the copies of S to delete.
Prune(S, q) == {c \in S \ Kept(S, q) : ~c.locked}
=============================================================================
