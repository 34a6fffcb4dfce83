---------------------------- MODULE BackupProofs ----------------------------
(***************************************************************************)
(* Proofs about Backup: the folder keeps its type; a lock put before        *)
(* somebody asks for it holds; and, as long as the prunings of a task do    *)
(* not overlap and count only on finished copies, a task that has had a     *)
(* good copy always has one.                                                *)
(***************************************************************************)
EXTENDS Backup, RetentionProofs

Removing(w) == job[w].pc \in {"delete", "remove"}
Half(w)     == job[w].pc = "finish"

\* What a worker is about to prune, remove or finish is there to be named.
JobOK(w) ==
    /\ job[w].pc = "list" => job[w].task \in Task
    /\ Removing(w) => job[w].doomed # {} /\ \A n \in job[w].doomed : n < next
    /\ Half(w) => job[w].made \in Number /\ job[w].made < next

Inv == TypeOK /\ IsFiniteSet(copies) /\ \A w \in Worker : JobOK(w)

-----------------------------------------------------------------------------
LEMMA AutosAreCopies == ASSUME Inv, NEW t PROVE Copies(Autos(t))
<1>1. IsFiniteSet(Autos(t)) /\ Autos(t) \subseteq copies
  BY FS_Subset DEF Inv, Autos
<1>2. QED
  BY <1>1, BackupAssumption DEF Inv, TypeOK, Copies, Copy, Number

LEMMA IdleOrJob ==
    ASSUME TypeOK, NEW w \in Worker
    PROVE  /\ job[w] \in Job \/ job[w] = Idle
           /\ job[w] = Idle <=> job[w].pc = "idle"
           /\ job[w] \in Job <=> job[w].pc # "idle"
BY DEF TypeOK, Job, Idle

\* The jobs begun from nothing.
LEMMA RoundType ==
    ASSUME TypeOK, NEW due \in SUBSET Task, NEW over \in SUBSET Task
    PROVE  Round(due, over) \in Job /\ Round(due, over).pc = "claim"
BY DEF TypeOK, Round, Job

LEMMA CopyingType ==
    ASSUME TypeOK, NEW t \in Task \cup {None}
    PROVE  Copying(t) \in Job /\ Copying(t).pc = "create"
<1>1. Round({}, {}) \in Job
  BY RoundType
<1>2. QED
  BY <1>1 DEF Copying, Job

LEMMA DeletingType ==
    ASSUME TypeOK, NEW c \in copies
    PROVE  /\ Deleting(c) \in Job /\ Deleting(c).pc = "delete"
           /\ Deleting(c).doomed = {c.n} /\ Deleting(c).task = None
<1>1. Round({}, {}) \in Job /\ Round({}, {}).task = None
  BY RoundType DEF Round
<1>2. c.n \in Number
  BY DEF TypeOK, Copy
<1>3. QED
  BY <1>1, <1>2 DEF Deleting, Job

\* A worker that is done is idle, or goes on with its round.
LEMMA ProceedIs ==
    ASSUME TypeOK, NEW w \in Worker, job[w] \in Job, Proceed(w)
    PROVE  /\ job' \in [Worker -> Job \cup {Idle}] /\ job'[w].pc \in {"idle", "round"}
           /\ \A v \in Worker \ {w} : job'[v] = job[v]
<1> DEFINE j == job[w]
           left == [j EXCEPT !.pc = "round", !.task = None, !.made = 0, !.doomed = {}]
<1>1. left \in Job /\ left.pc = "round" /\ Idle.pc = "idle"
  BY DEF Job, Idle
<1>2. job' = [job EXCEPT ![w] = IF j.due = {} /\ j.over = {} THEN Idle ELSE left]
  BY DEF Proceed
<1> HIDE DEF left, j
<1>3. QED
  BY <1>1, <1>2 DEF TypeOK

LEMMA OldestIsDoomed ==
    ASSUME Inv, NEW w \in Worker, Removing(w)
    PROVE  Oldest(job[w]) \in job[w].doomed
<1> DEFINE D == job[w].doomed
<1>1. D \in SUBSET Nat /\ D # {}
  BY IdleOrJob DEF Inv, JobOK, Removing, Job, Number, Idle
<1>2. \E n \in D : \A k \in D : ~ (<<k, n>> \in OpToRel(<, Nat))
  BY <1>1, NatLessThanWellFounded, WFMin
<1>3. \E n \in D : \A k \in D : n <= k
  <2>1. \A k, n \in Nat : <<k, n>> \in OpToRel(<, Nat) <=> k < n
    BY DEF OpToRel
  <2> HIDE DEF D
  <2>2. PICK n \in D : \A k \in D : ~ (<<k, n>> \in OpToRel(<, Nat))
    BY <1>2
  <2>3. \A k \in D : ~ (k < n)
    BY <1>1, <2>1, <2>2
  <2>4. QED
    BY <1>1, <2>3
<1>4. QED
  BY <1>3 DEF Oldest

\* One doomed copy fewer, or the job goes on without any.
LEMMA DealtIs ==
    ASSUME Inv, NEW w \in Worker, Removing(w), Dealt(w)
    PROVE  /\ job' \in [Worker -> Job \cup {Idle}]
           /\ \A v \in Worker \ {w} : job'[v] = job[v]
           /\ \/ job'[w].pc \in {"idle", "round"}
              \/ /\ job'[w].pc = "delete" /\ job'[w].task = job[w].task /\ job'[w].doomed # {}
                 /\ job'[w].doomed = job[w].doomed \ {Oldest(job[w])}
<1>1. TypeOK /\ job[w] \in Job
  BY IdleOrJob DEF Inv, Removing
<1> DEFINE left == job[w].doomed \ {Oldest(job[w])}
<1>2. CASE left = {}
  BY <1>1, <1>2, ProceedIs DEF Dealt
<1>3. CASE left # {}
  <2>1. job' = [job EXCEPT ![w].pc = "delete", ![w].doomed = left]
    BY <1>3 DEF Dealt
  <2>2. left \subseteq Number
    BY <1>1 DEF Job
  <2> HIDE DEF left
  <2>3. QED
    BY <1>1, <1>3, <2>1, <2>2 DEF TypeOK, Job, left
<1>4. QED
  BY <1>2, <1>3

LEMMA OthersOK ==
    ASSUME Inv, NEW w \in Worker, \A v \in Worker \ {w} : job'[v] = job[v],
           next' \in Nat, next' >= next, JobOK(w)'
    PROVE  \A v \in Worker : JobOK(v)'
<1> SUFFICES ASSUME NEW v \in Worker, v # w PROVE JobOK(v)'
  OBVIOUS
<1>1. job'[v] = job[v] /\ JobOK(v) /\ next \in Nat /\ (job[v] \in Job \/ job[v] = Idle)
  BY IdleOrJob DEF Inv, TypeOK
<1>2. Removing(v) => job[v].doomed \subseteq Nat
  BY <1>1 DEF Removing, Job, Idle, Number
<1>3. Number \subseteq Nat
  BY DEF Number
<1>4. Removing(v) => \A n \in job[v].doomed : n < next'
  BY <1>1, <1>2 DEF JobOK
<1>5. Half(v) => job[v].made < next'
  <2>1. Half(v) => job[v].made \in Number /\ job[v].made < next
    BY <1>1 DEF JobOK
  <2>2. \A m \in Number : m < next => m < next'
    BY <1>1, <1>3
  <2>3. QED
    BY <2>1, <2>2
<1>6. QED
  BY <1>1, <1>4, <1>5 DEF JobOK, Removing, Half, Number

LEMMA NewCopy ==
    ASSUME TypeOK, next <= MaxCopies, NEW t \in Task \cup {None}, NEW o \in Outcome,
           NEW c, c = [n |-> next, task |-> t, ok |-> o.ok, size |-> o.size,
                       at |-> now, locked |-> FALSE],
           copies' = copies \cup {c}, next' = next + 1
    PROVE  /\ copies' \subseteq Copy /\ \A d, e \in copies' : d.n = e.n => d = e
           /\ next' \in 1 .. MaxCopies + 1 /\ \A d \in copies' : d.n < next'
           /\ IsFiniteSet(copies) => IsFiniteSet(copies')
<1>1. c \in Copy /\ c.n = next
  BY BackupAssumption DEF TypeOK, Copy, Number
<1>2. IsFiniteSet(copies) => IsFiniteSet(copies')
  BY FS_AddElement
<1>3. copies' \subseteq Copy
  BY <1>1 DEF TypeOK
<1>4. next \in Nat /\ \A d \in copies : d.n < next /\ d.n \in Nat
  BY DEF TypeOK, Copy, Number
<1>5. \A d, e \in copies' : d.n = e.n => d = e
  <2>1. \A d, e \in copies : d.n = e.n => d = e
    BY DEF TypeOK
  <2>2. \A d \in copies : d.n # c.n
    BY <1>1, <1>4
  <2>3. QED
    BY <2>1, <2>2
<1>6. \A d \in copies' : d.n < next'
  BY <1>1, <1>4
<1>7. next' \in 1 .. MaxCopies + 1
  BY BackupAssumption DEF TypeOK
<1>8. QED
  BY <1>2, <1>3, <1>5, <1>6, <1>7

LEMMA CopyRelocked ==
    ASSUME NEW c \in Copy
    PROVE  /\ [c EXCEPT !.locked = ~@] \in Copy /\ [c EXCEPT !.locked = ~@].n = c.n
           /\ [c EXCEPT !.locked = ~@].task = c.task /\ [c EXCEPT !.locked = ~@].ok = c.ok
           /\ [c EXCEPT !.locked = ~@].locked = ~c.locked
BY DEF Copy

LEMMA InvInit == Init => Inv
BY FS_EmptySet, BackupAssumption
   DEF Init, Inv, TypeOK, Idle, JobOK, Removing, Half

\* A job of worker w changes, and nothing of the folder but the removal of copies.
LEMMA JobStep ==
    ASSUME Inv, NEW w \in Worker, \A v \in Worker \ {w} : job'[v] = job[v],
           job' \in [Worker -> Job \cup {Idle}], JobOK(w)',
           copies' \subseteq copies, UNCHANGED <<now, next, policy>>,
           lease' \in Worker \cup {None, "dead"}, good' \subseteq Task, raced' \subseteq Worker,
           changes' \in 0 .. MaxChanges, faults' \in 0 .. MaxFaults
    PROVE  Inv'
<1>1. next \in Nat
  BY DEF Inv, TypeOK
<1>2. \A v \in Worker : JobOK(v)'
  BY <1>1, OthersOK
<1>3. IsFiniteSet(copies')
  BY FS_Subset DEF Inv
<1>4. QED
  BY <1>2, <1>3 DEF Inv, TypeOK

\* What the guards count.
LEMMA Counted ==
    ASSUME TypeOK
    PROVE  /\ Fault => faults' \in 0 .. MaxFaults
           /\ Change => changes' \in 0 .. MaxChanges
BY BackupAssumption DEF TypeOK, Fault, Change

LEMMA LockType == ASSUME Inv, NEW c \in copies, Lock(c) PROVE Inv'
<1> DEFINE d == [c EXCEPT !.locked = ~@]
<1>1. d \in Copy /\ d.n = c.n
  BY CopyRelocked DEF Inv, TypeOK
<1>2. IsFiniteSet(copies')
  BY FS_RemoveElement, FS_AddElement DEF Lock, Inv
<1>3. copies' = (copies \ {c}) \cup {d} /\ UNCHANGED <<now, next, policy, lease, job, good, faults>>
  BY DEF Lock
<1>4. copies' \subseteq Copy
  BY <1>1, <1>3 DEF Inv, TypeOK
<1>5. \A e \in copies \ {c} : e.n # d.n
  BY <1>1 DEF Inv, TypeOK
<1>6. \A e, f \in copies' : e.n = f.n => e = f
  BY <1>3, <1>5 DEF Inv, TypeOK
<1>7. \A e \in copies' : e.n < next
  BY <1>1, <1>3 DEF Inv, TypeOK
<1>8. raced' \subseteq Worker /\ changes' \in 0 .. MaxChanges
  BY Counted DEF Lock, Inv, TypeOK
<1>9. \A w \in Worker : JobOK(w)'
  BY <1>3 DEF Inv, JobOK, Removing, Half
<1>10. QED
  BY <1>2, <1>3, <1>4, <1>6, <1>7, <1>8, <1>9 DEF Inv, TypeOK

LEMMA CreateType == ASSUME Inv, NEW w \in Worker, Create(w) PROVE Inv'
<1>1. TypeOK /\ job[w] \in Job /\ next \in Nat
  BY IdleOrJob DEF Inv, Create, TypeOK
<1>2. CASE Fault /\ Proceed(w) /\ UNCHANGED <<copies, next>>
  <2>1. JobOK(w)'
    BY <1>1, <1>2, ProceedIs DEF JobOK, Removing, Half
  <2>2. QED
    BY <1>1, <1>2, <2>1, ProceedIs, Counted, JobStep DEF Create, TypeOK
<1>3. CASE /\ next <= MaxCopies /\ \E o \in Outcome : Appears(job[w], o)
           /\ job' = [job EXCEPT ![w].pc = "finish", ![w].made = next] /\ UNCHANGED faults
  <2>1. PICK o \in Outcome : Appears(job[w], o)
    BY <1>3
  <2>2. next \in Number
    BY <1>1, <1>3, BackupAssumption DEF Number, TypeOK
  <2>3. /\ job' \in [Worker -> Job \cup {Idle}] /\ job'[w].pc = "finish" /\ job'[w].made = next
        /\ \A v \in Worker \ {w} : job'[v] = job[v]
    BY <1>1, <1>3, <2>2 DEF TypeOK, Job
  <2>4. /\ copies' \subseteq Copy /\ \A d, e \in copies' : d.n = e.n => d = e
        /\ next' \in 1 .. MaxCopies + 1 /\ \A d \in copies' : d.n < next'
        /\ IsFiniteSet(copies') /\ next' = next + 1
    <3>1. job[w].task \in Task \cup {None}
      BY <1>1 DEF Job
    <3>2. QED
      BY <1>1, <1>3, <2>1, <3>1, NewCopy DEF Appears, Inv
  <2>5. \A v \in Worker : JobOK(v)'
    <3>1. JobOK(w)'
      BY <1>1, <2>2, <2>3, <2>4 DEF JobOK, Removing, Half
    <3>2. QED
      BY <1>1, <2>3, <2>4, <3>1, OthersOK
  <2>6. QED
    BY <1>1, <1>3, <2>3, <2>4, <2>5 DEF Create, Inv, TypeOK
<1>4. QED
  BY <1>2, <1>3 DEF Create

LEMMA FinishType == ASSUME Inv, NEW w \in Worker, Finish(w) PROVE Inv'
<1> DEFINE it == {c \in copies : c.n = job[w].made}
<1>1. TypeOK /\ job[w] \in Job
  BY IdleOrJob DEF Inv, Finish
<1>2. UNCHANGED <<now, next, policy, lease, changes>> /\ raced' \subseteq Worker
  BY <1>1 DEF Finish, TypeOK
<1>3. good' \subseteq Task /\ copies' \subseteq copies /\ faults' \in 0 .. MaxFaults
  <2> DEFINE tasks == {c.task : c \in Good(it)}
  <2>1. tasks \subseteq Task \cup {None}
    BY <1>1 DEF Good, TypeOK, Copy
  <2>2. good' = (good \cup tasks) \ {None} \/ good' = good
    BY DEF Finish
  <2> HIDE DEF tasks
  <2>3. good' \subseteq Task
    BY <1>1, <2>1, <2>2 DEF TypeOK
  <2>4. copies' \subseteq copies /\ faults' \in 0 .. MaxFaults
    BY <1>1, Counted DEF Finish, TypeOK
  <2>5. QED
    BY <2>3, <2>4
<1>4. CASE Proceed(w)
  <2>1. JobOK(w)'
    BY <1>1, <1>4, ProceedIs DEF JobOK, Removing, Half
  <2>2. QED
    BY <1>1, <1>2, <1>3, <1>4, <2>1, ProceedIs, JobStep DEF TypeOK
<1>5. CASE job[w].task # None /\ job' = [job EXCEPT ![w].pc = "list", ![w].made = 0]
  <2>1. /\ job' \in [Worker -> Job \cup {Idle}] /\ job'[w].pc = "list" /\ job'[w].task \in Task
        /\ \A v \in Worker \ {w} : job'[v] = job[v]
    BY <1>1, <1>5 DEF TypeOK, Job
  <2>2. JobOK(w)'
    BY <2>1 DEF JobOK, Removing, Half
  <2>3. QED
    BY <1>1, <1>2, <1>3, <2>1, <2>2, JobStep DEF TypeOK
<1>6. QED
  BY <1>4, <1>5 DEF Finish

LEMMA ListType == ASSUME Inv, NEW w \in Worker, List(w) PROVE Inv'
<1> DEFINE doomed == {c.n : c \in Prune(Autos(job[w].task), job[w].rules[job[w].task])}
<1>1. TypeOK /\ job[w] \in Job
  BY IdleOrJob DEF Inv, List
<1>2. UNCHANGED <<now, copies, next, policy, lease, good, raced, changes, faults>>
  BY DEF List
<1>3. doomed \subseteq Number /\ \A n \in doomed : n < next
  <2>1. Prune(Autos(job[w].task), job[w].rules[job[w].task]) \subseteq copies
    BY DEF Prune, Autos
  <2>2. \A c \in copies : c.n \in Number /\ c.n < next
    BY <1>1 DEF TypeOK, Copy
  <2>3. QED
    BY <2>1, <2>2
<1>4. CASE Proceed(w)
  <2>1. JobOK(w)'
    BY <1>1, <1>4, ProceedIs DEF JobOK, Removing, Half
  <2>2. QED
    BY <1>1, <1>2, <1>4, <2>1, ProceedIs, JobStep DEF TypeOK
<1>5. CASE doomed # {} /\ job' = [job EXCEPT ![w].pc = "delete", ![w].doomed = doomed]
  <2> HIDE DEF doomed
  <2>1. /\ job' \in [Worker -> Job \cup {Idle}] /\ job'[w].pc = "delete"
        /\ job'[w].doomed = doomed /\ \A v \in Worker \ {w} : job'[v] = job[v]
    BY <1>1, <1>3, <1>5 DEF TypeOK, Job
  <2>2. JobOK(w)'
    BY <1>2, <1>3, <1>5, <2>1 DEF JobOK, Removing, Half
  <2>3. QED
    BY <1>1, <1>2, <2>1, <2>2, JobStep DEF TypeOK
<1>6. QED
  BY <1>4, <1>5 DEF List

\* A removal deals with one doomed copy, or goes on to remove it.
LEMMA RemovalType == ASSUME Inv, NEW w \in Worker, Examine(w) \/ Remove(w) PROVE Inv'
<1>1. TypeOK /\ job[w] \in Job /\ Removing(w) /\ JobOK(w)
  BY IdleOrJob DEF Inv, Examine, Remove, Removing
<1>2. /\ copies' \subseteq copies /\ UNCHANGED <<now, next, policy, lease, changes>>
      /\ good' \subseteq Task /\ raced' \subseteq Worker /\ faults' \in 0 .. MaxFaults
  BY <1>1, Counted DEF Examine, Remove, TypeOK
<1>3. CASE Dealt(w)
  <2>1. JobOK(w)'
    BY <1>1, <1>2, <1>3, DealtIs DEF JobOK, Removing, Half
  <2>2. QED
    BY <1>1, <1>2, <1>3, <2>1, DealtIs, JobStep DEF TypeOK
<1>4. CASE job' = [job EXCEPT ![w].pc = "remove"]
  <2>1. /\ job' \in [Worker -> Job \cup {Idle}] /\ job'[w].pc = "remove"
        /\ job'[w].doomed = job[w].doomed /\ \A v \in Worker \ {w} : job'[v] = job[v]
    BY <1>1, <1>4 DEF TypeOK, Job
  <2>2. JobOK(w)'
    BY <1>1, <1>2, <2>1 DEF JobOK, Removing, Half
  <2>3. QED
    BY <1>1, <1>2, <2>1, <2>2, JobStep DEF TypeOK
<1>5. QED
  BY <1>3, <1>4 DEF Examine, Remove

LEMMA InvStep == Inv /\ [Next]_vars => Inv'
<1> SUFFICES ASSUME Inv, [Next]_vars PROVE Inv'
  OBVIOUS
<1>1. TypeOK
  BY DEF Inv
<1>2. ASSUME NEW c \in copies, Lock(c) PROVE Inv'
  BY <1>2, LockType
<1>3. ASSUME NEW w \in Worker, NEW j \in Job, job[w] = Idle, job' = [job EXCEPT ![w] = j],
             UNCHANGED <<now, copies, next, policy, lease, good, raced, faults>>,
             changes' \in 0 .. MaxChanges, j.pc \notin {"list", "remove", "finish"},
             j.pc = "delete" => j.doomed # {} /\ \A n \in j.doomed : n < next
      PROVE  Inv'
  <2>1. /\ job' \in [Worker -> Job \cup {Idle}] /\ job'[w] = j
        /\ \A v \in Worker \ {w} : job'[v] = job[v]
    BY <1>1, <1>3 DEF TypeOK
  <2>2. JobOK(w)'
    BY <1>3, <2>1 DEF JobOK, Removing, Half
  <2>3. QED
    BY <1>1, <1>3, <2>1, <2>2, JobStep DEF TypeOK
<1>4. ASSUME NEW w \in Worker, CopyByHand(w) PROVE Inv'
  BY <1>1, <1>3, <1>4, CopyingType, Counted DEF CopyByHand
<1>5. ASSUME NEW w \in Worker, NEW c \in copies, DeleteByHand(w, c) PROVE Inv'
  <2>1. c.n < next
    BY <1>1 DEF TypeOK
  <2>2. QED
    BY <1>1, <1>3, <1>5, <2>1, DeletingType, Counted DEF DeleteByHand
<1>6. ASSUME NEW w \in Worker, NEW t \in Task, RunNow(w, t) PROVE Inv'
  BY <1>1, <1>3, <1>6, CopyingType, Counted DEF RunNow
<1>7. ASSUME NEW w \in Worker, Tick(w) PROVE Inv'
  <2>1. PICK due \in SUBSET Task, over \in SUBSET Task :
           job' = [job EXCEPT ![w] = Round(due, over)]
    BY <1>7, BackupAssumption DEF Tick
  <2>2. QED
    BY <1>1, <1>3, <1>7, <2>1, RoundType DEF Tick, TypeOK
<1>8. ASSUME UNCHANGED <<now, copies, next, policy, job, good, raced, changes, faults>>,
             lease' \in {lease, None}
      PROVE  Inv'
  BY <1>8 DEF Inv, TypeOK, JobOK, Removing, Half
<1>9. CASE Clock \/ Expire \/ UNCHANGED vars \/ \E t \in Task : SetPolicy(t)
  <2>1. CASE Expire \/ UNCHANGED vars
    BY <1>8, <2>1 DEF Expire, vars
  <2>2. CASE Clock \/ \E t \in Task : SetPolicy(t)
    <3>1. UNCHANGED <<copies, next, lease, job, good, raced, faults>>
      BY <2>2 DEF Clock, SetPolicy
    <3>2. now' \in 0 .. MaxTime /\ policy' \in [Task -> Policies] /\ changes' \in 0 .. MaxChanges
      BY <1>1, <2>2, BackupAssumption DEF Clock, SetPolicy, Change, TypeOK
    <3>3. QED
      BY <3>1, <3>2 DEF Inv, TypeOK, JobOK, Removing, Half
  <2>3. QED
    BY <1>9, <2>1, <2>2
<1>10. ASSUME NEW w \in Worker, NEW t \in Task, Begin(w, t) PROVE Inv'
  <2>1. job[w] \in Job
    BY <1>1, <1>10, IdleOrJob DEF Begin
  <2>2. /\ job' \in [Worker -> Job \cup {Idle}] /\ \A v \in Worker \ {w} : job'[v] = job[v]
        /\ job'[w].pc = "create" \/ (job'[w].pc = "list" /\ job'[w].task = t)
    BY <1>1, <1>10, <2>1 DEF Begin, TypeOK, Job
  <2>3. JobOK(w)'
    BY <2>2 DEF JobOK, Removing, Half
  <2>4. UNCHANGED <<now, copies, next, policy, lease, good, raced, changes, faults>>
    BY <1>10 DEF Begin
  <2>5. QED
    BY <1>1, <2>2, <2>3, <2>4, JobStep DEF TypeOK
<1>11. ASSUME NEW w \in Worker, Claim(w) PROVE Inv'
  <2>1. job[w] \in Job
    BY <1>1, <1>11, IdleOrJob DEF Claim
  <2>2. /\ job' \in [Worker -> Job \cup {Idle}] /\ \A v \in Worker \ {w} : job'[v] = job[v]
        /\ job'[w].pc \in {"idle", "round"}
    BY <1>1, <1>11, <2>1 DEF Claim, TypeOK, Job, Idle
  <2>3. JobOK(w)'
    BY <2>2 DEF JobOK, Removing, Half
  <2>4. /\ UNCHANGED <<now, copies, next, policy, good, raced, changes>>
        /\ lease' \in Worker \cup {None, "dead"} /\ faults' \in 0 .. MaxFaults
    BY <1>1, <1>11, Counted DEF Claim, TypeOK
  <2>5. QED
    BY <1>1, <2>2, <2>3, <2>4, JobStep DEF TypeOK
<1>12. ASSUME NEW w \in Worker, Crash(w) PROVE Inv'
  <2>1. /\ job' \in [Worker -> Job \cup {Idle}] /\ \A v \in Worker \ {w} : job'[v] = job[v]
        /\ job'[w].pc = "idle"
    BY <1>1, <1>12 DEF Crash, TypeOK, Idle
  <2>2. JobOK(w)'
    BY <2>1 DEF JobOK, Removing, Half
  <2>3. /\ UNCHANGED <<now, copies, next, policy, good, changes>> /\ raced' \subseteq Worker
        /\ lease' \in Worker \cup {None, "dead"} /\ faults' \in 0 .. MaxFaults
    BY <1>1, <1>12, Counted DEF Crash, TypeOK
  <2>4. QED
    BY <1>1, <2>1, <2>2, <2>3, JobStep DEF TypeOK
<1>13. ASSUME NEW w \in Worker, Create(w) \/ Finish(w) \/ List(w) \/ Examine(w) \/ Remove(w)
       PROVE Inv'
  BY <1>13, CreateType, FinishType, ListType, RemovalType
<1>14. QED
  BY <1>2, <1>4, <1>5, <1>6, <1>7, <1>9, <1>10, <1>11, <1>12, <1>13 DEF Next, Work

LEMMA Invariance == Spec => []Inv
BY InvInit, InvStep, PTL DEF Spec

\* The folder, the jobs and the lease keep their type, whatever fails or is done by hand.
THEOREM TypeCorrect == Spec => []TypeOK
BY Invariance, PTL DEF Inv

(***************************************************************************)
(* Locks.  Whoever is about to remove a locked copy had found it unlocked,  *)
(* or not yet finished: this is what asking for the lock right before each  *)
(* removal gives.                                                           *)
(***************************************************************************)
Informed ==
    \A w \in Worker, c \in copies : c.locked /\ c.n \in AtHand(w) => w \in raced

\* A step of one worker, after which it has no locked copy at hand.
LEMMA WorkerInformed ==
    ASSUME Inv, Informed, NEW w \in Worker, \A v \in Worker \ {w} : job'[v] = job[v],
           \A c \in copies' : c \in copies \/ ~c.locked, raced \ {w} \subseteq raced',
           \A c \in copies' : c.n \in AtHand(w)' => ~c.locked
    PROVE  Informed'
<1>1. \A v \in Worker \ {w} : AtHand(v)' = AtHand(v)
  BY DEF AtHand, Oldest
<1>2. QED
  BY <1>1 DEF Informed

LEMMA NothingAtHand ==
    ASSUME NEW w \in Worker, job'[w].pc \notin {"finish", "remove"} PROVE AtHand(w)' = {}
BY DEF AtHand

LEMMA OneAtHand ==
    ASSUME NEW w \in Worker, NEW m \in AtHand(w), NEW n \in AtHand(w) PROVE m = n
<1>1. CASE job[w].pc = "finish"
  BY <1>1 DEF AtHand
<1>2. CASE job[w].pc = "remove"
  BY <1>2 DEF AtHand
<1>3. CASE job[w].pc \notin {"finish", "remove"}
  BY <1>3 DEF AtHand
<1>4. QED
  BY <1>1, <1>2, <1>3

LEMMA InformedStep == Inv /\ Informed /\ [Next]_vars => Informed'
<1> SUFFICES ASSUME Inv, Informed, [Next]_vars PROVE Informed'
  OBVIOUS
<1>1. TypeOK
  BY DEF Inv
<1>2. ASSUME NEW c \in copies, Lock(c) PROVE Informed'
  <2> DEFINE d == [c EXCEPT !.locked = ~@]
             near == {w \in Worker : c.n \in AtHand(w)}
  <2>1. d.n = c.n /\ d.locked = ~c.locked
    BY <1>1, CopyRelocked DEF TypeOK
  <2>2. /\ copies' = (copies \ {c}) \cup {d} /\ job' = job
        /\ raced' = IF c.locked THEN raced \ near ELSE raced \cup near
    BY <1>2 DEF Lock
  <2>3. \A w \in Worker : AtHand(w)' = AtHand(w)
    BY <2>2 DEF AtHand, Oldest
  <2>4. \A e \in copies \ {c} : e.n # c.n
    BY <1>1 DEF TypeOK
  <2> SUFFICES ASSUME NEW w \in Worker, NEW e \in copies', e.locked, e.n \in AtHand(w)
               PROVE  w \in raced'
    BY <2>3 DEF Informed
  <2>5. CASE e = d
    <3>1. ~c.locked /\ w \in near
      BY <2>1, <2>5
    <3> HIDE DEF near
    <3>2. QED
      BY <2>2, <3>1
  <2>6. CASE e # d
    <3>1. e \in copies \ {c} /\ w \in raced
      BY <2>2, <2>6 DEF Informed
    <3>2. e.n # c.n
      BY <2>4, <3>1
    <3>3. CASE c.n \in AtHand(w)
      <4>1. \A m, n \in AtHand(w) : m = n
        BY OneAtHand
      <4>2. c.n \in AtHand(w) /\ e.n \in AtHand(w)
        BY <3>3
      <4>3. QED
        BY <3>2, <4>1, <4>2
    <3>4. CASE c.n \notin AtHand(w)
      BY <2>2, <3>1, <3>4
    <3>5. QED
      BY <3>3, <3>4
  <2>7. QED
    BY <2>5, <2>6
<1>3. ASSUME UNCHANGED <<copies, job, raced>> PROVE Informed'
  BY <1>3 DEF Informed, AtHand, Oldest
<1>4. ASSUME NEW w \in Worker, \A v \in Worker \ {w} : job'[v] = job[v],
             \A c \in copies' : c \in copies \/ ~c.locked, raced \ {w} \subseteq raced',
             job'[w].pc \notin {"finish", "remove"}
      PROVE  Informed'
  BY <1>4, NothingAtHand, WorkerInformed
<1>5. ASSUME NEW w \in Worker, \/ CopyByHand(w) \/ \E c \in copies : DeleteByHand(w, c)
                               \/ \E t \in Task : RunNow(w, t) \/ Begin(w, t)
                               \/ Tick(w) \/ Claim(w) \/ Crash(w)
      PROVE  Informed'
  <2>1. /\ \A v \in Worker \ {w} : job'[v] = job[v]
        /\ copies' = copies /\ raced \ {w} \subseteq raced'
    BY <1>1, <1>5 DEF CopyByHand, DeleteByHand, RunNow, Begin, Tick, Claim, Crash, TypeOK
  <2>2. job'[w].pc \notin {"finish", "remove"}
    <3>1. CASE CopyByHand(w) \/ \E t \in Task : RunNow(w, t)
      BY <1>1, <3>1, CopyingType DEF CopyByHand, RunNow, TypeOK
    <3>2. CASE \E c \in copies : DeleteByHand(w, c)
      BY <1>1, <3>2, DeletingType DEF DeleteByHand, TypeOK
    <3>3. CASE Tick(w)
      BY <1>1, <3>3, RoundType, BackupAssumption DEF Tick, TypeOK, Round
    <3>4. CASE Claim(w) \/ Crash(w) \/ \E t \in Task : Begin(w, t)
      <4>1. job[w] \in Job
        BY <1>1, <3>4, IdleOrJob DEF Claim, Crash, Begin
      <4>2. CASE Claim(w) \/ Crash(w)
        BY <1>1, <4>1, <4>2 DEF Claim, Crash, TypeOK, Job, Idle
      <4>3. CASE \E t \in Task : Begin(w, t)
        BY <1>1, <4>1, <4>3 DEF Begin, TypeOK, Job
      <4>4. QED
        BY <3>4, <4>2, <4>3
    <3>5. QED
      BY <1>5, <3>1, <3>2, <3>3, <3>4
  <2>3. QED
    BY <1>4, <2>1, <2>2
<1>6. ASSUME NEW w \in Worker, Create(w) PROVE Informed'
  <2>1. job[w] \in Job
    BY <1>1, <1>6, IdleOrJob DEF Create
  <2>2. CASE Proceed(w) /\ copies' = copies
    BY <1>1, <1>4, <1>6, <2>1, <2>2, ProceedIs DEF Create
  <2>3. CASE /\ next <= MaxCopies /\ \E o \in Outcome : Appears(job[w], o)
             /\ job' = [job EXCEPT ![w].pc = "finish", ![w].made = next]
    <3>1. PICK o \in Outcome : Appears(job[w], o)
      BY <2>3
    <3>2. /\ job'[w].pc = "finish" /\ job'[w].made = next
          /\ \A v \in Worker \ {w} : job'[v] = job[v]
      BY <1>1, <2>1, <2>3 DEF TypeOK, Job
    <3>3. AtHand(w)' = {next}
      BY <3>2 DEF AtHand
    <3>4. \A c \in copies' : c \in copies \/ ~c.locked
      BY <3>1 DEF Appears
    <3>5. next \in Nat /\ \A c \in copies : c.n # next
      BY <1>1 DEF TypeOK
    <3>6. raced' = raced
      BY <1>6 DEF Create
    <3>7. QED
      BY <3>2, <3>3, <3>4, <3>5, <3>6, WorkerInformed
  <2>4. QED
    BY <1>6, <2>2, <2>3 DEF Create
<1>7. ASSUME NEW w \in Worker, Finish(w) PROVE Informed'
  <2>1. job[w] \in Job
    BY <1>1, <1>7, IdleOrJob DEF Finish
  <2>2. copies' \subseteq copies /\ raced' = raced \ {w}
    BY <1>7 DEF Finish
  <2>3. CASE Proceed(w)
    BY <1>1, <1>4, <2>1, <2>2, <2>3, ProceedIs
  <2>4. CASE job' = [job EXCEPT ![w].pc = "list", ![w].made = 0]
    <3>1. job'[w].pc = "list" /\ \A v \in Worker \ {w} : job'[v] = job[v]
      BY <1>1, <2>1, <2>4 DEF TypeOK, Job
    <3>2. QED
      BY <1>4, <2>2, <3>1
  <2>5. QED
    BY <1>7, <2>3, <2>4 DEF Finish
<1>8. ASSUME NEW w \in Worker, List(w) PROVE Informed'
  <2>1. job[w] \in Job
    BY <1>1, <1>8, IdleOrJob DEF List
  <2>2. \A v \in Worker \ {w} : job'[v] = job[v]
    BY <1>1, <1>8, <2>1, ProceedIs DEF List, TypeOK
  <2>3. job'[w].pc \notin {"finish", "remove"}
    <3>1. CASE Proceed(w)
      BY <1>1, <2>1, <3>1, ProceedIs
    <3>2. CASE \E doomed : job' = [job EXCEPT ![w].pc = "delete", ![w].doomed = doomed]
      BY <1>1, <2>1, <3>2 DEF TypeOK, Job
    <3>3. QED
      BY <1>8, <3>1, <3>2 DEF List
  <2>4. QED
    BY <1>4, <1>8, <2>2, <2>3 DEF List
<1>9. ASSUME NEW w \in Worker, Examine(w) PROVE Informed'
  <2>1. job[w] \in Job /\ Removing(w) /\ UNCHANGED <<copies, raced>>
    BY <1>1, <1>9, IdleOrJob DEF Examine, Removing
  <2>2. CASE Dealt(w)
    BY <1>4, <2>1, <2>2, DealtIs
  <2>3. CASE /\ Found(Oldest(job[w])) # {}
             /\ job' = [job EXCEPT ![w].pc = "remove"]
    <3>1. /\ job'[w].pc = "remove" /\ job'[w].doomed = job[w].doomed
          /\ \A v \in Worker \ {w} : job'[v] = job[v]
      BY <1>1, <2>1, <2>3 DEF TypeOK, Job
    <3>2. AtHand(w)' = {Oldest(job[w])}
      BY <3>1 DEF AtHand, Oldest
    <3>3. PICK f \in copies : f.n = Oldest(job[w]) /\ ~f.locked
      BY <2>3 DEF Found
    <3>4. \A c \in copies : c.n = Oldest(job[w]) => c = f
      BY <1>1, <3>3 DEF TypeOK
    <3>5. QED
      BY <2>1, <3>1, <3>2, <3>3, <3>4, WorkerInformed
  <2>4. QED
    BY <1>9, <2>2, <2>3 DEF Examine
<1>10. ASSUME NEW w \in Worker, Remove(w) PROVE Informed'
  <2>1. Removing(w) /\ copies' \subseteq copies /\ raced' = raced \ {w} /\ Dealt(w)
    BY <1>10 DEF Remove, Removing
  <2>2. QED
    BY <1>4, <2>1, DealtIs
<1>11. QED
  BY <1>2, <1>3, <1>5, <1>6, <1>7, <1>8, <1>9, <1>10
  DEF Next, Work, vars, SetPolicy, Clock, Expire

\* What is called a copy and to whom it belongs is not changed by a lock, and a step takes away
\* only what a worker has at hand.
Stays(c) == \E d \in copies' : d.n = c.n /\ d.task = c.task /\ d.ok = c.ok

LEMMA CopiesStay ==
    ASSUME Inv, [Next]_vars, NEW c \in copies
    PROVE  Stays(c) \/ \E w \in Worker : (Finish(w) \/ Remove(w)) /\ c.n \in AtHand(w)
<1>1. ASSUME NEW d \in copies, Lock(d) PROVE Stays(c)
  <2> DEFINE e == [d EXCEPT !.locked = ~@]
  <2>1. e.n = d.n /\ e.task = d.task /\ e.ok = d.ok
    BY CopyRelocked DEF Inv, TypeOK
  <2>2. copies' = (copies \ {d}) \cup {e}
    BY <1>1 DEF Lock
  <2>3. QED
    BY <2>1, <2>2 DEF Stays
<1>2. CASE copies \subseteq copies'
  BY <1>2 DEF Stays
<1>3. ASSUME NEW w \in Worker, Finish(w) PROVE c \in copies' \/ c.n \in AtHand(w)
  BY <1>3 DEF Finish, AtHand
<1>4. ASSUME NEW w \in Worker, Remove(w) PROVE c \in copies' \/ c.n \in AtHand(w)
  BY <1>4 DEF Remove, AtHand
<1>5. ASSUME NEW w \in Worker, Create(w) PROVE copies \subseteq copies'
  BY <1>5 DEF Create, Appears
<1>6. QED
  BY <1>1, <1>2, <1>3, <1>4, <1>5 DEF Stays, Next, Work, vars, CopyByHand, DeleteByHand,
     SetPolicy, Clock, Expire, Tick, Claim, Begin, List, Examine, Crash, RunNow

\* A lock that was there when delete_backup() asked for it, or was put on a finished copy before
\* anybody asked, holds: for any number of workers, copies and failures no pruning, however long
\* before it chose the copy, and nobody by hand removes it.
THEOREM LocksHold == Spec => LockHolds
<1> DEFINE Held == \A c \in copies : c.locked /\ (\A w \in raced : c.n \notin AtHand(w))
                                       => \E d \in copies' : d.n = c.n
<1>1. Init => Informed
  BY DEF Init, Informed
<1>2. Inv /\ Informed /\ [Next]_vars => Held
  BY CopiesStay DEF Informed, Stays
<1>3. QED
  BY <1>1, <1>2, Invariance, InformedStep, PTL DEF Spec, LockHolds

\* In every state a pruning under any rules would spare the newest copy of every task.
THEOREM NewestIsKept == Spec => []NewestKept
<1>1. Inv => NewestKept
  <2> SUFFICES ASSUME Inv, NEW t \in Task, NEW q \in Policies,
                      Autos(t) # {}, ~Squeezed(Autos(t), q)
               PROVE  Newest(Autos(t)) \notin Prune(Autos(t), q)
    BY DEF NewestKept
  <2>1. q \in Policy /\ Copies(Autos(t))
    BY BackupAssumption, AutosAreCopies
  <2>2. q.budget = 0 \/ \A c \in Autos(t) : ~c.locked
    BY <2>1 DEF Squeezed, Policy
  <2>3. QED
    BY <2>1, <2>2, PruneSparesNewest
<1>2. QED
  BY <1>1, Invariance, PTL

\* In every state what a pruning would leave, the next one would leave.
THEOREM RetentionSettles == Spec => []PruneSettles
<1>1. Inv => PruneSettles
  <2> SUFFICES ASSUME Inv, NEW t \in Task, NEW q \in Policies,
                      ~Squeezed(Autos(t), q), ~Rescued(Autos(t), q)
               PROVE  Prune(Autos(t) \ Prune(Autos(t), q), q) = {}
    BY DEF PruneSettles
  <2>1. q \in Policy /\ Copies(Autos(t))
    BY BackupAssumption, AutosAreCopies
  <2>2. q.budget = 0 \/ \A c \in Autos(t) : ~c.locked
    BY <2>1 DEF Squeezed, Policy
  <2>3. QED
    BY <2>1, <2>2, PruningSettles
<1>2. QED
  BY <1>1, Invariance, PTL

(***************************************************************************)
(* The last good copy.  Every task that has had a good copy has a finished  *)
(* one, and every pruning under way spares one: no other pruning of the     *)
(* task can be deleting it, and no failing copy can take it back.           *)
(***************************************************************************)
Prunes(w)   == Removing(w) /\ job[w].task \in Task
Finished(c) == \A v \in Worker : Half(v) => job[v].made # c.n
Sound(t, D) == \E c \in copies : c.task = t /\ c.ok /\ c.n \notin D /\ Finished(c)

Sparing(w) ==
    Prunes(w) =>
        /\ \A c \in copies : c.n \in job[w].doomed => c.task = job[w].task
        /\ job[w].task \in good => Sound(job[w].task, job[w].doomed)
        /\ \A v \in Worker : Half(v) /\ job[v].task = job[w].task
                                => job[v].made \notin job[w].doomed

OwnCopy(w) == Half(w) => \A c \in copies : c.n = job[w].made => c.task = job[w].task

Apart(v, w) ==
    /\ Half(v) /\ Half(w) /\ job[v].made = job[w].made => v = w
    /\ Prunes(v) /\ Prunes(w) /\ job[v].task = job[w].task => v = w

GoodInv ==
    /\ \A t \in good : Sound(t, {})
    /\ \A w \in Worker : Sparing(w) /\ OwnCopy(w)
    /\ \A v, w \in Worker : Apart(v, w)

\* A step that begins no pruning and no copy, gives no task its first good copy, and takes away
\* no finished copy of a good task but one that is doomed.
LEMMA Framed ==
    ASSUME GoodInv,
           \A v \in Worker : Prunes(v)' =>
               Prunes(v) /\ job'[v].task = job[v].task /\ job'[v].doomed \subseteq job[v].doomed,
           \A v \in Worker : Half(v)' =>
               Half(v) /\ job'[v].task = job[v].task /\ job'[v].made = job[v].made,
           good' \subseteq good,
           \A d \in copies' : \E c \in copies : c.n = d.n /\ c.task = d.task,
           \A c \in copies : Finished(c) /\ c.task \in good' =>
               \/ Stays(c)
               \/ \E w \in Worker :
                     Prunes(w) /\ c.task = job[w].task /\ c.n \in job[w].doomed
    PROVE  GoodInv'
<1>1. ASSUME NEW c \in copies, Finished(c), Stays(c), c.ok, NEW D, c.n \notin D
      PROVE  \E d \in copies' : d.task = c.task /\ d.ok /\ d.n \notin D /\ Finished(d)'
  <2>1. PICK d \in copies' : d.n = c.n /\ d.task = c.task /\ d.ok = c.ok
    BY <1>1 DEF Stays
  <2>2. Finished(d)'
    BY <1>1, <2>1 DEF Finished
  <2>3. QED
    BY <1>1, <2>1, <2>2
<1>2. ASSUME NEW w \in Worker, Prunes(w), NEW t, job[w].task = t, t \in good',
             NEW D, D \subseteq job[w].doomed
      PROVE  \E d \in copies' : d.task = t /\ d.ok /\ d.n \notin D /\ Finished(d)'
  <2>1. PICK c \in copies : c.task = t /\ c.ok /\ c.n \notin job[w].doomed /\ Finished(c)
    BY <1>2 DEF GoodInv, Sparing, Sound
  <2>2. Stays(c)
    BY <1>2, <2>1 DEF GoodInv, Apart
  <2>3. QED
    BY <1>1, <1>2, <2>1, <2>2
<1>3. ASSUME NEW t \in good' PROVE Sound(t, {})'
  <2>1. CASE \E w \in Worker : Prunes(w) /\ job[w].task = t
    <3> DEFINE none == {}
    <3>1. \A n, D : n \notin none /\ none \subseteq D
      OBVIOUS
    <3> HIDE DEF none
    <3>2. \E d \in copies' : d.task = t /\ d.ok /\ d.n \notin none /\ Finished(d)'
      BY <1>2, <1>3, <2>1, <3>1
    <3>3. QED
      BY <3>2 DEF Sound
  <2>2. CASE \A w \in Worker : Prunes(w) => job[w].task # t
    <3>1. PICK c \in copies : c.task = t /\ c.ok /\ Finished(c)
      BY <1>3 DEF GoodInv, Sound
    <3>2. Stays(c)
      BY <1>3, <2>2, <3>1
    <3> DEFINE none == {}
    <3>3. \A n : n \notin none
      OBVIOUS
    <3> HIDE DEF none
    <3>4. \E d \in copies' : d.task = t /\ d.ok /\ d.n \notin none /\ Finished(d)'
      BY <1>1, <3>1, <3>2, <3>3
    <3>5. QED
      BY <3>4 DEF Sound
  <2>3. QED
    BY <2>1, <2>2
<1>4. ASSUME NEW w \in Worker PROVE Sparing(w)'
  <2> SUFFICES ASSUME Prunes(w)'
               PROVE  /\ \A c \in copies' : c.n \in job'[w].doomed => c.task = job'[w].task
                      /\ job'[w].task \in good' => Sound(job[w].task, job[w].doomed)'
                      /\ \A v \in Worker : Half(v)' /\ job'[v].task = job'[w].task
                                              => job'[v].made \notin job'[w].doomed
    BY DEF Sparing
  <2>1. /\ Prunes(w) /\ job'[w].task = job[w].task /\ job'[w].doomed \subseteq job[w].doomed
        /\ Sparing(w)
    BY DEF GoodInv
  <2>2. \A c \in copies' : c.n \in job'[w].doomed => c.task = job'[w].task
    BY <2>1 DEF Sparing
  <2>3. job'[w].task \in good' => Sound(job[w].task, job[w].doomed)'
    <3>1. ASSUME job'[w].task \in good'
          PROVE  \E d \in copies' : d.task = job'[w].task /\ d.ok /\ d.n \notin job'[w].doomed
                                     /\ Finished(d)'
      BY <1>2, <2>1, <3>1
    <3>2. QED
      BY <3>1 DEF Sound
  <2>4. \A v \in Worker : Half(v)' /\ job'[v].task = job'[w].task
                             => job'[v].made \notin job'[w].doomed
    BY <2>1 DEF Sparing
  <2>5. QED
    BY <2>2, <2>3, <2>4
<1>5. ASSUME NEW w \in Worker PROVE OwnCopy(w)'
  BY <1>5 DEF GoodInv, OwnCopy
<1>6. ASSUME NEW v \in Worker, NEW w \in Worker PROVE Apart(v, w)'
  BY <1>6 DEF GoodInv, Apart
<1>7. QED
  BY <1>3, <1>4, <1>5, <1>6 DEF GoodInv

\* Such a step of worker w.
LEMMA WorkerFramed ==
    ASSUME GoodInv, NEW w \in Worker, \A v \in Worker \ {w} : job'[v] = job[v],
           ~Half(w)',
           Prunes(w)' => Prunes(w) /\ job'[w].task = job[w].task
                           /\ job'[w].doomed \subseteq job[w].doomed,
           good' \subseteq good, copies' \subseteq copies,
           \A c \in copies : Finished(c) /\ c.task \in good' =>
               c \in copies' \/ (Prunes(w) /\ c.task = job[w].task /\ c.n \in job[w].doomed)
    PROVE  GoodInv'
<1>1. \A v \in Worker \ {w} : (Prunes(v)' <=> Prunes(v)) /\ (Half(v)' <=> Half(v))
  BY DEF Prunes, Removing, Half
<1>2. \A v \in Worker : Prunes(v)' =>
          Prunes(v) /\ job'[v].task = job[v].task /\ job'[v].doomed \subseteq job[v].doomed
  BY <1>1
<1>3. \A v \in Worker : Half(v)' =>
          Half(v) /\ job'[v].task = job[v].task /\ job'[v].made = job[v].made
  BY <1>1
<1>4. QED
  BY <1>2, <1>3, Framed DEF Stays

LEMMA CreateGood == ASSUME Inv, GoodInv, NEW w \in Worker, Create(w) PROVE GoodInv'
<1>1. TypeOK /\ job[w] \in Job /\ good' = good
  BY IdleOrJob DEF Inv, Create
<1>2. CASE Proceed(w) /\ copies' = copies
  <2>1. \A v \in Worker \ {w} : job'[v] = job[v]
    BY <1>1, <1>2, ProceedIs
  <2>2. ~Half(w)' /\ ~Prunes(w)'
    BY <1>1, <1>2, ProceedIs DEF Half, Prunes, Removing
  <2>3. QED
    BY <1>1, <1>2, <2>1, <2>2, WorkerFramed
<1>3. CASE /\ next <= MaxCopies /\ \E o \in Outcome : Appears(job[w], o)
           /\ job' = [job EXCEPT ![w].pc = "finish", ![w].made = next]
  <2>1. PICK c : c.n = next /\ c.task = job[w].task /\ copies' = copies \cup {c}
    BY <1>3 DEF Appears
  <2>2. /\ job'[w].pc = "finish" /\ job'[w].made = next /\ job'[w].task = job[w].task
        /\ \A v \in Worker \ {w} : job'[v] = job[v]
    BY <1>1, <1>3 DEF TypeOK, Job
  <2>3. /\ ~Prunes(w)' /\ Half(w)' /\ ~Prunes(w) /\ ~Half(w)
        /\ \A v \in Worker \ {w} : (Prunes(v)' <=> Prunes(v)) /\ (Half(v)' <=> Half(v))
    BY <1>1, <2>2 DEF Prunes, Removing, Half, Create
  <2>4. next \in Nat /\ \A d \in copies : d.n < next /\ d.n \in Nat
    BY <1>1 DEF TypeOK, Copy, Number
  <2>5. \A v \in Worker : Half(v) => job[v].made # next
    <3> SUFFICES ASSUME NEW v \in Worker, Half(v) PROVE job[v].made # next
      OBVIOUS
    <3>1. JobOK(v)
      BY DEF Inv
    <3>2. job[v].made \in Nat /\ job[v].made < next
      BY <3>1 DEF JobOK, Number
    <3>3. QED
      BY <2>4, <3>2
  <2>6. \A v \in Worker : Prunes(v) => next \notin job[v].doomed
    <3> SUFFICES ASSUME NEW v \in Worker, Prunes(v), next \in job[v].doomed PROVE FALSE
      OBVIOUS
    <3>1. JobOK(v)
      BY DEF Inv
    <3>2. next < next
      BY <3>1 DEF JobOK, Prunes
    <3>3. QED
      BY <2>4, <3>2
  <2>7. \A d \in copies : Finished(d) => Finished(d)'
    <3>1. \A d \in copies : d.n # next
      BY <2>4
    <3>2. QED
      BY <2>2, <2>3, <3>1 DEF Finished
  <2>8. ASSUME NEW t, NEW D, Sound(t, D)
        PROVE  \E d \in copies' : d.task = t /\ d.ok /\ d.n \notin D /\ Finished(d)'
    BY <2>1, <2>7, <2>8 DEF Sound
  <2>9. \A t \in good' : Sound(t, {})'
    <3>1. \A t \in good' : \E d \in copies' : d.task = t /\ d.ok /\ d.n \notin {} /\ Finished(d)'
      BY <1>1, <2>8 DEF GoodInv
    <3>2. QED
      BY <3>1 DEF Sound
  <2>10. ASSUME NEW v \in Worker PROVE Sparing(v)'
    <3> SUFFICES ASSUME Prunes(v)'
                 PROVE  /\ \A d \in copies' : d.n \in job'[v].doomed => d.task = job'[v].task
                        /\ job'[v].task \in good' => Sound(job[v].task, job[v].doomed)'
                        /\ \A u \in Worker : Half(u)' /\ job'[u].task = job'[v].task
                                                => job'[u].made \notin job'[v].doomed
      BY <2>2, <2>3 DEF Sparing
    <3>1. v # w /\ Prunes(v) /\ job'[v] = job[v] /\ next \notin job[v].doomed
      BY <2>2, <2>3, <2>6
    <3>0. Sparing(v)
      BY DEF GoodInv
    <3>2. \A d \in copies' : d.n \in job'[v].doomed => d.task = job'[v].task
      BY <2>1, <3>0, <3>1 DEF Sparing
    <3>3. job'[v].task \in good' => Sound(job[v].task, job[v].doomed)'
      <4>1. ASSUME job'[v].task \in good'
            PROVE  \E d \in copies' : d.task = job'[v].task /\ d.ok
                                       /\ d.n \notin job'[v].doomed /\ Finished(d)'
        BY <1>1, <2>8, <3>0, <3>1, <4>1 DEF Sparing
      <4>2. QED
        BY <4>1 DEF Sound
    <3>4. \A u \in Worker : Half(u)' /\ job'[u].task = job'[v].task
                               => job'[u].made \notin job'[v].doomed
      BY <2>2, <2>3, <3>0, <3>1 DEF Sparing
    <3>5. QED
      BY <3>2, <3>3, <3>4
  <2>11. ASSUME NEW v \in Worker PROVE OwnCopy(v)'
    <3>1. CASE v = w
      <4>1. \A d \in copies : d.n # next
        BY <2>4
      <4>2. QED
        BY <2>1, <2>2, <3>1, <4>1 DEF OwnCopy
    <3>2. CASE v # w
      BY <2>1, <2>2, <2>3, <2>5, <3>2 DEF OwnCopy, GoodInv
    <3>3. QED
      BY <3>1, <3>2
  <2>12. ASSUME NEW u \in Worker, NEW v \in Worker PROVE Apart(u, v)'
    <3>1. Apart(u, v)
      BY DEF GoodInv
    <3>2. QED
      BY <2>2, <2>3, <2>5, <3>1 DEF Apart
  <2>13. QED
    BY <2>9, <2>10, <2>11, <2>12 DEF GoodInv
<1>4. QED
  BY <1>2, <1>3 DEF Create

LEMMA FinishGood == ASSUME Inv, GoodInv, NEW w \in Worker, Finish(w) PROVE GoodInv'
<1> DEFINE it == {c \in copies : c.n = job[w].made}
<1>1. TypeOK /\ job[w] \in Job /\ Half(w) /\ copies' \subseteq copies
  BY IdleOrJob DEF Inv, Finish, Half
<1>2. \A v \in Worker \ {w} : job'[v] = job[v]
  <2>1. CASE Proceed(w)
    BY <1>1, <2>1, ProceedIs
  <2>2. CASE job' = [job EXCEPT ![w].pc = "list", ![w].made = 0]
    BY <1>1, <2>2 DEF TypeOK
  <2>3. QED
    BY <2>1, <2>2 DEF Finish
<1>3. ~Half(w)' /\ ~Prunes(w)' /\ ~Prunes(w)
  <2>1. CASE Proceed(w)
    BY <1>1, <2>1, ProceedIs DEF Half, Prunes, Removing
  <2>2. CASE job' = [job EXCEPT ![w].pc = "list", ![w].made = 0]
    <3>1. job'[w].pc = "list"
      BY <1>1, <2>2 DEF TypeOK, Job
    <3>2. QED
      BY <1>1, <3>1 DEF Half, Prunes, Removing
  <2>3. QED
    BY <1>1, <2>1, <2>2 DEF Finish
<1>4. CASE good' = good /\ copies' \in {copies, copies \ it}
  <2>1. \A c \in copies : Finished(c) => c \in copies'
    BY <1>1, <1>4 DEF Finished
  <2>2. QED
    BY <1>1, <1>2, <1>3, <1>4, <2>1, WorkerFramed
<1>5. CASE copies' = copies /\ good' = (good \cup {c.task : c \in Good(it)}) \ {None}
  <2>1. \A v \in Worker \ {w} : (Prunes(v)' <=> Prunes(v)) /\ (Half(v)' <=> Half(v))
    BY <1>2 DEF Prunes, Removing, Half
  <2>2. \A c \in copies : Finished(c) \/ c \in it => Finished(c)'
    <3> SUFFICES ASSUME NEW c \in copies, Finished(c) \/ c \in it,
                        NEW v \in Worker, Half(v)'
                 PROVE  job'[v].made # c.n
      BY DEF Finished
    <3>1. v # w /\ Half(v) /\ job'[v] = job[v]
      BY <1>2, <1>3, <2>1
    <3>2. Apart(v, w)
      BY DEF GoodInv
    <3>3. QED
      BY <1>1, <3>1, <3>2 DEF Apart, Finished
  <2>3. ASSUME NEW t, NEW D,
               \E c \in copies :
                  c.task = t /\ c.ok /\ c.n \notin D /\ (Finished(c) \/ c \in it)
        PROVE  \E d \in copies' : d.task = t /\ d.ok /\ d.n \notin D /\ Finished(d)'
    <3>1. PICK c \in copies : c.task = t /\ c.ok /\ c.n \notin D /\ (Finished(c) \/ c \in it)
      BY <2>3
    <3>2. Finished(c)' /\ c \in copies'
      BY <1>5, <2>2, <3>1
    <3>3. QED
      BY <3>1, <3>2
  <2>4. ASSUME NEW t \in good'
        PROVE  t \in good \/ \E c \in it : c.task = t /\ c.ok
    BY <1>5, <2>4 DEF Good
  <2>5. ASSUME NEW t \in good' PROVE Sound(t, {})'
    <3> DEFINE none == {}
    <3>1. \A n : n \notin none
      OBVIOUS
    <3>2. t \in good => \E c \in copies : c.task = t /\ c.ok /\ c.n \notin none /\ Finished(c)
      BY DEF GoodInv, Sound
    <3> HIDE DEF none, it
    <3>3. it \subseteq copies
      BY DEF it
    <3>4. \E d \in copies' : d.task = t /\ d.ok /\ d.n \notin none /\ Finished(d)'
      BY <2>3, <2>4, <2>5, <3>1, <3>2, <3>3
    <3>5. QED
      BY <3>4 DEF Sound, none
  <2>6. ASSUME NEW v \in Worker PROVE Sparing(v)'
    <3> SUFFICES ASSUME Prunes(v)'
                 PROVE  /\ \A d \in copies' : d.n \in job'[v].doomed => d.task = job'[v].task
                        /\ job'[v].task \in good' => Sound(job[v].task, job[v].doomed)'
                        /\ \A u \in Worker : Half(u)' /\ job'[u].task = job'[v].task
                                                => job'[u].made \notin job'[v].doomed
      BY DEF Sparing
    <3>1. v # w /\ Prunes(v) /\ job'[v] = job[v] /\ Sparing(v)
      BY <1>2, <1>3, <2>1 DEF GoodInv
    <3>2. \A d \in copies' : d.n \in job'[v].doomed => d.task = job'[v].task
      BY <1>5, <3>1 DEF Sparing
    <3>3. job'[v].task \in good' => Sound(job[v].task, job[v].doomed)'
      <4>1. SUFFICES ASSUME job[v].task \in good'
                     PROVE  \E d \in copies' : d.task = job[v].task /\ d.ok
                                 /\ d.n \notin job[v].doomed /\ Finished(d)'
        BY <3>1 DEF Sound
      <4>2. CASE job[v].task \in good
        <5>1. \E c \in copies : c.task = job[v].task /\ c.ok /\ c.n \notin job[v].doomed
                                 /\ Finished(c)
          BY <3>1, <4>2 DEF Sparing, Sound
        <5>2. QED
          BY <2>3, <5>1
      <4>3. CASE job[v].task \notin good
        <5>1. PICK c \in it : c.task = job[v].task /\ c.ok
          BY <2>4, <4>1, <4>3
        <5>2. OwnCopy(w)
          BY DEF GoodInv
        <5>3. c \in copies /\ c.n = job[w].made /\ job[w].task = job[v].task
          BY <1>1, <5>1, <5>2 DEF OwnCopy
        <5>4. c.n \notin job[v].doomed
          BY <1>1, <3>1, <5>3 DEF Sparing
        <5>5. QED
          BY <2>3, <5>1, <5>3, <5>4
      <4>4. QED
        BY <4>2, <4>3
    <3>4. \A u \in Worker : Half(u)' /\ job'[u].task = job'[v].task
                               => job'[u].made \notin job'[v].doomed
      BY <1>2, <1>3, <2>1, <3>1 DEF Sparing
    <3>5. QED
      BY <3>2, <3>3, <3>4
  <2>7. ASSUME NEW v \in Worker PROVE OwnCopy(v)'
    BY <1>2, <1>3, <1>5, <2>1 DEF OwnCopy, GoodInv
  <2>8. ASSUME NEW u \in Worker, NEW v \in Worker PROVE Apart(u, v)'
    <3>1. Apart(u, v)
      BY DEF GoodInv
    <3>2. QED
      BY <1>2, <1>3, <2>1, <3>1 DEF Apart
  <2>9. QED
    BY <2>5, <2>6, <2>7, <2>8 DEF GoodInv
<1>6. QED
  BY <1>4, <1>5 DEF Finish

\* A pruning begins while no other removes copies of the task, and none is unfinished.
LEMMA ListGood ==
    ASSUME Inv, GoodInv, NEW w \in Worker, List(w),
           "prunes" \in Excluded, "copies" \in Excluded
    PROVE  GoodInv'
<1> DEFINE t == job[w].task
           S == Autos(t)
           q == job[w].rules[t]
           doomed == {c.n : c \in Prune(S, q)}
<1>1. /\ TypeOK /\ job[w] \in Job /\ t \in Task /\ q \in Policy /\ job[w].pc = "list"
      /\ ~Half(w) /\ ~Prunes(w)
  <2>1. TypeOK /\ job[w] \in Job /\ job[w].pc = "list" /\ JobOK(w)
    BY IdleOrJob DEF Inv, List
  <2>2. t \in Task /\ job[w].rules \in [Task -> Policies]
    BY <2>1 DEF JobOK, Job
  <2>3. QED
    BY <2>1, <2>2, BackupAssumption DEF Half, Prunes, Removing
<1>2. UNCHANGED <<copies, good>>
  BY DEF List
<1>3. CASE Proceed(w)
  <2>1. \A v \in Worker \ {w} : job'[v] = job[v]
    BY <1>1, <1>3, ProceedIs
  <2>2. ~Half(w)' /\ ~Prunes(w)'
    BY <1>1, <1>3, ProceedIs DEF Half, Prunes, Removing
  <2>3. QED
    BY <1>1, <1>2, <2>1, <2>2, WorkerFramed
<1>4. CASE job' = [job EXCEPT ![w].pc = "delete", ![w].doomed = doomed]
  <2>1. \A v \in Worker : (Prunes(v) \/ Half(v)) => job[v].task # t
    BY <1>1 DEF List, Prunes, Removing, Half
  <2>2. S = {c \in copies : c.task = t} /\ doomed = {c.n : c \in Prune(S, q)}
        /\ Prune(S, q) \subseteq S
    BY DEF Autos, Prune
  <2>3. t \in good => \E c \in copies : c.task = t /\ c.ok /\ c.n \notin doomed
    <3> SUFFICES ASSUME t \in good
                 PROVE  \E c \in copies : c.task = t /\ c.ok /\ c.n \notin doomed
      OBVIOUS
    <3>1. \E c \in copies : c.task = t /\ c.ok
      BY DEF GoodInv, Sound
    <3>2. Good(S) # {} /\ Copies(S)
      BY <3>1, AutosAreCopies DEF Good, Autos
    <3>3. PICK c \in S \ Prune(S, q) : c.ok
      BY <1>1, <3>2, PruneSparesGood DEF Good
    <3>4. \A d \in copies : d.n = c.n => d = c
      BY <1>1, <2>2, <3>3 DEF TypeOK
    <3>5. c.n \notin doomed
      BY <2>2, <3>3, <3>4
    <3>6. QED
      BY <2>2, <3>3, <3>5
  <2>4. \A c \in copies : c.n \in doomed => c.task = t
    BY <1>1, <2>2 DEF TypeOK
  <2> HIDE DEF doomed, q, S
  <2>5. \A c \in copies : c.task = t => Finished(c)
    <3> SUFFICES ASSUME NEW c \in copies, c.task = t, NEW v \in Worker, Half(v)
                 PROVE  job[v].made # c.n
      BY DEF Finished
    <3>1. OwnCopy(v) /\ job[v].task # t
      BY <2>1 DEF GoodInv
    <3>2. QED
      BY <3>1 DEF OwnCopy
  <2>6. /\ job'[w].pc = "delete" /\ job'[w].doomed = doomed /\ job'[w].task = t
        /\ \A v \in Worker \ {w} : job'[v] = job[v]
    BY <1>1, <1>4 DEF TypeOK, Job
  <2>7. /\ ~Half(w)'
        /\ \A v \in Worker \ {w} : (Prunes(v)' <=> Prunes(v)) /\ (Half(v)' <=> Half(v))
    BY <2>6 DEF Prunes, Removing, Half
  <2>8. \A c \in copies : Finished(c) => Finished(c)'
    BY <2>6, <2>7 DEF Finished
  <2>9. ASSUME NEW k \in good' PROVE Sound(k, {})'
    <3>1. \E c \in copies' : c.task = k /\ c.ok /\ Finished(c)'
      BY <1>2, <2>8, <2>9 DEF GoodInv, Sound
    <3>2. QED
      BY <3>1 DEF Sound
  <2>10. ASSUME NEW v \in Worker PROVE Sparing(v)'
    <3>1. CASE v = w
      <4>1. t \in good' => \E c \in copies' : c.task = t /\ c.ok /\ c.n \notin doomed /\ Finished(c)'
        BY <1>2, <2>3, <2>5, <2>8
      <4>2. \A u \in Worker : Half(u)' => job'[u].task # t
        BY <2>1, <2>6, <2>7
      <4>3. QED
        BY <1>2, <2>4, <2>6, <3>1, <4>1, <4>2 DEF Sparing, Sound
    <3>2. CASE v # w
      <4> SUFFICES ASSUME Prunes(v)'
                   PROVE  /\ \A d \in copies' : d.n \in job'[v].doomed => d.task = job'[v].task
                          /\ job'[v].task \in good' => Sound(job[v].task, job[v].doomed)'
                          /\ \A u \in Worker : Half(u)' /\ job'[u].task = job'[v].task
                                                  => job'[u].made \notin job'[v].doomed
        BY DEF Sparing
      <4>1. Prunes(v) /\ job'[v] = job[v] /\ Sparing(v)
        BY <2>6, <2>7, <3>2 DEF GoodInv
      <4>2. job[v].task \in good => \E c \in copies : c.task = job[v].task /\ c.ok
                                      /\ c.n \notin job[v].doomed /\ Finished(c)
        BY <4>1 DEF Sparing, Sound
      <4>3. job'[v].task \in good' => Sound(job[v].task, job[v].doomed)'
        BY <1>2, <2>8, <4>1, <4>2 DEF Sound
      <4>4. \A d \in copies' : d.n \in job'[v].doomed => d.task = job'[v].task
        BY <1>2, <4>1 DEF Sparing
      <4>5. \A u \in Worker : Half(u)' /\ job'[u].task = job'[v].task
                                 => job'[u].made \notin job'[v].doomed
        BY <2>6, <2>7, <4>1 DEF Sparing
      <4>6. QED
        BY <4>3, <4>4, <4>5
    <3>3. QED
      BY <3>1, <3>2
  <2>11. ASSUME NEW v \in Worker PROVE OwnCopy(v)'
    BY <1>2, <2>6, <2>7 DEF OwnCopy, GoodInv
  <2>12. ASSUME NEW u \in Worker, NEW v \in Worker PROVE Apart(u, v)'
    <3>1. Apart(u, v)
      BY DEF GoodInv
    <3>2. Half(u)' /\ Half(v)' /\ job'[u].made = job'[v].made => u = v
      BY <2>6, <2>7, <3>1 DEF Apart
    <3>3. Prunes(u)' /\ Prunes(v)' /\ job'[u].task = job'[v].task => u = v
      BY <2>1, <2>6, <2>7, <3>1 DEF Apart
    <3>4. QED
      BY <3>2, <3>3 DEF Apart
  <2>13. QED
    BY <2>9, <2>10, <2>11, <2>12 DEF GoodInv
<1>5. QED
  BY <1>3, <1>4 DEF List

LEMMA RemovalGood ==
    ASSUME Inv, GoodInv, NEW w \in Worker, Examine(w) \/ Remove(w) PROVE GoodInv'
<1>1. TypeOK /\ job[w] \in Job /\ Removing(w) /\ ~Half(w)
  BY IdleOrJob DEF Inv, Examine, Remove, Removing, Half
<1>2. /\ \A v \in Worker \ {w} : job'[v] = job[v]
      /\ ~Half(w)'
      /\ Prunes(w)' => job'[w].task = job[w].task /\ job'[w].doomed \subseteq job[w].doomed
  <2>1. CASE Dealt(w)
    BY <1>1, <2>1, DealtIs DEF Half, Prunes, Removing
  <2>2. CASE job' = [job EXCEPT ![w].pc = "remove"]
    <3>1. /\ \A v \in Worker \ {w} : job'[v] = job[v]
          /\ job'[w].pc = "remove" /\ job'[w].task = job[w].task /\ job'[w].doomed = job[w].doomed
      BY <1>1, <2>2 DEF TypeOK, Job
    <3>2. QED
      BY <3>1 DEF Half
  <2>3. QED
    BY <2>1, <2>2 DEF Examine, Remove
<1>3. Prunes(w)' => Prunes(w)
  BY <1>1, <1>2 DEF Prunes
<1>4. good' \subseteq good /\ copies' \subseteq copies
  BY DEF Examine, Remove
<1>5. \A c \in copies : c.task \in good' =>
         c \in copies' \/ (Prunes(w) /\ c.task = job[w].task /\ c.n \in job[w].doomed)
  <2> SUFFICES ASSUME NEW c \in copies, c.task \in good', c \notin copies'
               PROVE  Prunes(w) /\ c.task = job[w].task /\ c.n \in job[w].doomed
    OBVIOUS
  <2>1. Remove(w) /\ c.n = Oldest(job[w])
    BY DEF Examine, Remove
  <2>2. c.n \in job[w].doomed
    BY <1>1, <2>1, OldestIsDoomed
  <2>3. job[w].task # None
    BY <2>1 DEF Remove
  <2>4. Prunes(w)
    BY <1>1, <2>3 DEF Prunes, Job
  <2>5. QED
    BY <2>2, <2>4 DEF GoodInv, Sparing
<1>6. QED
  BY <1>2, <1>3, <1>4, <1>5, WorkerFramed

LEMMA GoodStep ==
    ASSUME "prunes" \in Excluded, "copies" \in Excluded
    PROVE  Inv /\ GoodInv /\ [Next]_vars => GoodInv'
<1> SUFFICES ASSUME Inv, GoodInv, [Next]_vars PROVE GoodInv'
  OBVIOUS
<1>1. TypeOK
  BY DEF Inv
<1>2. ASSUME NEW c \in copies, Lock(c) PROVE GoodInv'
  <2> DEFINE d == [c EXCEPT !.locked = ~@]
  <2>1. d.n = c.n /\ d.task = c.task /\ d.ok = c.ok
    BY <1>1, CopyRelocked DEF TypeOK
  <2>2. copies' = (copies \ {c}) \cup {d} /\ job' = job /\ good' = good
    BY <1>2 DEF Lock
  <2> HIDE DEF d
  <2>3. /\ \A e \in copies : Stays(e)
        /\ \A f \in copies' : \E e \in copies : e.n = f.n /\ e.task = f.task
    BY <2>1, <2>2 DEF Stays
  <2>4. \A v \in Worker : (Prunes(v)' <=> Prunes(v)) /\ (Half(v)' <=> Half(v))
    BY <2>2 DEF Prunes, Removing, Half
  <2>5. QED
    BY <2>2, <2>3, <2>4, Framed
<1>3. ASSUME UNCHANGED <<copies, job, good>> PROVE GoodInv'
  BY <1>3 DEF GoodInv, Sparing, OwnCopy, Apart, Sound, Finished, Prunes, Removing, Half
<1>4. ASSUME NEW w \in Worker, \A v \in Worker \ {w} : job'[v] = job[v],
             UNCHANGED <<copies, good>>, ~Prunes(w)', ~Half(w)'
      PROVE  GoodInv'
  BY <1>4, WorkerFramed
<1>5. ASSUME NEW w \in Worker, \/ CopyByHand(w) \/ \E c \in copies : DeleteByHand(w, c)
                               \/ \E t \in Task : RunNow(w, t) \/ Begin(w, t)
                               \/ Tick(w) \/ Claim(w) \/ Crash(w)
      PROVE  GoodInv'
  <2>1. (\A v \in Worker \ {w} : job'[v] = job[v]) /\ UNCHANGED <<copies, good>>
    BY <1>1, <1>5 DEF CopyByHand, DeleteByHand, RunNow, Begin, Tick, Claim, Crash, TypeOK
  <2>2. ~Prunes(w)' /\ ~Half(w)'
    <3>1. CASE CopyByHand(w) \/ \E t \in Task : RunNow(w, t)
      <4>1. job'[w].pc = "create"
        BY <1>1, <3>1, CopyingType DEF CopyByHand, RunNow, TypeOK
      <4>2. QED
        BY <4>1 DEF Prunes, Removing, Half
    <3>2. CASE \E c \in copies : DeleteByHand(w, c)
      <4>1. job'[w].pc = "delete" /\ job'[w].task = None
        BY <1>1, <3>2, DeletingType DEF DeleteByHand, TypeOK
      <4>2. QED
        BY <4>1, BackupAssumption DEF Prunes, Half
    <3>3. CASE Tick(w)
      <4>1. job'[w].pc = "claim"
        BY <1>1, <3>3, RoundType, BackupAssumption DEF Tick, TypeOK, Round
      <4>2. QED
        BY <4>1 DEF Prunes, Removing, Half
    <3>4. CASE Claim(w) \/ Crash(w) \/ \E t \in Task : Begin(w, t)
      <4>1. job[w] \in Job
        BY <1>1, <3>4, IdleOrJob DEF Claim, Crash, Begin
      <4>2. CASE Claim(w) \/ Crash(w)
        <5>1. job'[w].pc \in {"idle", "round"}
          BY <1>1, <4>1, <4>2 DEF Claim, Crash, TypeOK, Job, Idle
        <5>2. QED
          BY <5>1 DEF Prunes, Removing, Half
      <4>3. CASE \E t \in Task : Begin(w, t)
        <5>1. job'[w].pc \in {"create", "list"}
          BY <1>1, <4>1, <4>3 DEF Begin, TypeOK, Job
        <5>2. QED
          BY <5>1 DEF Prunes, Removing, Half
      <4>4. QED
        BY <3>4, <4>2, <4>3
    <3>5. QED
      BY <1>5, <3>1, <3>2, <3>3, <3>4
  <2>3. QED
    BY <1>4, <2>1, <2>2
<1>6. ASSUME NEW w \in Worker, Create(w) \/ Finish(w) \/ List(w) \/ Examine(w) \/ Remove(w)
      PROVE  GoodInv'
  BY <1>6, CreateGood, FinishGood, ListGood, RemovalGood
<1>7. QED
  BY <1>2, <1>3, <1>5, <1>6 DEF Next, Work, vars, SetPolicy, Clock, Expire

\* The last good copy of a task is never lost, for any number of workers, tasks and copies and
\* any rules, although copies fail, locks come and go, archives appear before they are finished,
\* and whoever prunes decided on an older state of the folder: as long as no two prunings of the
\* task overlap, and none is decided while another copy of the task is unfinished.
THEOREM GoodCopiesStay ==
    ASSUME "prunes" \in Excluded, "copies" \in Excluded
    PROVE  Spec => []GoodCopyStays
<1>1. Init => GoodInv
  BY DEF Init, GoodInv, Sparing, OwnCopy, Apart, Prunes, Removing, Half, Idle
<1>2. GoodInv => GoodCopyStays
  BY DEF GoodInv, Sound, GoodCopyStays, Good, Autos
<1>3. QED
  BY <1>1, <1>2, Invariance, GoodStep, PTL DEF Spec

=============================================================================
