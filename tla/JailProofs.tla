----------------------------- MODULE JailProofs -----------------------------
(***************************************************************************)
(* Proofs about Jail, for any number of processes and threads, any ladder   *)
(* and any threshold: types and locks, what the copy of the jail may still  *)
(* say, and what a ban was earned with.                                     *)
(***************************************************************************)
EXTENDS Jail, FiniteSetTheorems, TLAPS

\* The part of TypeOK that is about one process's lock.
LockType ==
    /\ lock \in [Process -> Thread \cup {None}]
    /\ \A t \in Thread : op[t].pc \in Locked <=> lock[ProcessOf[t]] = t

LEMMA ThreadsOfProcesses == \A t \in Thread : ProcessOf[t] \in Process
BY ThreadAssumption

\* A step of thread t that leaves the lock where it was, takes it or gives it back.
LEMMA LockStep ==
    ASSUME TypeOK, NEW t \in Thread, op' \in [Thread -> Op],
           \A u \in Thread \ {t} : op'[u] = op[u],
           \/ UNCHANGED lock /\ (op[t].pc \in Locked <=> op'[t].pc \in Locked)
           \/ Release(t) /\ op[t].pc \in Locked /\ op'[t].pc \notin Locked
           \/ /\ lock[ProcessOf[t]] = None /\ op'[t].pc \in Locked
              /\ lock' = [lock EXCEPT ![ProcessOf[t]] = t]
    PROVE  LockType'
<1>1. ProcessOf[t] \in Process /\ None \notin Thread
  BY ThreadAssumption
<1>2. CASE UNCHANGED lock /\ (op[t].pc \in Locked <=> op'[t].pc \in Locked)
  BY <1>2 DEF TypeOK, LockType
<1>3. CASE Release(t) /\ op[t].pc \in Locked /\ op'[t].pc \notin Locked
  BY <1>1, <1>3, ThreadsOfProcesses DEF TypeOK, LockType, Release
<1>4. CASE /\ lock[ProcessOf[t]] = None /\ op'[t].pc \in Locked
           /\ lock' = [lock EXCEPT ![ProcessOf[t]] = t]
  BY <1>1, <1>4, ThreadsOfProcesses DEF TypeOK, LockType
<1>5. QED
  BY <1>2, <1>3, <1>4

\* A thread goes on with the same operation, or with another.
LEMMA OpStep ==
    ASSUME TypeOK, NEW t \in Thread, NEW o \in Op, op' = [op EXCEPT ![t] = o]
    PROVE  op' \in [Thread -> Op] /\ op'[t] = o /\ \A u \in Thread \ {t} : op'[u] = op[u]
BY DEF TypeOK

LEMMA IdleType == Idle \in Op /\ Idle.pc \notin Locked /\ Idle.kind = "none" /\ Idle.pc = "idle"
BY SizeAssumption DEF Idle, Op, Locked, Time

LEMMA LeaveStep ==
    ASSUME TypeOK, NEW t \in Thread, Leave(t)
    PROVE  op' \in [Thread -> Op] /\ op'[t] = Idle /\ \A u \in Thread \ {t} : op'[u] = op[u]
BY IdleType, OpStep DEF Leave

\* The end of a term is a time, or never.
LEMMA TermType ==
    ASSUME NEW level \in Nat \ {0}, NEW time \in Nat
    PROVE  /\ Term(level, time) \in {Forever} \cup Nat
           /\ PermanentAfter \in 1 .. level - 1 => Term(level, time) = Forever
<1> DEFINE i == IF level < Len(Durations) THEN level ELSE Len(Durations)
<1>1. i \in 1 .. Len(Durations)
  BY SizeAssumption
<1>2. Durations[i] \in Nat
  BY <1>1, SizeAssumption
<1>3. time + Durations[i] \in Nat
  BY <1>2
<1>4. QED
  BY <1>3, SizeAssumption DEF Term

LEMMA ReplacedType ==
    ASSUME TypeOK, NEW row, Replaced(row)
    PROVE  /\ lifted' \in Nat \cup {Stale}
           /\ lifted <= now => lifted' <= now /\ lifted <= lifted'
           /\ ban # None => \/ InForce(ban, now) /\ lifted' = now
                            \/ ~InForce(ban, now) /\ ban.until \in Nat /\ ban.until <= lifted'
<1>1. now \in Nat /\ lifted \in Int /\ Stale \in Int
  BY SizeAssumption DEF TypeOK, Time, Stale
<1>2. CASE ban = None
  BY <1>1, <1>2 DEF Replaced, TypeOK
<1>3. CASE ban # None /\ InForce(ban, now)
  BY <1>1, <1>3 DEF Replaced
<1>4. CASE ban # None /\ ~InForce(ban, now)
  <2>1. ban.until \in Nat /\ ban.until <= now
    BY <1>1, <1>4 DEF InForce
  <2>2. lifted' = IF ban.until > lifted THEN ban.until ELSE lifted
    BY <1>4 DEF Replaced
  <2>3. QED
    BY <1>1, <1>4, <2>1, <2>2 DEF TypeOK
<1>5. QED
  BY <1>2, <1>3, <1>4

LEMMA TypeInit == Init => TypeOK
<1> SUFFICES ASSUME Init PROVE TypeOK
  OBVIOUS
<1>1. now \in Time /\ events \in 0 .. MaxEvents /\ hits \in Seq(Time)
  <2>1. 0 \in Time
    BY SizeAssumption DEF Time
  <2>2. << >> \in Seq(Time)
    OBVIOUS
  <2>3. ASSUME NEW n \in Nat PROVE [k \in 1 .. n |-> 0] \in Seq(Time)
    BY <2>1
  <2>4. 0 .. Threshold - 1 \subseteq Nat
    BY SizeAssumption
  <2>5. hits \in Seq(Time)
    BY <2>2, <2>3, <2>4 DEF Init
  <2>6. QED
    BY <2>1, <2>5, SizeAssumption DEF Init
<1>2. op \in [Thread -> Op] /\ \A t \in Thread : op[t] = Idle
  BY IdleType DEF Init
<1>3. \A t \in Thread : op[t].pc \in Locked <=> lock[ProcessOf[t]] = t
  BY <1>2, IdleType, ThreadAssumption DEF Init
<1>4. cacheAt \in [Process -> Time \cup {Stale}] /\ lifted \in Nat \cup {Stale}
  BY DEF Init
<1>5. stored \in [at : Time, by : Process \cup {None}]
  BY SizeAssumption DEF Init, Time
<1>6. ban # None => ban \in Ban /\ stored.by = None
  <2>1. Durations[1] \in Nat
    BY SizeAssumption
  <2>2. QED
    BY <2>1 DEF Init, Ban
<1>7. counter # None => counter \in Counter
  BY SizeAssumption DEF Init, Counter, Time
<1>8. QED
  BY <1>1, <1>2, <1>3, <1>4, <1>5, <1>6, <1>7 DEF Init, TypeOK

LEMMA EventType == ASSUME TypeOK, Event \/ UNCHANGED events PROVE events' \in 0 .. MaxEvents
BY SizeAssumption DEF TypeOK, Event

LEMMA OpType ==
    ASSUME TypeOK, NEW t \in Thread
    PROVE  /\ op[t] \in Op
           /\ op[t].asked \in Time /\ op[t].at \in Time /\ op[t].row \in Ban \cup {None}
           /\ \A pc \in Locked \cup {"clear", "poke", "forget"} :
                 [op[t] EXCEPT !.pc = pc] \in Op /\ [op[t] EXCEPT !.pc = pc].pc = pc
<1>1. op[t] \in Op
  BY DEF TypeOK
<1>2. QED
  BY <1>1 DEF Op, Locked

LEMMA RowType ==
    ASSUME TypeOK, NEW t \in Thread, NEW row \in Ban \cup {None},
           NEW pc \in {"keep", "judge", "poke", "forget"}
    PROVE  /\ [op[t] EXCEPT !.pc = pc, !.row = row] \in Op
           /\ [op[t] EXCEPT !.pc = pc, !.row = row].pc = pc
<1>1. op[t] \in Op
  BY DEF TypeOK
<1>2. QED
  BY <1>1 DEF Op, Locked

\* A thread goes on.
LEMMA GotoStep ==
    ASSUME TypeOK, NEW t \in Thread, NEW pc \in Locked \cup {"clear", "forget"}, Goto(t, pc)
    PROVE  /\ op' \in [Thread -> Op] /\ op'[t] = [op[t] EXCEPT !.pc = pc]
           /\ op'[t].pc = pc /\ \A u \in Thread \ {t} : op'[u] = op[u]
<1> DEFINE o == [op[t] EXCEPT !.pc = pc]
<1>1. op' = [op EXCEPT ![t] = o]
  BY DEF Goto
<1>2. o \in Op /\ o.pc = pc
  BY OpType
<1> HIDE DEF o
<1>3. op' \in [Thread -> Op] /\ op'[t] = o /\ \A u \in Thread \ {t} : op'[u] = op[u]
  BY <1>1, <1>2, OpStep
<1>4. QED
  BY <1>2, <1>3 DEF o

LEMMA TypeStep == TypeOK /\ [Next]_vars => TypeOK'
<1> SUFFICES ASSUME TypeOK, [Next]_vars PROVE TypeOK'
  OBVIOUS
<1> USE DEF history, memory
<1>0. now \in Nat /\ Time \subseteq Nat /\ \A t \in Thread : ProcessOf[t] \in Process
  BY SizeAssumption, ThreadAssumption DEF TypeOK, Time
<1>1. ASSUME NEW t \in Thread, NEW kind \in Kind, Begin(t, kind) PROVE TypeOK'
  <2> DEFINE pc == CASE kind = "unban"   -> "delete"
                     [] kind = "forgive" -> "clear"
                     [] kind = "action"  -> "peek"
                     [] OTHER            -> "wait"
             at == IF kind \in {"gate", "offence"} THEN now ELSE 0
             o == [Idle EXCEPT !.kind = kind, !.at = at, !.pc = pc]
  <2>1. pc \in {"wait", "delete", "clear", "peek"} /\ at \in Time
    BY <1>0, SizeAssumption DEF TypeOK, Time
  <2>2. op' = [op EXCEPT ![t] = o] /\ op[t] = Idle
    BY <1>1 DEF Begin
  <2> HIDE DEF pc, at
  <2>3. o \in Op /\ o.pc = pc
    BY <2>1, IdleType DEF Op, Idle
  <2> HIDE DEF o
  <2>4. op' \in [Thread -> Op] /\ op'[t].pc = pc /\ \A u \in Thread \ {t} : op'[u] = op[u]
    BY <2>2, <2>3, OpStep
  <2>5. LockType'
    BY <1>1, <2>1, <2>2, <2>4, LockStep, IdleType DEF Begin, Locked
  <2>6. UNCHANGED <<now, ban, counter, memory, history>> /\ events' \in 0 .. MaxEvents
    BY <1>1, EventType DEF Begin
  <2>7. QED
    BY <2>4, <2>5, <2>6 DEF TypeOK, LockType
<1>2. ASSUME NEW t \in Thread, Enter(t) PROVE TypeOK'
  <2> DEFINE asked == IF op[t].kind = "gate" THEN op[t].at ELSE now
             time == IF op[t].kind = "ban" THEN 0 ELSE asked
             pc == IF op[t].kind = "ban" THEN "prior"
                   ELSE IF MustRead(ProcessOf[t], asked) THEN "load" ELSE "judge"
             o == [op[t] EXCEPT !.asked = time, !.pc = pc]
  <2>1. pc \in {"prior", "load", "judge"} /\ time \in Time
    <3>1. 0 \in Time
      BY SizeAssumption DEF Time
    <3>2. now \in Time /\ op[t].at \in Time
      BY OpType DEF TypeOK
    <3>3. QED
      BY <3>1, <3>2
  <2>2. op' = [op EXCEPT ![t] = o]
    BY <1>2 DEF Enter
  <2> HIDE DEF pc, time
  <2>3. o \in Op /\ o.pc = pc
    <3>1. op[t] \in Op
      BY OpType
    <3>2. QED
      BY <2>1, <3>1 DEF Op, Locked
  <2> HIDE DEF o
  <2>4. op' \in [Thread -> Op] /\ op'[t].pc = pc /\ \A u \in Thread \ {t} : op'[u] = op[u]
    BY <2>2, <2>3, OpStep
  <2>5. LockType'
    <3>1. pc \in Locked /\ lock[ProcessOf[t]] = None /\ lock' = [lock EXCEPT ![ProcessOf[t]] = t]
      BY <1>2, <2>1 DEF Enter, Locked
    <3>2. QED
      BY <2>4, <3>1, LockStep
  <2>6. UNCHANGED <<now, ban, counter, cache, cacheAt, history, events>>
    BY <1>2 DEF Enter
  <2>7. QED
    BY <2>4, <2>5, <2>6 DEF TypeOK, LockType
<1>3. ASSUME NEW t \in Thread, Load(t) PROVE TypeOK'
  <2>0. op[t].pc = "load" /\ UNCHANGED <<now, ban, counter, cache, lock, stored, lifted, hits, mixed>>
    BY <1>3 DEF Load, At
  <2> DEFINE row == IF InForce(ban, op[t].asked) THEN ban ELSE None
             o == [op[t] EXCEPT !.pc = "keep", !.row = row]
  <2>1. CASE op' = [op EXCEPT ![t] = o] /\ UNCHANGED <<cacheAt, blind, events>>
    <3>1. row \in Ban \cup {None}
      BY DEF TypeOK
    <3> HIDE DEF row
    <3>2. o \in Op /\ o.pc = "keep"
      BY <3>1, RowType
    <3> HIDE DEF o
    <3>3. op' \in [Thread -> Op] /\ op'[t].pc = "keep" /\ \A u \in Thread \ {t} : op'[u] = op[u]
      BY <2>1, <3>2, OpStep
    <3>4. LockType'
      BY <2>0, <3>3, LockStep DEF Locked
    <3>5. QED
      BY <2>0, <2>1, <3>3, <3>4 DEF TypeOK, LockType
  <2>2. CASE /\ Event /\ Goto(t, "judge")
             /\ cacheAt' = [cacheAt EXCEPT ![ProcessOf[t]] = op[t].asked]
             /\ blind' = [blind EXCEPT ![ProcessOf[t]] = TRUE]
    <3>1. op' \in [Thread -> Op] /\ op'[t].pc = "judge" /\ \A u \in Thread \ {t} : op'[u] = op[u]
      BY <2>2, GotoStep DEF Locked
    <3>2. LockType'
      BY <2>0, <3>1, LockStep DEF Locked
    <3>3. op[t].asked \in Time /\ events' \in 0 .. MaxEvents
      BY <2>2, OpType, EventType
    <3>4. QED
      BY <2>0, <2>2, <3>1, <3>2, <3>3 DEF TypeOK, LockType
  <2>3. QED
    BY <1>3, <2>1, <2>2 DEF Load
<1>4. ASSUME NEW t \in Thread, Keep(t) PROVE TypeOK'
  <2> DEFINE o == [op[t] EXCEPT !.pc = "judge", !.row = None]
  <2>1. o \in Op /\ o.pc = "judge"
    BY RowType
  <2>2. op' = [op EXCEPT ![t] = o] /\ op[t].pc = "keep"
    BY <1>4 DEF Keep, At
  <2> HIDE DEF o
  <2>3. op' \in [Thread -> Op] /\ op'[t].pc = "judge" /\ \A u \in Thread \ {t} : op'[u] = op[u]
    BY <2>1, <2>2, OpStep
  <2>4. LockType'
    BY <1>4, <2>2, <2>3, LockStep DEF Keep, Locked
  <2>5. op[t].asked \in Time /\ op[t].row \in Ban \cup {None}
    BY OpType
  <2>6. QED
    BY <1>4, <2>3, <2>4, <2>5 DEF Keep, TypeOK, LockType
<1>5. ASSUME NEW t \in Thread, Answer(t) PROVE TypeOK'
  <2>1. LockType' /\ op' \in [Thread -> Op]
    BY <1>5, LeaveStep, LockStep, IdleType DEF Answer, Locked, At
  <2>2. QED
    BY <1>5, <2>1 DEF Answer, TypeOK, LockType
<1>22. ASSUME NEW t \in Thread, Count(t) PROVE TypeOK'
  <2>0. op[t].pc = "judge" /\ UNCHANGED <<now, ban, counter, cache, cacheAt, stored, lifted, blind, hits>>
    BY <1>22 DEF Count, At
  <2>1. CASE /\ op' = [op EXCEPT ![t].pc = "bump", ![t].read = counter] /\ UNCHANGED <<lock, events>>
             /\ mixed' = IF None \in mixed THEN mixed \cup {t} ELSE mixed
    <3> DEFINE o == [op[t] EXCEPT !.pc = "bump", !.read = counter]
    <3>1. op' = [op EXCEPT ![t] = o]
      BY <2>1
    <3>2. o \in Op /\ o.pc = "bump"
      <4>1. op[t] \in Op /\ counter \in Counter \cup {None}
        BY DEF TypeOK
      <4>2. QED
        BY <4>1 DEF Op, Locked
    <3> HIDE DEF o
    <3>3. op' \in [Thread -> Op] /\ op'[t].pc = "bump" /\ \A u \in Thread \ {t} : op'[u] = op[u]
      BY <3>1, <3>2, OpStep
    <3>4. LockType'
      BY <2>0, <2>1, <3>3, LockStep DEF Locked
    <3>5. mixed' \subseteq Thread \cup {None}
      BY <2>1 DEF TypeOK
    <3>6. QED
      BY <2>0, <2>1, <3>3, <3>4, <3>5 DEF TypeOK, LockType
  <2>2. CASE Event /\ Leave(t) /\ Release(t) /\ UNCHANGED mixed
    <3>1. LockType' /\ op' \in [Thread -> Op]
      BY <2>0, <2>2, LeaveStep, LockStep, IdleType DEF Locked
    <3>2. QED
      BY <2>0, <2>2, <3>1, EventType DEF TypeOK, LockType
  <2>3. QED
    BY <1>22, <2>1, <2>2 DEF Count
<1>6. ASSUME NEW t \in Thread, Bump(t) PROVE TypeOK'
  <2>0. op[t].pc = "bump" /\ UNCHANGED <<now, ban, cache, cacheAt, stored, lifted, blind>>
    BY <1>6 DEF Bump, At
  <2>1. LockType' /\ op' \in [Thread -> Op]
    <3>1. CASE op' = [op EXCEPT ![t].pc = "prior", ![t].read = None] /\ UNCHANGED lock
      <4> DEFINE o == [op[t] EXCEPT !.pc = "prior", !.read = None]
      <4>1. op' = [op EXCEPT ![t] = o]
        BY <3>1
      <4>2. o \in Op /\ o.pc = "prior"
        <5>1. op[t] \in Op
          BY OpType
        <5>2. QED
          BY <5>1 DEF Op, Locked
      <4> HIDE DEF o
      <4>3. op' \in [Thread -> Op] /\ op'[t].pc = "prior" /\ \A u \in Thread \ {t} : op'[u] = op[u]
        BY <4>1, <4>2, OpStep
      <4>4. QED
        BY <2>0, <3>1, <4>3, LockStep DEF Locked
    <3>2. CASE Leave(t) /\ Release(t)
      BY <2>0, <3>2, LeaveStep, LockStep, IdleType DEF Locked
    <3>3. QED
      BY <1>6, <3>1, <3>2 DEF Bump
  <2>2. mixed' \subseteq Thread \cup {None} /\ hits' \in Seq(Time)
    <3>1. mixed' \subseteq mixed \cup {None}
      BY <1>6 DEF Bump
    <3>2. hits' = hits \/ hits' = Append(hits, now)
      BY <1>6 DEF Bump
    <3>3. QED
      BY <3>1, <3>2 DEF TypeOK
  <2>3. events' \in 0 .. MaxEvents
    BY <1>6, EventType DEF Bump
  <2>4. counter' # None => counter' \in Counter
    <3>1. op[t].at \in Time
      BY OpType
    <3>2. Counted(op[t].read, op[t].at) \in Nat \ {0}
      <4>1. op[t] \in Op
        BY OpType
      <4>2. op[t].read = None \/ op[t].read.count \in Nat
        BY <4>1 DEF Op, Counter
      <4>3. QED
        BY <4>2 DEF Counted, Opens
    <3>3. CASE counter' = [count |-> 1, start |-> op[t].at]
      BY <3>1, <3>3, OpType DEF Counter
    <3>4. CASE counter # None /\ counter' = [counter EXCEPT !.count = Counted(op[t].read, op[t].at)]
      <4>1. counter \in Counter
        BY <3>4 DEF TypeOK
      <4>2. QED
        BY <3>2, <3>4, <4>1 DEF Counter
    <3>5. CASE UNCHANGED counter
      BY <3>5 DEF TypeOK
    <3>6. QED
      BY <1>6, <3>3, <3>4, <3>5 DEF Bump
  <2>5. QED
    BY <2>0, <2>1, <2>2, <2>3, <2>4 DEF TypeOK, LockType
<1>7. ASSUME NEW t \in Thread, Prior(t) PROVE TypeOK'
  <2>0. /\ op[t].pc = "prior" /\ UNCHANGED <<now, ban, counter, cache, cacheAt, history>>
        /\ events' \in 0 .. MaxEvents
    BY <1>7, EventType DEF Prior, At
  <2>1. CASE op' = [op EXCEPT ![t].pc = "store", ![t].row = ban, ![t].at = now] /\ UNCHANGED lock
    <3> DEFINE o == [op[t] EXCEPT !.pc = "store", !.row = ban, !.at = now]
    <3>1. op' = [op EXCEPT ![t] = o]
      BY <2>1
    <3>2. o \in Op /\ o.pc = "store"
      <4>1. op[t] \in Op /\ ban \in Ban \cup {None} /\ now \in Time
        BY DEF TypeOK
      <4>2. QED
        BY <4>1 DEF Op, Locked
    <3> HIDE DEF o
    <3>3. op' \in [Thread -> Op] /\ op'[t].pc = "store" /\ \A u \in Thread \ {t} : op'[u] = op[u]
      BY <3>1, <3>2, OpStep
    <3>4. LockType'
      BY <2>0, <2>1, <3>3, LockStep DEF Locked
    <3>5. QED
      BY <2>0, <3>3, <3>4 DEF TypeOK, LockType
  <2>2. CASE Leave(t) /\ Release(t)
    <3>1. LockType' /\ op' \in [Thread -> Op]
      BY <2>0, <2>2, LeaveStep, LockStep, IdleType DEF Locked
    <3>2. QED
      BY <2>0, <3>1 DEF TypeOK, LockType
  <2>3. QED
    BY <1>7, <2>1, <2>2 DEF Prior
<1>8. ASSUME NEW t \in Thread, Store(t) PROVE TypeOK'
  <2> DEFINE level == IF op[t].row = None THEN 1 ELSE op[t].row.level + 1
             byHand == op[t].kind = "ban"
             Until(term) == CASE term = None -> Term(level, op[t].at)
                              [] term = 0    -> Forever
                              [] OTHER       -> op[t].at + term
             o == [Idle EXCEPT !.kind = op[t].kind, !.pc = "reset"]
  <2>0. op[t].pc = "store" /\ UNCHANGED <<now, counter, memory, blind>>
    BY <1>8 DEF Store, At
  <2>1. op[t] \in Op /\ op[t].at \in Nat /\ op[t].row \in Ban \cup {None}
    BY <1>0, OpType
  <2>2. level \in Nat \ {0}
    BY <2>1 DEF Ban
  <2>3. LockType' /\ op' \in [Thread -> Op]
    <3>1. o \in Op /\ o.pc = "reset"
      BY <2>1, IdleType DEF Op, Idle, Locked
    <3>2. op' = [op EXCEPT ![t] = o]
      BY <1>8 DEF Store
    <3> HIDE DEF o
    <3>3. op' \in [Thread -> Op] /\ op'[t].pc = "reset" /\ \A u \in Thread \ {t} : op'[u] = op[u]
      BY <3>1, <3>2, OpStep
    <3>4. QED
      BY <2>0, <3>3, LockStep DEF Locked
  <2>4. ASSUME NEW term \in IF byHand THEN HandTerms ELSE {None},
               Replaced([until |-> Until(term), level |-> level]),
               stored' = [at |-> now, by |-> IF byHand THEN None ELSE ProcessOf[t]],
               hits' = << >>, mixed' = Overtaken \cup {None}, UNCHANGED events
        PROVE  TypeOK'
    <3>1. Until(term) \in {Forever} \cup Nat
      <4>1. Term(level, op[t].at) \in {Forever} \cup Nat
        BY <2>1, <2>2, TermType
      <4>2. term = None \/ term \in Nat
        BY <2>4, SizeAssumption
      <4> HIDE DEF level
      <4>3. QED
        BY <2>1, <4>1, <4>2
    <3>2. ~byHand => (PermanentAfter \in 1 .. level - 1 => Until(term) = Forever)
      BY <2>1, <2>2, <2>4, TermType
    <3>3. ban' = [until |-> Until(term), level |-> level]
      BY <2>4 DEF Replaced
    <3> HIDE DEF Until, level
    <3>4. ban' \in Ban /\ ban'.until = Until(term) /\ ban'.level = level
      BY <2>2, <3>1, <3>3 DEF Ban
    <3>5. stored' \in [at : Time, by : Process \cup {None}] /\ (stored'.by # None => ~byHand)
      BY <1>0, <2>4 DEF TypeOK
    <3>6. lifted' \in Nat \cup {Stale}
      BY <2>4, ReplacedType
    <3>7. ban' # None => /\ ban' \in Ban
                         /\ stored'.by # None /\ PermanentAfter \in 1 .. ban'.level - 1 => ban'.until = Forever
      BY <3>2, <3>4, <3>5
    <3> HIDE DEF byHand
    <3>8. hits' \in Seq(Time) /\ mixed' \subseteq Thread \cup {None}
      BY <2>4 DEF Overtaken
    <3>9. QED
      BY <2>0, <2>3, <2>4, <3>5, <3>6, <3>7, <3>8 DEF TypeOK, LockType
  <2>5. CASE Event /\ UNCHANGED <<ban, stored, lifted, hits, mixed>>
    BY <2>0, <2>3, <2>5, EventType DEF TypeOK, LockType
  <2>6. QED
    <3>1. \/ \E term \in IF byHand THEN HandTerms ELSE {None} :
                /\ Replaced([until |-> Until(term), level |-> level])
                /\ stored' = [at |-> now, by |-> IF byHand THEN None ELSE ProcessOf[t]]
                /\ hits' = << >> /\ mixed' = Overtaken \cup {None} /\ UNCHANGED events
          \/ Event /\ UNCHANGED <<ban, stored, lifted, hits, mixed>>
      BY <1>8 DEF Store
    <3> HIDE DEF level, byHand, Until
    <3>2. QED
      BY <2>4, <2>5, <3>1
<1>9. ASSUME Wipe PROVE /\ counter' # None => counter' \in Counter
                        /\ hits' \in Seq(Time) /\ mixed' \subseteq Thread \cup {None} /\ events' \in 0 .. MaxEvents
  <2>1. << >> \in Seq(Time)
    OBVIOUS
  <2>2. CASE counter' = None /\ hits' = << >> /\ mixed' = Overtaken /\ UNCHANGED events
    BY <2>1, <2>2 DEF TypeOK, Overtaken
  <2>3. CASE Event /\ UNCHANGED <<counter, hits, mixed>>
    BY <2>3, EventType DEF TypeOK
  <2>4. QED
    BY <1>9, <2>2, <2>3 DEF Wipe
<1>10. ASSUME NEW p \in Process, Invalidate(p) PROVE cacheAt' \in [Process -> Time \cup {Stale}]
  BY <1>10 DEF Invalidate, TypeOK
<1>11. ASSUME NEW t \in Thread, Reset(t) PROVE TypeOK'
  <2>1. LockType' /\ op' \in [Thread -> Op]
    BY <1>11, LeaveStep, LockStep, IdleType DEF Reset, Locked, At
  <2>2. QED
    BY <1>0, <1>9, <1>10, <1>11, <2>1 DEF Reset, TypeOK, LockType
<1>12. ASSUME NEW t \in Thread, Delete(t) PROVE TypeOK'
  <2>1. op[t].pc = "delete" /\ Goto(t, "clear") /\ UNCHANGED <<now, counter, memory, stored, blind>>
    BY <1>12 DEF Delete, At
  <2>2. LockType' /\ op' \in [Thread -> Op]
    <3>1. op' \in [Thread -> Op] /\ op'[t].pc = "clear" /\ \A u \in Thread \ {t} : op'[u] = op[u]
      BY <2>1, GotoStep
    <3>2. QED
      BY <2>1, <3>1, LockStep DEF Locked
  <2>3. CASE Replaced(None) /\ hits' = << >> /\ mixed' = Overtaken \cup {None} /\ UNCHANGED events
    <3>1. /\ ban' = None /\ lifted' \in Nat \cup {Stale} /\ hits' \in Seq(Time)
          /\ mixed' \subseteq Thread \cup {None}
      BY <2>3, ReplacedType DEF Replaced, Overtaken
    <3>2. QED
      BY <2>1, <2>2, <2>3, <3>1 DEF TypeOK, LockType
  <2>4. CASE Event /\ UNCHANGED <<ban, lifted, hits, mixed>>
    BY <2>1, <2>2, <2>4, EventType DEF TypeOK, LockType
  <2>5. QED
    BY <1>12, <2>3, <2>4 DEF Delete
<1>13. ASSUME NEW t \in Thread, Clear(t) PROVE TypeOK'
  <2>1. op[t].pc = "clear" /\ UNCHANGED <<now, ban, memory, stored, lifted, blind>>
    BY <1>13 DEF Clear, At
  <2>2. LockType' /\ op' \in [Thread -> Op]
    <3>1. CASE Goto(t, "forget")
      <4>1. /\ op' \in [Thread -> Op] /\ op'[t].pc = "forget"
            /\ \A u \in Thread \ {t} : op'[u] = op[u]
        BY <3>1, GotoStep
      <4>2. QED
        BY <2>1, <4>1, LockStep DEF Locked
    <3>2. CASE Leave(t)
      BY <2>1, <3>2, LeaveStep, IdleType, LockStep DEF Locked
    <3>3. QED
      BY <1>13, <3>1, <3>2 DEF Clear
  <2>3. QED
    BY <1>9, <1>13, <2>1, <2>2 DEF Clear, TypeOK, LockType
<1>14. ASSUME NEW t \in Thread, Peek(t) PROVE TypeOK'
  <2>1. op[t].pc = "peek" /\ UNCHANGED <<now, ban, counter, memory, history, events>>
    BY <1>14 DEF Peek, At
  <2>2. LockType' /\ op' \in [Thread -> Op]
    <3>1. CASE Leave(t)
      BY <2>1, <3>1, LeaveStep, IdleType, LockStep DEF Locked
    <3>2. CASE op' = [op EXCEPT ![t].pc = "poke", ![t].row = ban]
      <4> DEFINE o == [op[t] EXCEPT !.pc = "poke", !.row = ban]
      <4>1. op' = [op EXCEPT ![t] = o]
        BY <3>2
      <4>2. o \in Op /\ o.pc = "poke"
        <5>1. ban \in Ban \cup {None}
          BY DEF TypeOK
        <5>2. QED
          BY <5>1, RowType
      <4> HIDE DEF o
      <4>3. QED
        BY <2>1, <4>1, <4>2, OpStep, LockStep DEF Locked
    <3>3. QED
      BY <1>14, <3>1, <3>2 DEF Peek
  <2>3. QED
    BY <2>1, <2>2 DEF TypeOK, LockType
<1>15. ASSUME NEW t \in Thread, Poke(t) PROVE TypeOK'
  <2> DEFINE o == [op[t] EXCEPT !.pc = "forget", !.row = None]
  <2>1. /\ op[t].pc = "poke" /\ op' = [op EXCEPT ![t] = o]
        /\ UNCHANGED <<now, counter, memory, blind, hits, mixed>>
    BY <1>15 DEF Poke, At
  <2>2. o \in Op /\ o.pc = "forget"
    BY RowType
  <2> HIDE DEF o
  <2>3. LockType' /\ op' \in [Thread -> Op]
    BY <2>1, <2>2, OpStep, LockStep DEF Locked
  <2>4. CASE /\ Replaced(op[t].row) /\ UNCHANGED events
             /\ stored' = IF op[t].row = ban THEN stored ELSE [at |-> now, by |-> None]
    <3>1. lifted' \in Nat \cup {Stale} /\ ban' = op[t].row /\ ban' \in Ban \cup {None}
      BY <2>4, ReplacedType, OpType DEF Replaced
    <3>2. stored' \in [at : Time, by : Process \cup {None}]
      BY <2>4 DEF TypeOK
    <3>3. ban' # None /\ stored'.by # None => ban' = ban
      BY <2>4, <3>1
    <3>4. ban' # None => /\ ban' \in Ban
                         /\ stored'.by # None /\ PermanentAfter \in 1 .. ban'.level - 1 => ban'.until = Forever
      BY <2>4, <3>1, <3>3 DEF TypeOK
    <3>5. QED
      BY <2>1, <2>3, <2>4, <3>1, <3>2, <3>4 DEF TypeOK, LockType
  <2>5. CASE Event /\ UNCHANGED <<ban, stored, lifted>>
    BY <2>1, <2>3, <2>5, EventType DEF TypeOK, LockType
  <2>6. QED
    BY <1>15, <2>4, <2>5 DEF Poke
<1>16. ASSUME NEW t \in Thread, Forget(t) PROVE TypeOK'
  <2>1. LockType' /\ op' \in [Thread -> Op]
    BY <1>16, LeaveStep, LockStep, IdleType DEF Forget, Locked, At
  <2>2. QED
    BY <1>0, <1>10, <1>16, <2>1 DEF Forget, TypeOK, LockType
<1>17. CASE Evict
  <2>1. ban' = None /\ lifted' \in Nat \cup {Stale} /\ events' \in 0 .. MaxEvents
    BY <1>17, ReplacedType, EventType DEF Evict, Replaced
  <2>2. QED
    BY <1>17, <2>1 DEF Evict, TypeOK
<1>18. ASSUME NEW p \in Process, Restart(p) PROVE TypeOK'
  <2>1. op' \in [Thread -> Op]
    BY <1>18, IdleType DEF Restart, TypeOK
  <2>2. LockType'
    BY <1>18, <2>1, IdleType, ThreadAssumption DEF Restart, TypeOK, LockType
  <2>3. events' \in 0 .. MaxEvents
    BY <1>18, EventType DEF Restart
  <2>4. mixed' \subseteq Thread \cup {None}
    BY <1>18 DEF Restart, TypeOK
  <2>5. QED
    BY <1>18, <2>1, <2>2, <2>3, <2>4 DEF Restart, TypeOK, LockType
<1>19. CASE Tick
  BY <1>0, <1>19, SizeAssumption DEF Tick, TypeOK, Time
<1>20. CASE UNCHANGED vars
  BY <1>20 DEF vars, TypeOK
<1>21. QED
  BY <1>1, <1>2, <1>3, <1>4, <1>5, <1>6, <1>7, <1>8, <1>11, <1>12, <1>13, <1>14, <1>15,
     <1>16, <1>17, <1>18, <1>19, <1>20, <1>22 DEF Next, StepOf

\* The rows, the copies and the operations keep their types, a process's lock is held by the
\* thread that works under it, and no ban of the ladder beyond permanent_after ends.
THEOREM TypeCorrect == Spec => []TypeOK
BY TypeInit, TypeStep, PTL DEF Spec

(***************************************************************************)
(* What the copy of the jail may still say.  A row that was read when it    *)
(* was asked for at that time is the row in the table, or has been replaced *)
(* since; and the row in the table is that one, or is over, or was stored   *)
(* since, by another process or a hand.  A process may take its copy at its *)
(* word only while it is not older than CacheTTL: between the time asked by *)
(* a thread and the time of the copy there may be as much.  The process     *)
(* that has just stored a ban has a copy that knows nothing of it, until it *)
(* marks the copy stale or dies.                                            *)
(***************************************************************************)
Sound(p, row, time) ==
    /\ row # None => \/ row = ban
                     \/ time <= lifted
                     \/ row.until \in Nat /\ row.until <= lifted
    /\ ban # None /\ (stored.at < time \/ stored.by = p) =>
          row = ban \/ ~InForce(ban, now)

Oldest(t) == op[t].asked - CacheTTL + 1    \* the oldest copy that answers t's question

CacheSound(p) ==
    ~blind[p] =>
        \/ cacheAt[p] = Stale
        \/ \E t \in Thread : ProcessOf[t] = p /\ At(t, "reset")
        \/ Sound(p, cache[p], cacheAt[p])

\* The same of what thread t, in the process, has read, answers from or has been told.
ThreadSound(t) ==
    LET p == ProcessOf[t]
    IN  /\ At(t, "keep") => Sound(p, op[t].row, op[t].asked)
        /\ At(t, "judge") /\ ~blind[p] => Sound(p, cache[p], Oldest(t))
        /\ op[t].pc \in {"bump", "prior", "store"} /\ op[t].kind = "offence" /\ ~blind[p] =>
              Sound(p, None, Oldest(t))

Times ==
    /\ lifted <= now /\ stored.at <= now
    /\ \A p \in Process : cacheAt[p] <= now
    /\ \A t \in Thread : op[t].at <= now /\ op[t].asked <= now

Inv ==
    /\ TypeOK /\ Times
    /\ \A p \in Process : CacheSound(p)
    /\ \A t \in Thread : ThreadSound(t)

\* A step of the table that process p's copy survives: time passes, or a row that is not p's
\* replaces another.
Mild(p) ==
    /\ now <= now'
    /\ \/ UNCHANGED <<ban, stored, lifted>>
       \/ /\ UNCHANGED now /\ \E row : Replaced(row)
          /\ \/ ban' = None /\ UNCHANGED stored
             \/ UNCHANGED <<ban, stored>>
             \/ stored'.at = now /\ stored'.by # p

LEMMA TimeTypes ==
    ASSUME TypeOK
    PROVE  /\ now \in Nat /\ Stale \in Int /\ Stale < 0 /\ CacheTTL \in Nat /\ CacheTTL > 0
           /\ lifted \in Int /\ Stale <= lifted /\ stored.at \in Nat
           /\ \A p \in Process : cacheAt[p] \in Int /\ Stale <= cacheAt[p]
           /\ \A t \in Thread : op[t].at \in Nat /\ op[t].asked \in Nat /\ Oldest(t) \in Int
<1>1. now \in Nat /\ Stale \in Int /\ Stale < 0 /\ CacheTTL \in Nat /\ CacheTTL > 0
  BY SizeAssumption DEF TypeOK, Time, Stale
<1>2. lifted \in Int /\ Stale <= lifted /\ stored.at \in Nat
  BY <1>1, SizeAssumption DEF TypeOK, Time
<1>3. ASSUME NEW p \in Process PROVE cacheAt[p] \in Int /\ Stale <= cacheAt[p]
  <2>1. cacheAt[p] \in Time \cup {Stale} /\ Time \subseteq Nat
    BY DEF TypeOK, Time
  <2>2. CASE cacheAt[p] \in Nat
    BY <1>1, <2>2
  <2>3. CASE cacheAt[p] = Stale
    BY <1>1, <2>3
  <2>4. QED
    BY <2>1, <2>2, <2>3
<1>4. ASSUME NEW t \in Thread PROVE op[t].at \in Nat /\ op[t].asked \in Nat /\ Oldest(t) \in Int
  <2>1. op[t].at \in Time /\ op[t].asked \in Time
    BY OpType
  <2>2. QED
    BY <1>1, <2>1, SizeAssumption DEF Time, Oldest
<1>5. QED
  BY <1>1, <1>2, <1>3, <1>4

LEMMA NextTimes == ASSUME TypeOK' PROVE now' \in Nat /\ lifted' \in Int
<1>1. now' \in 0 .. MaxTime /\ lifted' \in Nat \cup {Stale}
  BY DEF TypeOK, Time
<1>2. Stale \in Int
  BY SizeAssumption DEF Stale
<1>3. QED
  BY <1>1, <1>2

LEMMA SoundStays ==
    ASSUME TypeOK, TypeOK', lifted <= now, NEW p \in Process, NEW row, NEW time \in Int,
           time <= now, Mild(p), Sound(p, row, time)
    PROVE  Sound(p, row, time)'
<1>1. now \in Nat /\ now' \in Nat /\ lifted \in Int /\ lifted' \in Int /\ stored.at \in Nat
  <2>1. now' \in Nat /\ lifted' \in Int
    BY NextTimes
  <2>2. QED
    BY <2>1, TimeTypes
<1>2. CASE UNCHANGED <<ban, stored, lifted>>
  BY <1>1, <1>2 DEF Mild, Sound, InForce
<1>3. CASE UNCHANGED now /\ \E r : Replaced(r)
  <2>1. PICK r : Replaced(r)
    BY <1>3
  <2>2. /\ lifted <= lifted'
        /\ ban # None => \/ lifted' = now
                         \/ ban.until \in Nat /\ ban.until <= lifted'
    BY <2>1, ReplacedType
  <2>3. ASSUME row # None
        PROVE  \/ row = ban'
               \/ time <= lifted'
               \/ row.until \in Nat /\ row.until <= lifted'
    <3>1. CASE row = ban
      BY <1>1, <2>2, <2>3, <3>1
    <3>2. CASE time <= lifted
      BY <1>1, <2>2, <3>2
    <3>3. CASE row.until \in Nat /\ row.until <= lifted
      BY <1>1, <2>2, <3>3
    <3>4. QED
      BY <2>3, <3>1, <3>2, <3>3 DEF Sound
  <2>4. ASSUME ban' # None, stored'.at < time \/ stored'.by = p
        PROVE  row = ban' \/ ~InForce(ban', now')
    <3>1. CASE UNCHANGED <<ban, stored>>
      BY <1>3, <2>4, <3>1 DEF Sound, InForce
    <3>2. CASE stored'.at = now /\ stored'.by # p
      BY <1>1, <2>4, <3>2
    <3>3. QED
      BY <1>1, <1>3, <2>4, <3>1, <3>2 DEF Mild
  <2>5. QED
    BY <2>3, <2>4 DEF Sound
<1>4. QED
  BY <1>2, <1>3 DEF Mild

-----------------------------------------------------------------------------
Held(t) == Enter(t) \/ Load(t) \/ Keep(t) \/ Answer(t) \/ Count(t) \/ Bump(t) \/ Prior(t) \/ Store(t) \/ Reset(t)
Free(t) == \/ Delete(t) \/ Clear(t) \/ Peek(t) \/ Poke(t) \/ Forget(t)
           \/ \E kind \in Kind : Begin(t, kind)

LEMMA Goes == ASSUME TypeOK, NEW t \in Thread, NEW pc, Goto(t, pc)
              PROVE  op'[t] = [op[t] EXCEPT !.pc = pc] /\ op'[t].pc = pc /\ \A u \in Thread \ {t} : op'[u] = op[u]
<1>1. op[t] \in Op
  BY DEF TypeOK
<1>2. QED
  BY <1>1 DEF Goto, TypeOK, Op

\* A step under the lock concerns one thread and the memory of its process.
LEMMA HeldStep ==
    ASSUME TypeOK, NEW t \in Thread, Held(t)
    PROVE  /\ \A u \in Thread \ {t} : op'[u] = op[u]
           /\ \A q \in Process \ {ProcessOf[t]} :
                 cache'[q] = cache[q] /\ cacheAt'[q] = cacheAt[q] /\ blind'[q] = blind[q]
<1> USE DEF memory, history
<1>1. CASE Enter(t)
  BY <1>1 DEF Enter, TypeOK
<1>2. CASE Load(t)
  BY <1>2 DEF Load, TypeOK, Goto
<1>3. CASE Keep(t)
  BY <1>3 DEF Keep, TypeOK
<1>4. CASE Answer(t)
  BY <1>4 DEF Answer, TypeOK, Leave
<1>5. CASE Count(t) \/ Bump(t)
  BY <1>5 DEF Count, Bump, TypeOK, Leave
<1>6. CASE Prior(t)
  BY <1>6 DEF Prior, TypeOK, Leave
<1>7. CASE Store(t)
  BY <1>7 DEF Store, TypeOK
<1>8. CASE Reset(t)
  BY <1>8 DEF Reset, TypeOK, Leave, Invalidate
<1>9. QED
  BY <1>1, <1>2, <1>3, <1>4, <1>5, <1>6, <1>7, <1>8 DEF Held

\* A step outside the lock is of a thread that does not hold it, and leaves the copies as
\* they are, or marks one stale.
LEMMA FreeStep ==
    ASSUME TypeOK, NEW t \in Thread, Free(t)
    PROVE  /\ \A u \in Thread \ {t} : op'[u] = op[u]
           /\ op[t].pc \notin Locked /\ op'[t].pc \notin Locked
           /\ UNCHANGED <<cache, blind>>
           /\ \A q \in Process : cacheAt'[q] \in {cacheAt[q], Stale}
<1> USE DEF memory, history, Locked
<1>1. CASE Delete(t)
  <2>1. Goto(t, "clear") /\ op[t].pc = "delete" /\ UNCHANGED <<cache, cacheAt, blind>>
    BY <1>1 DEF Delete, At
  <2>2. op'[t].pc = "clear" /\ \A u \in Thread \ {t} : op'[u] = op[u]
    BY <2>1, Goes
  <2>3. QED
    BY <2>1, <2>2
<1>2. CASE Clear(t)
  <2>1. op[t].pc = "clear" /\ UNCHANGED <<cache, cacheAt, blind>>
    BY <1>2 DEF Clear, At
  <2>2. op'[t].pc \in {"forget", "idle"} /\ \A u \in Thread \ {t} : op'[u] = op[u]
    <3>1. CASE Goto(t, "forget")
      BY <3>1, Goes
    <3>2. CASE Leave(t)
      BY <3>2, LeaveStep, IdleType
    <3>3. QED
      BY <1>2, <3>1, <3>2 DEF Clear
  <2>3. QED
    BY <2>1, <2>2
<1>3. CASE Peek(t)
  <2>1. CASE Leave(t)
    BY <1>3, <2>1, LeaveStep, IdleType DEF Peek, At
  <2>2. CASE op' = [op EXCEPT ![t].pc = "poke", ![t].row = ban]
    BY <1>3, <2>2 DEF Peek, At, TypeOK, Op
  <2>3. QED
    BY <1>3, <2>1, <2>2 DEF Peek
<1>4. CASE Poke(t)
  <2>1. op' = [op EXCEPT ![t] = [op[t] EXCEPT !.pc = "forget", !.row = None]] /\ op[t].pc = "poke"
    BY <1>4 DEF Poke, At
  <2>2. op'[t].pc = "forget" /\ \A u \in Thread \ {t} : op'[u] = op[u]
    BY <2>1, RowType, OpStep
  <2>3. UNCHANGED <<cache, cacheAt, blind>>
    BY <1>4 DEF Poke
  <2>4. QED
    BY <2>1, <2>2, <2>3
<1>5. CASE Forget(t)
  <2>1. op'[t] = Idle /\ \A u \in Thread \ {t} : op'[u] = op[u]
    BY <1>5, LeaveStep DEF Forget
  <2>2. \A q \in Process : cacheAt'[q] \in {cacheAt[q], Stale}
    BY <1>5 DEF Forget, Invalidate, TypeOK
  <2>3. QED
    BY <1>5, <2>1, <2>2, IdleType DEF Forget, At
<1>6. ASSUME NEW kind \in Kind, Begin(t, kind)
      PROVE  /\ \A u \in Thread \ {t} : op'[u] = op[u]
             /\ op[t].pc \notin Locked /\ op'[t].pc \notin Locked
             /\ UNCHANGED <<cache, cacheAt, blind>>
  BY <1>6 DEF Begin, TypeOK, Idle
<1>7. QED
  BY <1>1, <1>2, <1>3, <1>4, <1>5, <1>6 DEF Free

\* What process p's threads are about and what they remember, unless one of them works under
\* the lock or the process dies.
LEMMA Quiet ==
    ASSUME TypeOK, [Next]_vars, NEW p \in Process, ~Restart(p),
           \A t \in Thread : ProcessOf[t] = p => ~Held(t)
    PROVE  /\ cache'[p] = cache[p] /\ blind'[p] = blind[p] /\ cacheAt'[p] \in {cacheAt[p], Stale}
           /\ \A u \in Thread : ProcessOf[u] = p /\ (op[u].pc \in Locked \/ op'[u].pc \in Locked) =>
                 op'[u] = op[u]
<1>1. ASSUME NEW t \in Thread, Held(t), ProcessOf[t] # p
      PROVE  /\ cache'[p] = cache[p] /\ blind'[p] = blind[p] /\ cacheAt'[p] = cacheAt[p]
             /\ \A u \in Thread : ProcessOf[u] = p => op'[u] = op[u]
  BY <1>1, HeldStep
<1>2. ASSUME NEW t \in Thread, Free(t)
      PROVE  /\ cache'[p] = cache[p] /\ blind'[p] = blind[p] /\ cacheAt'[p] \in {cacheAt[p], Stale}
             /\ \A u \in Thread : op[u].pc \in Locked \/ op'[u].pc \in Locked => op'[u] = op[u]
  BY <1>2, FreeStep
<1>3. ASSUME NEW q \in Process, Restart(q), q # p
      PROVE  /\ cache'[p] = cache[p] /\ blind'[p] = blind[p] /\ cacheAt'[p] = cacheAt[p]
             /\ \A u \in Thread : ProcessOf[u] = p => op'[u] = op[u]
  BY <1>3 DEF Restart, TypeOK
<1>4. CASE Evict \/ Tick \/ UNCHANGED vars
  BY <1>4 DEF Evict, Tick, vars, memory, history
<1>5. QED
  BY <1>1, <1>2, <1>3, <1>4 DEF Next, StepOf, Held, Free

LEMMA MildStep ==
    ASSUME TypeOK, [Next]_vars, NEW p \in Process,
           \A t \in Thread : ProcessOf[t] = p => ~Store(t)
    PROVE  Mild(p)
<1> USE DEF memory, history
<1>0. now \in Nat
  BY TimeTypes
<1>1. CASE UNCHANGED <<now, ban, stored, lifted>>
  BY <1>0, <1>1 DEF Mild
<1>2. ASSUME NEW t \in Thread, Store(t) PROVE Mild(p)
  <2>1. ProcessOf[t] # p /\ p # None
    BY <1>2, ThreadAssumption
  <2>2. CASE UNCHANGED <<ban, stored, lifted>>
    <3>1. UNCHANGED now
      BY <1>2 DEF Store
    <3>2. QED
      BY <1>1, <2>2, <3>1
  <2>3. CASE ~UNCHANGED <<ban, stored, lifted>>
    <3>1. /\ \E row : Replaced(row)
          /\ stored' = [at |-> now, by |-> IF op[t].kind = "ban" THEN None ELSE ProcessOf[t]]
          /\ UNCHANGED now
      BY <1>2, <2>3 DEF Store
    <3>2. QED
      BY <1>0, <2>1, <3>1 DEF Mild
  <2>4. QED
    BY <2>2, <2>3
<1>3. ASSUME NEW t \in Thread, Delete(t) PROVE Mild(p)
  <2>1. CASE UNCHANGED <<ban, lifted>>
    BY <1>0, <1>3, <2>1 DEF Mild, Delete
  <2>2. CASE Replaced(None)
    BY <1>0, <1>3, <2>2 DEF Mild, Delete, Replaced
  <2>3. QED
    BY <1>3, <2>1, <2>2 DEF Delete
<1>4. ASSUME NEW t \in Thread, Poke(t) PROVE Mild(p)
  <2>1. CASE UNCHANGED <<ban, stored, lifted>>
    BY <1>0, <1>4, <2>1 DEF Mild, Poke
  <2>2. CASE /\ Replaced(op[t].row)
             /\ stored' = IF op[t].row = ban THEN stored ELSE [at |-> now, by |-> None]
    <3>1. UNCHANGED now /\ p # None
      BY <1>4, ThreadAssumption DEF Poke
    <3>2. CASE op[t].row = ban
      BY <1>0, <2>2, <3>1, <3>2 DEF Mild, Replaced
    <3>3. CASE op[t].row # ban
      BY <1>0, <2>2, <3>1, <3>3 DEF Mild
    <3>4. QED
      BY <3>2, <3>3
  <2>3. QED
    BY <1>4, <2>1, <2>2 DEF Poke
<1>5. CASE Evict
  BY <1>0, <1>5 DEF Mild, Evict, Replaced
<1>6. CASE Tick
  BY <1>0, <1>6 DEF Mild, Tick
<1>7. ASSUME NEW t \in Thread,
             \/ Enter(t) \/ Load(t) \/ Keep(t) \/ Answer(t) \/ Count(t) \/ Bump(t) \/ Prior(t) \/ Reset(t)
             \/ Clear(t) \/ Peek(t) \/ Forget(t) \/ \E kind \in Kind : Begin(t, kind)
      PROVE  UNCHANGED <<now, ban, stored, lifted>>
  BY <1>7 DEF Enter, Load, Keep, Answer, Count, Bump, Prior, Reset, Clear, Peek, Forget, Begin
<1>8. ASSUME NEW q \in Process, Restart(q) PROVE UNCHANGED <<now, ban, stored, lifted>>
  BY <1>8 DEF Restart
<1>9. QED
  BY <1>1, <1>2, <1>3, <1>4, <1>5, <1>6, <1>7, <1>8 DEF Next, StepOf, vars

LEMMA NowGrows ==
    ASSUME [Next]_vars
    PROVE  now' = now \/ now' = now + 1
<1> USE DEF memory, history
<1>1. Tick => now' = now + 1
  BY DEF Tick
<1>2. ASSUME Evict \/ \E p \in Process : Restart(p) PROVE now' = now
  BY <1>2 DEF Evict, Restart
<1>3. ASSUME NEW t \in Thread, NEW kind \in Kind, Begin(t, kind) PROVE now' = now
  BY <1>3 DEF Begin
<1>4. ASSUME NEW t \in Thread,
             \/ Enter(t) \/ Load(t) \/ Keep(t) \/ Answer(t) \/ Count(t) \/ Bump(t) \/ Prior(t)
             \/ Store(t) \/ Reset(t)
      PROVE  now' = now
  BY <1>4 DEF Enter, Load, Keep, Answer, Count, Bump, Prior, Store, Reset
<1>5. ASSUME NEW t \in Thread,
             Delete(t) \/ Clear(t) \/ Peek(t) \/ Poke(t) \/ Forget(t)
      PROVE  now' = now
  BY <1>5 DEF Delete, Clear, Peek, Poke, Forget
<1>6. QED
  BY <1>1, <1>2, <1>3, <1>4, <1>5 DEF Next, StepOf, vars

LEMMA TimesStep == ASSUME TypeOK, TypeOK', Times, [Next]_vars PROVE Times'
<1> USE DEF memory, history
<1>0. now \in Nat /\ now' \in Nat /\ now <= now' /\ lifted \in Int /\ lifted' \in Int /\ stored.at \in Nat
  <2>1. now' \in Nat /\ lifted' \in Int
    BY NextTimes
  <2>2. now' = now \/ now' = now + 1
    BY NowGrows
  <2>3. QED
    BY <2>1, <2>2, TimeTypes
<1>1. lifted' <= now'
  <2>1. UNCHANGED lifted \/ \E row : Replaced(row)
    <3>1. ASSUME NEW t \in Thread, Store(t) \/ Delete(t) \/ Poke(t)
          PROVE  UNCHANGED lifted \/ \E row : Replaced(row)
      BY <3>1 DEF Store, Delete, Poke
    <3>2. ASSUME Evict \/ Tick \/ \E p \in Process : Restart(p)
          PROVE  UNCHANGED lifted \/ \E row : Replaced(row)
      BY <3>2 DEF Evict, Tick, Restart
    <3>3. ASSUME NEW t \in Thread,
                 \/ Enter(t) \/ Load(t) \/ Keep(t) \/ Answer(t) \/ Count(t) \/ Bump(t) \/ Prior(t)
                 \/ Reset(t) \/ Clear(t) \/ Peek(t) \/ Forget(t)
                 \/ \E kind \in Kind : Begin(t, kind)
          PROVE  UNCHANGED lifted
      BY <3>3 DEF Enter, Load, Keep, Answer, Count, Bump, Prior, Reset, Clear, Peek, Forget, Begin
    <3>4. QED
      BY <3>1, <3>2, <3>3 DEF Next, StepOf, vars
  <2>2. QED
    BY <1>0, <2>1, ReplacedType DEF Times
<1>2. stored'.at <= now'
  <2>1. stored' = stored \/ stored'.at = now
    <3>1. ASSUME NEW t \in Thread, Store(t) PROVE stored' = stored \/ stored'.at = now
      BY <3>1 DEF Store
    <3>2. ASSUME NEW t \in Thread, Poke(t) PROVE stored' = stored \/ stored'.at = now
      BY <3>2 DEF Poke
    <3>3. ASSUME NEW t \in Thread,
                 \/ Enter(t) \/ Load(t) \/ Keep(t) \/ Answer(t) \/ Count(t) \/ Bump(t) \/ Prior(t)
                 \/ Reset(t) \/ Delete(t) \/ Clear(t) \/ Peek(t) \/ Forget(t)
                 \/ \E kind \in Kind : Begin(t, kind)
          PROVE  stored' = stored
      BY <3>3 DEF Enter, Load, Keep, Answer, Count, Bump, Prior, Reset, Delete, Clear, Peek, Forget, Begin
    <3>4. ASSUME Evict \/ Tick \/ \E q \in Process : Restart(q) PROVE stored' = stored
      BY <3>4 DEF Evict, Tick, Restart
    <3>5. QED
      BY <3>1, <3>2, <3>3, <3>4 DEF Next, StepOf, vars
  <2>2. QED
    BY <1>0, <2>1 DEF Times
<1>3. ASSUME NEW p \in Process PROVE cacheAt'[p] <= now'
  <2>1. \/ cacheAt'[p] \in {cacheAt[p], Stale}
        \/ \E t \in Thread : cacheAt'[p] = op[t].asked
    <3>1. ASSUME NEW t \in Thread, Load(t) \/ Keep(t) PROVE cacheAt'[p] \in {cacheAt[p], op[t].asked}
      BY <3>1 DEF Load, Keep, TypeOK
    <3>2. ASSUME NEW t \in Thread, Reset(t) \/ Forget(t) PROVE cacheAt'[p] \in {cacheAt[p], Stale}
      BY <3>2 DEF Reset, Forget, Invalidate, TypeOK
    <3>3. ASSUME NEW q \in Process, Restart(q) PROVE cacheAt'[p] \in {cacheAt[p], Stale}
      BY <3>3 DEF Restart, TypeOK
    <3>4. ASSUME NEW t \in Thread,
                 \/ Enter(t) \/ Answer(t) \/ Count(t) \/ Bump(t) \/ Prior(t) \/ Store(t) \/ Delete(t)
                 \/ Clear(t) \/ Peek(t) \/ Poke(t) \/ \E kind \in Kind : Begin(t, kind)
          PROVE  cacheAt' = cacheAt
      BY <3>4 DEF Enter, Answer, Count, Bump, Prior, Store, Delete, Clear, Peek, Poke, Begin
    <3>5. Evict \/ Tick => cacheAt' = cacheAt
      BY DEF Evict, Tick
    <3>6. QED
      BY <3>1, <3>2, <3>3, <3>4, <3>5 DEF Next, StepOf, vars
  <2>2. cacheAt[p] <= now /\ Stale <= now /\ \A t \in Thread : op[t].asked <= now
    BY TimeTypes DEF Times
  <2>3. cacheAt'[p] <= now
    BY <2>1, <2>2
  <2>4. cacheAt[p] \in Int /\ Stale \in Int /\ \A t \in Thread : op[t].asked \in Int
    BY TimeTypes
  <2>5. cacheAt'[p] \in Int
    BY <2>1, <2>4
  <2>6. QED
    BY <1>0, <2>3, <2>5
<1>4. ASSUME NEW u \in Thread PROVE op'[u].at <= now' /\ op'[u].asked <= now'
  <2>0. op[u].at <= now /\ op[u].asked <= now /\ op[u].at \in Nat /\ op[u].asked \in Nat
    BY TimeTypes DEF Times
  <2>1. op'[u].at \in {op[u].at, now, 0} /\ op'[u].asked \in {op[u].asked, op[u].at, now, 0}
    <3>0. op[u] \in Op /\ Idle.at = 0 /\ Idle.asked = 0
      BY OpType DEF Idle
    <3>1. ASSUME NEW t \in Thread, NEW kind \in Kind, Begin(t, kind)
          PROVE  op'[u].at \in {op[u].at, now, 0} /\ op'[u].asked \in {op[u].asked, 0}
      BY <3>0, <3>1 DEF Begin, TypeOK, Idle
    <3>2. ASSUME NEW t \in Thread, Enter(t)
          PROVE  op'[u].at = op[u].at /\ op'[u].asked \in {op[u].asked, op[u].at, now, 0}
      <4>1. PICK q, x : op' = [op EXCEPT ![t].asked = x, ![t].pc = q]
                       /\ x \in {op[t].at, now, 0}
        BY <3>2 DEF Enter
      <4>2. op[t] \in Op
        BY OpType
      <4>3. /\ op'[t].at = op[t].at /\ op'[t].asked = x
            /\ t # u => op'[u] = op[u]
        BY <4>1, <4>2 DEF TypeOK, Op
      <4>4. QED
        BY <4>1, <4>3
    <3>3. ASSUME NEW t \in Thread, NEW o, op' = [op EXCEPT ![t] = o],
                 o.at \in {op[t].at, now, 0} /\ o.asked \in {op[t].asked, 0}
          PROVE  op'[u].at \in {op[u].at, now, 0} /\ op'[u].asked \in {op[u].asked, 0}
      BY <3>0, <3>3 DEF TypeOK
    <3>4. ASSUME NEW t \in Thread, Leave(t)
          PROVE  op'[u].at \in {op[u].at, now, 0} /\ op'[u].asked \in {op[u].asked, 0}
      BY <3>0, <3>4 DEF TypeOK, Leave
    <3>5. ASSUME NEW t \in Thread, NEW pc, Goto(t, pc)
          PROVE  op'[u].at \in {op[u].at, now, 0} /\ op'[u].asked \in {op[u].asked, 0}
      BY <3>0, <3>5 DEF TypeOK, Goto, Op
    <3>6. ASSUME NEW t \in Thread, NEW row, NEW pc, op' = [op EXCEPT ![t].pc = pc, ![t].row = row]
          PROVE  op'[u].at \in {op[u].at, now, 0} /\ op'[u].asked \in {op[u].asked, 0}
      BY <3>0, <3>6 DEF TypeOK, Op
    <3>7. ASSUME NEW t \in Thread, op' = [op EXCEPT ![t].pc = "store", ![t].row = ban, ![t].at = now]
          PROVE  op'[u].at \in {op[u].at, now, 0} /\ op'[u].asked \in {op[u].asked, 0}
      BY <3>0, <3>7 DEF TypeOK, Op
    <3>8. ASSUME NEW t \in Thread, NEW kind, op' = [op EXCEPT ![t] = [Idle EXCEPT !.kind = kind, !.pc = "reset"]]
          PROVE  op'[u].at \in {op[u].at, now, 0} /\ op'[u].asked \in {op[u].asked, 0}
      BY <3>0, <3>8 DEF TypeOK, Idle
    <3>9. ASSUME NEW p \in Process, Restart(p)
          PROVE  op'[u].at \in {op[u].at, now, 0} /\ op'[u].asked \in {op[u].asked, 0}
      BY <3>0, <3>9 DEF Restart
    <3>10. ASSUME NEW t \in Thread, StepOf(t), ~Enter(t)
           PROVE  op'[u].at \in {op[u].at, now, 0} /\ op'[u].asked \in {op[u].asked, 0}
      <4>0. ASSUME NEW row, NEW pc, op' = [op EXCEPT ![t].pc = pc, ![t].read = row]
            PROVE  op'[u].at \in {op[u].at, now, 0} /\ op'[u].asked \in {op[u].asked, 0}
        BY <3>0, <4>0 DEF TypeOK, Op
      <4>1. CASE Load(t) \/ Keep(t)
        BY <3>5, <3>6, <4>1 DEF Load, Keep
      <4>2. CASE Answer(t) \/ Count(t) \/ Bump(t) \/ Reset(t) \/ Delete(t) \/ Clear(t) \/ Forget(t)
        BY <3>4, <3>5, <4>0, <4>2 DEF Answer, Count, Bump, Reset, Delete, Clear, Forget
      <4>3. CASE Prior(t)
        BY <3>4, <3>7, <4>3 DEF Prior
      <4>4. CASE Store(t)
        BY <3>8, <4>4 DEF Store
      <4>5. CASE Peek(t) \/ Poke(t)
        BY <3>4, <3>6, <4>5 DEF Peek, Poke
      <4>6. QED
        BY <3>10, <4>1, <4>2, <4>3, <4>4, <4>5 DEF StepOf
    <3>11. QED
      BY <3>1, <3>2, <3>9, <3>10 DEF Next, Evict, Tick, vars
  <2>2. QED
    BY <1>0, <2>0, <2>1
<1>5. QED
  BY <1>1, <1>2, <1>3, <1>4 DEF Times

-----------------------------------------------------------------------------
\* An older copy may say less.
LEMMA SoundEarlier ==
    ASSUME TypeOK, NEW p \in Process, NEW row, NEW time \in Int, NEW earlier \in Int,
           earlier <= time, Sound(p, row, time)
    PROVE  Sound(p, row, earlier)
<1>1. lifted \in Int /\ stored.at \in Int
  BY TimeTypes
<1>2. QED
  BY <1>1 DEF Sound

\* A process whose threads leave the lock alone.
LEMMA QuietSound ==
    ASSUME Inv, [Next]_vars, TypeOK', NEW p \in Process, ~Restart(p),
           \A t \in Thread : ProcessOf[t] = p => ~Held(t)
    PROVE  CacheSound(p)' /\ \A u \in Thread : ProcessOf[u] = p => ThreadSound(u)'
<1>1. Mild(p)
  BY MildStep DEF Inv, Held
<1>2. /\ cache'[p] = cache[p] /\ blind'[p] = blind[p] /\ cacheAt'[p] \in {cacheAt[p], Stale}
      /\ \A u \in Thread : ProcessOf[u] = p /\ (op[u].pc \in Locked \/ op'[u].pc \in Locked) =>
            op'[u] = op[u]
  BY Quiet DEF Inv
<1>3. ASSUME NEW row, NEW time \in Int, time <= now, Sound(p, row, time)
      PROVE  Sound(p, row, time)'
  BY <1>1, <1>3, SoundStays DEF Inv, Times
<1>4. CacheSound(p)'
  <2> SUFFICES ASSUME ~blind'[p], cacheAt'[p] # Stale,
                      ~ \E t \in Thread : ProcessOf[t] = p /\ At(t, "reset")'
               PROVE  Sound(p, cache[p], cacheAt[p])'
    BY <1>2 DEF CacheSound, Sound
  <2>1. ~blind[p] /\ cacheAt'[p] = cacheAt[p] /\ cacheAt[p] # Stale
    BY <1>2
  <2>2. ~ \E t \in Thread : ProcessOf[t] = p /\ At(t, "reset")
    BY <1>2 DEF At, Locked
  <2>3. Sound(p, cache[p], cacheAt[p])
    BY <2>1, <2>2 DEF Inv, CacheSound
  <2>4. cacheAt[p] \in Int /\ cacheAt[p] <= now
    BY TimeTypes DEF Inv, Times
  <2>5. QED
    BY <1>2, <1>3, <2>1, <2>3, <2>4 DEF Sound
<1>5. ASSUME NEW u \in Thread, ProcessOf[u] = p PROVE ThreadSound(u)'
  <2>1. CASE op'[u].pc \notin Locked
    BY <2>1 DEF ThreadSound, At, Locked
  <2>2. CASE op'[u].pc \in Locked
    <3>1. op'[u] = op[u] /\ ThreadSound(u)
      BY <1>2, <1>5, <2>2 DEF Inv
    <3>2. /\ op[u].asked \in Int /\ op[u].asked <= now
          /\ Oldest(u) \in Int /\ Oldest(u) <= now
      BY TimeTypes DEF Inv, Times, Oldest
    <3>3. At(u, "keep") => Sound(p, op[u].row, op[u].asked)'
      BY <1>3, <1>5, <3>1, <3>2 DEF ThreadSound, Sound
    <3>4. At(u, "judge") /\ ~blind[p] => Sound(p, cache[p], Oldest(u))'
      BY <1>2, <1>3, <1>5, <3>1, <3>2 DEF ThreadSound, Sound, Oldest
    <3>5. op[u].pc \in {"bump", "prior", "store"} /\ op[u].kind = "offence" /\ ~blind[p] =>
             Sound(p, None, Oldest(u))'
      BY <1>3, <1>5, <3>1, <3>2 DEF ThreadSound, Sound, Oldest
    <3>6. QED
      BY <1>2, <1>5, <3>1, <3>3, <3>4, <3>5 DEF ThreadSound, At
  <2>3. QED
    BY <2>1, <2>2
<1>6. QED
  BY <1>4, <1>5

\* A process that has just died, and knows nothing.
LEMMA RestartSound ==
    ASSUME Inv, NEW p \in Process, Restart(p)
    PROVE  CacheSound(p)' /\ \A u \in Thread : ProcessOf[u] = p => ThreadSound(u)'
<1>1. cacheAt'[p] = Stale /\ \A u \in Thread : ProcessOf[u] = p => op'[u] = Idle
  BY DEF Restart, Inv, TypeOK
<1>2. QED
  BY <1>1 DEF CacheSound, ThreadSound, At, Idle

\* A process one of whose threads works under the lock: the others are elsewhere.
LEMMA OnlyHolder ==
    ASSUME TypeOK, NEW t \in Thread, Held(t)
    PROVE  /\ Enter(t) \/ op[t].pc \in Locked
           /\ \A u \in Thread \ {t} :
                 ProcessOf[u] = ProcessOf[t] => op[u].pc \notin Locked /\ op'[u] = op[u]
<1>1. Enter(t) \/ op[t].pc \in Locked
  BY DEF Held, Load, Keep, Answer, Count, Bump, Prior, Store, Reset, At, Locked
<1>2. lock[ProcessOf[t]] \in {None, t}
  BY <1>1 DEF Enter, TypeOK
<1>3. None \notin Thread
  BY ThreadAssumption
<1>4. QED
  BY <1>1, <1>2, <1>3, HeldStep DEF TypeOK

LEMMA HeldSound ==
    ASSUME Inv, NEW t \in Thread, Held(t)
    PROVE  CacheSound(ProcessOf[t])' /\ ThreadSound(t)'
<1> DEFINE p == ProcessOf[t]
           o == op[t]
<1> USE DEF memory, history
<1>0. /\ TypeOK /\ p \in Process /\ o \in Op
      /\ now \in Nat /\ o.asked \in Nat /\ o.asked <= now /\ o.at \in Nat /\ o.at <= now
      /\ cacheAt[p] \in Int /\ CacheTTL \in Nat /\ CacheTTL > 0 /\ Stale = 0 - CacheTTL
      /\ Oldest(t) = o.asked - CacheTTL + 1
  BY OpType, TimeTypes, ThreadAssumption DEF Inv, Times, Oldest, Stale
\* The copy is as it was, and what it may say too.
<1>1. ASSUME UNCHANGED <<now, ban, stored, lifted>>, cache'[p] = cache[p], cacheAt'[p] = cacheAt[p],
             blind'[p] = blind[p], ~At(t, "reset")
      PROVE  CacheSound(p)'
  <2>1. ~ \E u \in Thread : ProcessOf[u] = p /\ At(u, "reset")
    BY <1>0, <1>1, OnlyHolder DEF At, Locked
  <2>2. CASE ~blind[p] /\ cacheAt[p] # Stale
    <3>1. Sound(p, cache[p], cacheAt[p])
      BY <1>0, <2>1, <2>2 DEF Inv, CacheSound
    <3>2. QED
      BY <1>1, <3>1 DEF CacheSound, Sound, InForce
  <2>3. QED
    BY <1>1, <2>2 DEF CacheSound, Stale
<1>2. CASE Enter(t)
  <2> DEFINE asked == IF o.kind = "gate" THEN o.at ELSE now
             time == IF o.kind = "ban" THEN 0 ELSE asked
             pc == IF o.kind = "ban" THEN "prior"
                   ELSE IF MustRead(p, asked) THEN "load" ELSE "judge"
  <2>1. /\ op' = [op EXCEPT ![t].asked = time, ![t].pc = pc] /\ o.pc = "wait" /\ lock[p] = None
        /\ UNCHANGED <<now, ban, stored, lifted, cache, cacheAt, blind>>
    BY <1>2 DEF Enter, At
  <2>2. op'[t].asked = time /\ op'[t].pc = pc /\ op'[t].kind = o.kind
    BY <1>0, <2>1 DEF TypeOK, Op
  <2>3. CacheSound(p)'
    BY <1>1, <2>1 DEF At
  <2>4. ASSUME pc = "judge", ~blind[p] PROVE Sound(p, cache[p], time - CacheTTL + 1)
    <3>1. asked \in Nat /\ time = asked /\ asked - cacheAt[p] < CacheTTL
      BY <1>0, <2>4 DEF MustRead
    <3>2. cacheAt[p] # Stale
      BY <1>0, <3>1
    <3>3. ~ \E u \in Thread : ProcessOf[u] = p /\ At(u, "reset")
      BY <1>0, <2>1, OnlyHolder DEF At, Locked
    <3>4. Sound(p, cache[p], cacheAt[p])
      BY <1>0, <2>4, <3>2, <3>3 DEF Inv, CacheSound
    <3>5. QED
      BY <1>0, <3>1, <3>4, SoundEarlier
  <2>5. pc # "keep" /\ pc # "store" /\ pc # "bump" /\ (pc = "prior" => o.kind = "ban")
    OBVIOUS
  <2> HIDE DEF pc, time
  <2>6. QED
    BY <2>1, <2>2, <2>3, <2>4, <2>5 DEF ThreadSound, At, Oldest, Sound, InForce
<1>3. CASE Load(t)
  <2>1. o.pc = "load" /\ UNCHANGED <<now, ban, cache, stored, lifted>>
    BY <1>3 DEF Load, At
  <2>2. CASE /\ op' = [op EXCEPT ![t].pc = "keep",
                                 ![t].row = IF InForce(ban, o.asked) THEN ban ELSE None]
             /\ UNCHANGED <<cacheAt, blind, events>>
    <3>1. /\ op'[t].pc = "keep" /\ op'[t].asked = o.asked
          /\ op'[t].row = IF InForce(ban, o.asked) THEN ban ELSE None
      BY <1>0, <2>2 DEF TypeOK, Op
    <3>2. CacheSound(p)'
      BY <1>1, <2>1, <2>2 DEF At
    <3>3. ban # None /\ ~InForce(ban, o.asked) => ~InForce(ban, now)
      BY <1>0 DEF InForce
    <3>4. Sound(p, op'[t].row, o.asked)
      BY <3>1, <3>3 DEF Sound
    <3>5. QED
      BY <2>1, <3>1, <3>2, <3>4 DEF ThreadSound, At, Sound, InForce
  <2>3. CASE Goto(t, "judge") /\ blind' = [blind EXCEPT ![p] = TRUE]
    <3>1. op'[t].pc = "judge" /\ blind'[p]
      BY <1>0, <2>3, Goes DEF TypeOK
    <3>2. QED
      BY <3>1 DEF CacheSound, ThreadSound, At
  <2>4. QED
    BY <1>3, <2>2, <2>3 DEF Load
<1>4. CASE Keep(t)
  <2>1. o.pc = "keep" /\ UNCHANGED <<now, ban, stored, lifted>>
    BY <1>4 DEF Keep, At
  <2>2. cache'[p] = o.row /\ cacheAt'[p] = o.asked /\ op'[t].pc = "judge" /\ op'[t].asked = o.asked
    BY <1>0, <1>4 DEF Keep, TypeOK, Op
  <2>3. Sound(p, o.row, o.asked)
    BY <2>1 DEF Inv, ThreadSound, At
  <2>4. Sound(p, o.row, o.asked - CacheTTL + 1)
    BY <1>0, <2>3, SoundEarlier
  <2>5. QED
    BY <2>1, <2>2, <2>3, <2>4 DEF CacheSound, ThreadSound, At, Sound, InForce, Oldest
<1>5. CASE Answer(t)
  <2>1. op'[t].pc = "idle"
    BY <1>0, <1>5, LeaveStep, IdleType DEF Answer
  <2>2. CacheSound(p)'
    BY <1>1, <1>5 DEF Answer, At
  <2>3. QED
    BY <2>1, <2>2 DEF ThreadSound, At
<1>11. CASE Count(t)
  <2>1. o.pc = "judge" /\ UNCHANGED <<now, ban, cache, cacheAt, stored, lifted, blind>> /\ ~Jailed(t)
    BY <1>11 DEF Count, At
  <2>2. CacheSound(p)'
    BY <1>1, <2>1 DEF At
  <2>3. CASE op' = [op EXCEPT ![t].pc = "bump", ![t].read = counter]
    <3>1. op'[t].pc = "bump" /\ op'[t].asked = o.asked
      BY <1>0, <2>3 DEF TypeOK, Op
    <3>2. ASSUME ~blind[p] PROVE Sound(p, None, Oldest(t))
      <4>1. Sound(p, cache[p], Oldest(t))
        BY <2>1, <3>2 DEF Inv, ThreadSound, At
      <4>2. cache[p] = ban => ~InForce(ban, now)
        <5>1. o.asked \in Nat /\ now \in Nat /\ o.asked <= now
          BY <1>0, TimeTypes DEF Inv, Times
        <5>2. ~InForce(cache[p], o.asked)
          BY <2>1 DEF Jailed
        <5>3. QED
          BY <5>1, <5>2 DEF InForce
      <4>3. QED
        BY <4>1, <4>2 DEF Sound
    <3>3. QED
      BY <2>1, <2>2, <3>1, <3>2 DEF ThreadSound, At, Sound, InForce, Oldest
  <2>4. CASE Leave(t)
    BY <1>0, <2>2, <2>4, LeaveStep, IdleType DEF ThreadSound, At
  <2>5. QED
    BY <1>11, <2>3, <2>4 DEF Count
<1>6. CASE Bump(t)
  <2>1. o.pc = "bump" /\ UNCHANGED <<now, ban, cache, cacheAt, stored, lifted, blind>>
    BY <1>6 DEF Bump, At
  <2>2. CacheSound(p)'
    BY <1>1, <2>1 DEF At
  <2>3. CASE op' = [op EXCEPT ![t].pc = "prior", ![t].read = None]
    <3>1. op'[t].pc = "prior" /\ op'[t].asked = o.asked /\ op'[t].kind = o.kind
      BY <1>0, <2>3 DEF TypeOK, Op
    <3>2. ~blind[p] /\ o.kind = "offence" => Sound(p, None, Oldest(t))
      BY <2>1 DEF Inv, ThreadSound
    <3>3. QED
      BY <2>1, <2>2, <3>1, <3>2 DEF ThreadSound, At, Sound, InForce, Oldest
  <2>4. CASE Leave(t)
    BY <1>0, <2>2, <2>4, LeaveStep, IdleType DEF ThreadSound, At
  <2>5. QED
    BY <1>6, <2>3, <2>4 DEF Bump
<1>7. CASE Prior(t)
  <2>1. o.pc = "prior" /\ UNCHANGED <<now, ban, cache, cacheAt, stored, lifted, blind>>
    BY <1>7 DEF Prior, At
  <2>2. CacheSound(p)'
    BY <1>1, <2>1 DEF At
  <2>3. CASE op' = [op EXCEPT ![t].pc = "store", ![t].row = ban, ![t].at = now]
    <3>1. op'[t].pc = "store" /\ op'[t].asked = o.asked /\ op'[t].kind = o.kind
      BY <1>0, <2>3 DEF TypeOK, Op
    <3>2. ~blind[p] /\ o.kind = "offence" => Sound(p, None, Oldest(t))
      BY <2>1 DEF Inv, ThreadSound
    <3>3. QED
      BY <2>1, <2>2, <3>1, <3>2 DEF ThreadSound, At, Sound, InForce, Oldest
  <2>4. CASE Leave(t)
    BY <1>0, <2>2, <2>4, LeaveStep, IdleType DEF ThreadSound, At
  <2>5. QED
    BY <1>7, <2>3, <2>4 DEF Prior
<1>8. CASE Store(t)
  <2>1. op'[t].pc = "reset"
    BY <1>0, <1>8 DEF Store, TypeOK, Idle
  <2>2. QED
    BY <2>1 DEF CacheSound, ThreadSound, At
<1>9. CASE Reset(t)
  <2>1. op'[t].pc = "idle" /\ cacheAt'[p] = Stale
    BY <1>0, <1>9, LeaveStep, IdleType DEF Reset, Invalidate, TypeOK
  <2>2. QED
    BY <2>1 DEF CacheSound, ThreadSound, At, Stale
<1>10. QED
  BY <1>2, <1>3, <1>4, <1>5, <1>6, <1>7, <1>8, <1>9, <1>11 DEF Held

LEMMA InvInit == Init => Inv
<1> SUFFICES ASSUME Init PROVE Inv
  OBVIOUS
<1>1. TypeOK
  BY TypeInit
<1>2. Times
  BY <1>1, TimeTypes, IdleType DEF Init, Times, Idle
<1>3. \A p \in Process : CacheSound(p)
  BY DEF Init, CacheSound
<1>4. \A t \in Thread : ThreadSound(t)
  BY DEF Init, ThreadSound, At, Idle
<1>5. QED
  BY <1>1, <1>2, <1>3, <1>4 DEF Inv

LEMMA InvStep == Inv /\ [Next]_vars => Inv'
<1> SUFFICES ASSUME Inv, [Next]_vars PROVE Inv'
  OBVIOUS
<1>1. TypeOK' /\ Times'
  BY TypeStep, TimesStep DEF Inv
<1>2. ASSUME NEW p \in Process
      PROVE  CacheSound(p)' /\ \A u \in Thread : ProcessOf[u] = p => ThreadSound(u)'
  <2>1. CASE Restart(p)
    BY <2>1, RestartSound
  <2>2. ASSUME NEW t \in Thread, ProcessOf[t] = p, Held(t)
        PROVE  CacheSound(p)' /\ \A u \in Thread : ProcessOf[u] = p => ThreadSound(u)'
    <3>1. CacheSound(p)' /\ ThreadSound(t)'
      BY <2>2, HeldSound
    <3>2. \A u \in Thread \ {t} : ProcessOf[u] = p => op'[u].pc \notin Locked
      BY <2>2, OnlyHolder DEF Inv
    <3>3. \A u \in Thread \ {t} : ProcessOf[u] = p => ThreadSound(u)'
      BY <3>2 DEF ThreadSound, At, Locked
    <3>4. QED
      BY <3>1, <3>3
  <2>3. QED
    BY <1>1, <2>1, <2>2, QuietSound
<1>3. \A t \in Thread : ThreadSound(t)'
  BY <1>2, ThreadsOfProcesses
<1>4. QED
  BY <1>1, <1>2, <1>3 DEF Inv

LEMMA Invariance == Spec => []Inv
BY InvInit, InvStep, PTL DEF Spec

-----------------------------------------------------------------------------
LEMMA JudgedSound ==
    ASSUME Inv, NEW t \in Thread, At(t, "judge"), ~blind[ProcessOf[t]]
    PROVE  /\ Sound(ProcessOf[t], cache[ProcessOf[t]], op[t].asked - CacheTTL + 1)
           /\ op[t].asked \in Nat /\ op[t].asked <= now /\ now \in Nat
           /\ CacheTTL \in Nat /\ CacheTTL > 0 /\ lifted \in Int /\ stored.at \in Nat
BY TimeTypes DEF Inv, Times, ThreadSound, Oldest

\* Nobody is turned away for a ban that is out of the table for as long as the copy may be old.
THEOREM LiftedIsLifted == Spec => LiftedEverywhere
<1> DEFINE A == \A t \in Thread : Answer(t) /\ Jailed(t) /\ ~blind[ProcessOf[t]] =>
                   \/ InForce(ban, op[t].asked)
                   \/ op[t].asked < lifted + CacheTTL
<1>1. Inv => A
  <2> SUFFICES ASSUME Inv, NEW t \in Thread, Answer(t), Jailed(t), ~blind[ProcessOf[t]],
                      ~InForce(ban, op[t].asked)
               PROVE  op[t].asked < lifted + CacheTTL
    OBVIOUS
  <2> DEFINE row == cache[ProcessOf[t]]
  <2>1. At(t, "judge")
    BY DEF Answer
  <2>2. row # None /\ row # ban /\ (row.until \in Nat => op[t].asked < row.until)
    BY DEF Jailed, InForce
  <2>3. op[t].asked - CacheTTL + 1 <= lifted \/ (row.until \in Nat /\ row.until <= lifted)
    <3>1. Sound(ProcessOf[t], row, op[t].asked - CacheTTL + 1)
      BY <2>1, JudgedSound
    <3>2. QED
      BY <2>2, <3>1 DEF Sound
  <2>4. QED
    BY <2>1, <2>2, <2>3, JudgedSound
<1>2. QED
  BY <1>1, Invariance, PTL DEF Spec, LiftedEverywhere

\* A ban that has been in the table for as long as the copy may be old is enforced by every
\* process that can read the table.
THEOREM BansAreEnforced == Spec => EnforcedEverywhere
<1> DEFINE A == \A t \in Thread :
                   /\ At(t, "judge") /\ (Answer(t) \/ Count(t)) /\ ~blind[ProcessOf[t]]
                   /\ InForce(ban, now) /\ stored.at + CacheTTL <= op[t].asked
                   => Jailed(t)
<1>1. Inv => A
  <2> SUFFICES ASSUME Inv, NEW t \in Thread, At(t, "judge"), ~blind[ProcessOf[t]],
                      InForce(ban, now), stored.at + CacheTTL <= op[t].asked
               PROVE  Jailed(t)
    OBVIOUS
  <2>1. ban # None /\ stored.at < op[t].asked - CacheTTL + 1
    BY JudgedSound DEF InForce
  <2>2. cache[ProcessOf[t]] = ban
    BY <2>1, JudgedSound DEF Sound
  <2>3. QED
    BY <2>2, JudgedSound DEF Jailed, InForce
<1>2. QED
  BY <1>1, Invariance, PTL DEF Spec, EnforcedEverywhere

\* An offence replaces a ban in force only if another process, or a hand, stored that ban so
\* lately that the copy of the process need not hold it.
THEOREM JailedAreNotRecounted == Spec => JailedIsNotRecounted
<1> DEFINE A == \A t \in Thread :
                   /\ Store(t) /\ ban' # ban /\ op[t].kind = "offence"
                   /\ InForce(ban, now) /\ ~blind[ProcessOf[t]]
                   => stored.by # ProcessOf[t] /\ op[t].asked < stored.at + CacheTTL
<1>1. Inv => A
  <2> SUFFICES ASSUME Inv, NEW t \in Thread, Store(t), op[t].kind = "offence",
                      InForce(ban, now), ~blind[ProcessOf[t]]
               PROVE  stored.by # ProcessOf[t] /\ op[t].asked < stored.at + CacheTTL
    OBVIOUS
  <2>1. Sound(ProcessOf[t], None, Oldest(t)) /\ ban # None
    BY DEF Inv, ThreadSound, Store, At, InForce
  <2>2. ~ (stored.at < Oldest(t)) /\ stored.by # ProcessOf[t]
    BY <2>1 DEF Sound
  <2>3. QED
    BY <2>2, TimeTypes DEF Inv, Oldest
<1>2. QED
  BY <1>1, Invariance, PTL DEF Spec, JailedIsNotRecounted

(***************************************************************************)
(* The counter never says more than was counted: a count that is not mixed, *)
(* the row's or one a thread has read of it, is at most the number of       *)
(* offences since the period began.                                         *)
(***************************************************************************)
Since(h, start) == {k \in DOMAIN h : h[k] >= start}

Vouched(row) == Cardinality(Since(hits, row.start)) >= row.count

RowHonest == counter # None => counter.start <= now /\ (None \notin mixed => Vouched(counter))

ReadHonest(t) ==
    At(t, "bump") /\ op[t].read # None =>
        op[t].read.start <= now /\ (t \notin mixed => Vouched(op[t].read))

HonestInv == Inv /\ RowHonest /\ \A t \in Thread : ReadHonest(t)

LEMMA HitsFinite ==
    ASSUME TypeOK, NEW start
    PROVE  /\ IsFiniteSet(Since(hits, start)) /\ Cardinality(Since(hits, start)) \in Nat
           /\ DOMAIN hits = 1 .. Len(hits) /\ Len(hits) \in Nat
           /\ \A k \in DOMAIN hits : hits[k] \in Nat
<1>1. /\ DOMAIN hits = 1 .. Len(hits) /\ Len(hits) \in Nat
      /\ \A k \in DOMAIN hits : hits[k] \in Time
  BY DEF TypeOK
<1>2. IsFiniteSet(1 .. Len(hits))
  BY <1>1, FS_Interval
<1>3. Since(hits, start) \subseteq 1 .. Len(hits)
  BY <1>1 DEF Since
<1>4. IsFiniteSet(Since(hits, start)) /\ Cardinality(Since(hits, start)) \in Nat
  BY <1>2, <1>3, FS_Subset, FS_CardinalityType
<1>5. QED
  BY <1>1, <1>4, SizeAssumption DEF Time

\* An offence that is counted is one more of its period.
LEMMA OneMore ==
    ASSUME HonestInv, hits' = Append(hits, now), NEW start \in Nat, start <= now
    PROVE  /\ Cardinality(Since(hits', start)) = Cardinality(Since(hits, start)) + 1
           /\ Cardinality(Since(hits, start)) \in Nat
<1> DEFINE last == Len(hits) + 1
<1>1. now \in Nat
  BY TimeTypes DEF HonestInv, Inv
<1>2. /\ DOMAIN hits = 1 .. Len(hits) /\ Len(hits) \in Nat /\ \A k \in DOMAIN hits : hits[k] \in Nat
  BY HitsFinite DEF HonestInv, Inv
<1>3. DOMAIN hits' = 1 .. last /\ hits'[last] = now /\ \A k \in DOMAIN hits : hits'[k] = hits[k]
  BY <1>1, <1>2 DEF HonestInv, Inv, TypeOK
<1>4. Since(hits', start) = Since(hits, start) \cup {last} /\ last \notin Since(hits, start)
  BY <1>1, <1>2, <1>3 DEF Since
<1>5. IsFiniteSet(Since(hits, start)) /\ Cardinality(Since(hits, start)) \in Nat
  BY HitsFinite DEF HonestInv, Inv
<1>6. Cardinality(Since(hits, start) \cup {last}) = Cardinality(Since(hits, start)) + 1
  BY <1>4, <1>5, FS_AddElement
<1>7. QED
  BY <1>4, <1>5, <1>6

\* Times and rows of a thread about to write its count.
LEMMA BumpTypes ==
    ASSUME HonestInv, NEW t \in Thread, At(t, "bump")
    PROVE  /\ op[t].at \in Nat /\ op[t].at <= now /\ now \in Nat /\ Period \in Nat /\ Period > 0
           /\ Counted(op[t].read, op[t].at) \in Nat
           /\ op[t].read # None => /\ op[t].read.start \in Nat /\ op[t].read.count \in Nat
                                   /\ op[t].read.start <= now
<1>1. op[t] \in Op
  BY OpType DEF HonestInv, Inv
<1>2. op[t].read # None => op[t].read.start \in Nat /\ op[t].read.count \in Nat
  BY <1>1, SizeAssumption DEF Op, Counter, Time
<1>3. op[t].read # None => op[t].read.start <= now
  BY DEF HonestInv, ReadHonest
<1>4. /\ op[t].at \in Nat /\ op[t].at <= now /\ now \in Nat /\ Period \in Nat /\ Period > 0
  BY TimeTypes, SizeAssumption DEF HonestInv, Inv, Times
<1>5. Counted(op[t].read, op[t].at) \in Nat
  BY <1>2, <1>4 DEF Counted, Opens
<1>6. QED
  BY <1>2, <1>3, <1>4, <1>5

\* What a thread whose count is not mixed judges by has been counted in one period.
LEMMA BumpCounts ==
    ASSUME HonestInv, NEW t \in Thread, At(t, "bump"), t \notin mixed, hits' = Append(hits, now)
    PROVE  \E start \in Nat : /\ op[t].at - Period < start
                              /\ Cardinality(Since(hits', start)) >= Counted(op[t].read, op[t].at)
<1> DEFINE time == op[t].at
           row == op[t].read
<1>1. CASE Opens(row, time)
  <2>1. /\ Cardinality(Since(hits', time)) = Cardinality(Since(hits, time)) + 1
        /\ Cardinality(Since(hits, time)) \in Nat
    BY BumpTypes, OneMore
  <2>2. time \in Nat /\ time - Period < time
    BY BumpTypes
  <2>3. QED
    BY <1>1, <2>1, <2>2 DEF Counted
<1>2. CASE ~Opens(row, time)
  <2>1. row # None /\ row.start \in Nat /\ row.start <= now /\ row.count \in Nat /\ time - Period < row.start
    BY <1>2, BumpTypes DEF Opens
  <2>2. /\ Cardinality(Since(hits', row.start)) = Cardinality(Since(hits, row.start)) + 1
        /\ Cardinality(Since(hits, row.start)) \in Nat
    BY <2>1, OneMore
  <2>3. Cardinality(Since(hits, row.start)) >= row.count
    BY <2>1 DEF HonestInv, ReadHonest, Vouched
  <2>4. QED
    BY <1>2, <2>1, <2>2, <2>3 DEF Counted
<1>3. QED
  BY <1>1, <1>2

LEMMA RowTimes ==
    ASSUME TypeOK
    PROVE  /\ counter # None => counter.start \in Nat /\ counter.count \in Nat
           /\ \A t \in Thread : op[t].read # None => op[t].read.start \in Nat /\ op[t].read.count \in Nat
<1>1. \A t \in Thread : op[t] \in Op
  BY DEF TypeOK
<1>2. QED
  BY <1>1, SizeAssumption DEF TypeOK, Op, Counter, Time

\* What is not written stays honest.
LEMMA HonestStays ==
    ASSUME HonestInv, now \in Nat, now' \in Nat, now <= now',
           hits' = hits \/ (hits' = Append(hits, now) /\ now' = now)
    PROVE  /\ UNCHANGED counter /\ (None \notin mixed' => None \notin mixed) => RowHonest'
           /\ \A u \in Thread :
                 /\ At(u, "bump")' => op'[u] = op[u]
                 /\ At(u, "bump")' /\ u \notin mixed' => u \notin mixed
                 => ReadHonest(u)'
<1>1. ASSUME NEW start \in Nat, start <= now, NEW count \in Nat,
             Cardinality(Since(hits, start)) >= count
      PROVE  Cardinality(Since(hits', start)) >= count
  <2>1. CASE hits' = hits
    BY <1>1, <2>1
  <2>2. CASE hits' = Append(hits, now)
    BY <1>1, <2>2, OneMore
  <2>3. QED
    BY <2>1, <2>2
<1>2. ASSUME UNCHANGED counter, None \notin mixed' => None \notin mixed PROVE RowHonest'
  BY <1>1, <1>2, RowTimes DEF HonestInv, Inv, RowHonest, Vouched
<1>3. ASSUME NEW u \in Thread, At(u, "bump")' => op'[u] = op[u],
             At(u, "bump")' /\ u \notin mixed' => u \notin mixed
      PROVE  ReadHonest(u)'
  <2> SUFFICES ASSUME At(u, "bump")', op'[u].read # None
               PROVE  op'[u].read.start <= now' /\ (u \notin mixed' => Vouched(op[u].read)')
    BY DEF ReadHonest
  <2>1. op'[u] = op[u] /\ At(u, "bump")
    BY <1>3 DEF At
  <2>2. op[u].read # None /\ op[u].read.start \in Nat /\ op[u].read.count \in Nat
    BY <2>1, RowTimes DEF HonestInv, Inv
  <2>3. op[u].read.start <= now /\ (u \notin mixed => Vouched(op[u].read))
    BY <2>1, <2>2 DEF HonestInv, ReadHonest
  <2>4. QED
    BY <1>1, <1>3, <2>1, <2>2, <2>3 DEF Vouched
<1>4. QED
  BY <1>2, <1>3

\* The write of a count: another thread's count is as it was, the row's is of its period, or mixed.
LEMMA BumpHonest ==
    ASSUME HonestInv, NEW t \in Thread, Bump(t)
    PROVE  RowHonest' /\ \A u \in Thread : ReadHonest(u)'
<1> DEFINE row == op[t].read
           time == op[t].at
           fresh == Opens(row, time)
           count == Counted(row, time)
<1>0. At(t, "bump") /\ now' = now /\ now \in Nat /\ None \notin Thread
  BY TimeTypes, ThreadAssumption DEF Bump, HonestInv, Inv
<1>1. \A u \in Thread : At(u, "bump")' => u # t /\ op'[u] = op[u]
  <2>1. \A u \in Thread \ {t} : op'[u] = op[u]
    BY HeldStep DEF Held, HonestInv, Inv
  <2>2. op'[t].pc # "bump"
    <3>1. CASE Leave(t)
      BY <3>1, LeaveStep, IdleType DEF HonestInv, Inv
    <3>2. CASE op' = [op EXCEPT ![t].pc = "prior", ![t].read = None]
      BY <3>2 DEF HonestInv, Inv, TypeOK, Op
    <3>3. QED
      BY <3>1, <3>2 DEF Bump
  <2>3. QED
    BY <2>1, <2>2 DEF At
<1>2. CASE /\ row = None => counter = None
           /\ counter' = IF row = None \/ (counter # None /\ fresh) THEN [count |-> 1, start |-> time]
                         ELSE IF counter = None THEN None
                         ELSE [counter EXCEPT !.count = count]
           /\ mixed' = IF fresh \/ (counter # None /\ t \notin mixed /\ counter.start = row.start)
                          THEN mixed \ {t, None}
                       ELSE (mixed \ {t}) \cup {None}
           /\ hits' = Append(hits, now)
  <2>1. \A u \in Thread \ {t} : u \notin mixed' => u \notin mixed
    BY <1>0, <1>2
  <2>2. \A u \in Thread : ReadHonest(u)'
    BY <1>0, <1>1, <1>2, <2>1, HonestStays
  <2>3. CASE counter' = [count |-> 1, start |-> time]
    <3>1. /\ Cardinality(Since(hits', time)) = Cardinality(Since(hits, time)) + 1
          /\ Cardinality(Since(hits, time)) \in Nat
      BY <1>0, <1>2, BumpTypes, OneMore
    <3>2. time <= now
      BY <1>0, BumpTypes
    <3>4. counter'.count = 1 /\ counter'.start = time
      BY <2>3
    <3>3. QED
      BY <1>0, <2>2, <2>3, <3>1, <3>2, <3>4 DEF RowHonest, Vouched
  <2>4. CASE row # None /\ counter # None /\ ~fresh /\ counter' = [counter EXCEPT !.count = count]
    <3>1. counter \in Counter /\ counter.start <= now
      BY <2>4 DEF HonestInv, Inv, TypeOK, RowHonest
    <3>2. counter'.start = counter.start /\ counter'.count = row.count + 1
      BY <2>4, <3>1 DEF Counter, Counted
    <3>3. ASSUME None \notin mixed' PROVE Vouched(counter)'
      <4>1. t \notin mixed /\ counter.start = row.start
        BY <1>2, <2>4, <3>3
      <4>2. row.start \in Nat /\ row.start <= now /\ row.count \in Nat
        BY <1>0, <2>4, BumpTypes
      <4>3. Cardinality(Since(hits, row.start)) >= row.count
        BY <1>0, <2>4, <4>1 DEF HonestInv, ReadHonest, Vouched
      <4>4. /\ Cardinality(Since(hits', row.start)) = Cardinality(Since(hits, row.start)) + 1
            /\ Cardinality(Since(hits, row.start)) \in Nat
        BY <1>2, <4>2, OneMore
      <4>5. QED
        BY <3>2, <4>1, <4>2, <4>3, <4>4 DEF Vouched
    <3>4. QED
      BY <1>0, <2>2, <3>1, <3>2, <3>3 DEF RowHonest
  <2>5. CASE counter' = None
    BY <2>2, <2>5 DEF RowHonest
  <2>6. row = None => fresh
    BY DEF Opens
  <2>7. \/ counter' = [count |-> 1, start |-> time]
        \/ row # None /\ counter # None /\ ~fresh /\ counter' = [counter EXCEPT !.count = count]
        \/ counter' = None
    BY <1>2, <2>6
  <2>8. QED
    BY <2>2, <2>3, <2>4, <2>5, <2>7
<1>3. CASE UNCHANGED <<counter, hits>> /\ mixed' = mixed \ {t}
  BY <1>0, <1>1, <1>3, HonestStays
<1>4. QED
  BY <1>2, <1>3 DEF Bump

LEMMA HonestStep == HonestInv /\ [Next]_vars => HonestInv'
<1> SUFFICES ASSUME HonestInv, [Next]_vars PROVE HonestInv'
  OBVIOUS
<1> USE DEF memory, history
<1> DEFINE Honest == RowHonest /\ \A u \in Thread : ReadHonest(u)
<1>0. Inv /\ TypeOK /\ Inv' /\ now \in Nat /\ now' \in Nat /\ now <= now' /\ None \notin Thread
  <2>1. Inv'
    BY InvStep DEF HonestInv
  <2>2. now' = now \/ now' = now + 1
    BY NowGrows
  <2>3. QED
    BY <2>1, <2>2, TimeTypes, ThreadAssumption DEF HonestInv, Inv
<1>1. ASSUME UNCHANGED <<counter, hits, mixed>>, \A u \in Thread : At(u, "bump")' => op'[u] = op[u]
      PROVE  Honest'
  BY <1>0, <1>1, HonestStays
\* The offences are forgotten: nobody's count is of what follows.
<1>2. ASSUME NEW t \in Thread, \A u \in Thread \ {t} : op'[u] = op[u], op'[t].pc # "bump", UNCHANGED now,
             hits' = << >>, Overtaken \subseteq mixed', counter' = None \/ (UNCHANGED counter /\ None \in mixed')
      PROVE  Honest'
  <2>1. RowHonest'
    BY <1>0, <1>2 DEF HonestInv, RowHonest
  <2>2. ASSUME NEW u \in Thread PROVE ReadHonest(u)'
    <3> SUFFICES ASSUME At(u, "bump")', op'[u].read # None
                 PROVE  op'[u].read.start <= now' /\ u \in mixed'
      BY DEF ReadHonest
    <3>1. op'[u] = op[u] /\ At(u, "bump")
      BY <1>2 DEF At
    <3>2. QED
      BY <1>2, <3>1 DEF HonestInv, ReadHonest, Overtaken
  <2>3. QED
    BY <2>1, <2>2
<1>3. ASSUME NEW t \in Thread, Count(t) PROVE Honest'
  <2>1. UNCHANGED <<now, counter, hits>> /\ \A u \in Thread \ {t} : op'[u] = op[u]
    BY <1>0, <1>3, HeldStep DEF Count, Held
  <2>2. CASE op' = [op EXCEPT ![t].pc = "bump", ![t].read = counter]
             /\ mixed' = IF None \in mixed THEN mixed \cup {t} ELSE mixed
    <3>1. op'[t].read = counter
      BY <1>0, <2>2 DEF TypeOK, Op
    <3>2. RowHonest' /\ \A u \in Thread \ {t} : ReadHonest(u)'
      BY <1>0, <2>1, <2>2, HonestStays
    <3>3. ReadHonest(t)'
      BY <2>1, <2>2, <3>1 DEF HonestInv, RowHonest, ReadHonest, Vouched
    <3>4. QED
      BY <3>2, <3>3
  <2>3. CASE Leave(t) /\ UNCHANGED mixed
    <3>1. op'[t].pc # "bump"
      BY <1>0, <2>3, LeaveStep, IdleType
    <3>2. QED
      BY <1>1, <2>1, <2>3, <3>1 DEF At
  <2>4. QED
    BY <1>3, <2>2, <2>3 DEF Count
<1>4. ASSUME NEW t \in Thread, Bump(t) PROVE Honest'
  BY <1>4, BumpHonest
<1>5. ASSUME NEW t \in Thread, Store(t) \/ Reset(t) \/ Delete(t) \/ Clear(t) PROVE Honest'
  <2>1. (\A u \in Thread \ {t} : op'[u] = op[u]) /\ UNCHANGED now
    BY <1>0, <1>5, HeldStep, FreeStep DEF Held, Free, Store, Reset, Delete, Clear
  <2>2. op'[t].pc # "bump"
    <3>1. CASE Store(t)
      BY <1>0, <3>1 DEF Store, TypeOK, Idle
    <3>2. CASE Reset(t)
      BY <1>0, <3>2, LeaveStep, IdleType DEF Reset
    <3>3. CASE Delete(t) \/ Clear(t)
      BY <1>0, <3>3, FreeStep DEF Free, Locked
    <3>4. QED
      BY <1>5, <3>1, <3>2, <3>3
  <2>3. \/ UNCHANGED <<counter, hits, mixed>>
        \/ /\ hits' = << >> /\ Overtaken \subseteq mixed'
           /\ counter' = None \/ (UNCHANGED counter /\ None \in mixed')
    BY <1>5 DEF Store, Reset, Delete, Clear, Wipe
  <2>4. QED
    BY <1>1, <1>2, <2>1, <2>2, <2>3 DEF At
<1>6. ASSUME NEW t \in Thread, Enter(t) \/ Load(t) \/ Keep(t) \/ Answer(t) \/ Prior(t) PROVE Honest'
  <2>1. UNCHANGED <<counter, hits, mixed>> /\ \A u \in Thread \ {t} : op'[u] = op[u]
    BY <1>0, <1>6, HeldStep DEF Held, Enter, Load, Keep, Answer, Prior
  <2>2. op'[t].pc # "bump"
    <3>0. op[t] \in Op
      BY <1>0, OpType
    <3>1. CASE Enter(t)
      <4>1. PICK q, x : op' = [op EXCEPT ![t].asked = x, ![t].pc = q] /\ q \in {"prior", "load", "judge"}
        BY <3>1 DEF Enter
      <4>2. QED
        BY <1>0, <3>0, <4>1 DEF TypeOK, Op
    <3>2. CASE Load(t)
      <4>1. CASE Goto(t, "judge")
        BY <1>0, <3>0, <4>1 DEF Goto, TypeOK, Op
      <4>2. CASE \E x : op' = [op EXCEPT ![t].pc = "keep", ![t].row = x]
        BY <1>0, <3>0, <4>2 DEF TypeOK, Op
      <4>3. QED
        BY <3>2, <4>1, <4>2 DEF Load
    <3>3. CASE Keep(t)
      BY <1>0, <3>0, <3>3 DEF Keep, TypeOK, Op
    <3>4. CASE Answer(t)
      BY <1>0, <3>4, LeaveStep, IdleType DEF Answer
    <3>5. CASE Prior(t)
      <4>1. CASE Leave(t)
        BY <1>0, <4>1, LeaveStep, IdleType
      <4>2. CASE op' = [op EXCEPT ![t].pc = "store", ![t].row = ban, ![t].at = now]
        BY <1>0, <3>0, <4>2 DEF TypeOK, Op
      <4>3. QED
        BY <3>5, <4>1, <4>2 DEF Prior
    <3>6. QED
      BY <1>6, <3>1, <3>2, <3>3, <3>4, <3>5
  <2>3. QED
    BY <1>1, <2>1, <2>2 DEF At
<1>7. ASSUME NEW t \in Thread, Peek(t) \/ Poke(t) \/ Forget(t) \/ \E kind \in Kind : Begin(t, kind)
      PROVE  Honest'
  <2>1. UNCHANGED <<counter, hits, mixed>>
    BY <1>7 DEF Peek, Poke, Forget, Begin
  <2>2. (\A u \in Thread \ {t} : op'[u] = op[u]) /\ op'[t].pc # "bump"
    BY <1>0, <1>7, FreeStep DEF Free, Locked
  <2>3. QED
    BY <1>1, <2>1, <2>2 DEF At
<1>8. ASSUME NEW p \in Process, Restart(p) PROVE Honest'
  <2>1. /\ UNCHANGED <<now, counter, hits>> /\ mixed' = {t \in mixed : t \in Thread => ProcessOf[t] # p}
        /\ op' = [t \in Thread |-> IF ProcessOf[t] = p THEN Idle ELSE op[t]]
    BY <1>8 DEF Restart
  <2>2. \A u \in Thread : At(u, "bump")' => op'[u] = op[u] /\ ProcessOf[u] # p
    BY <2>1, IdleType DEF At
  <2>3. (None \notin mixed' => None \notin mixed)
        /\ \A u \in Thread : ProcessOf[u] # p /\ u \notin mixed' => u \notin mixed
    BY <1>0, <2>1
  <2>4. QED
    BY <1>0, <2>1, <2>2, <2>3, HonestStays
<1>9. ASSUME Evict \/ Tick \/ UNCHANGED vars PROVE Honest'
  <2>1. UNCHANGED <<counter, hits, mixed, op>>
    BY <1>9 DEF Evict, Tick, vars
  <2>2. QED
    BY <1>1, <2>1
<1>10. Honest'
  <2> HIDE DEF Honest
  <2>1. QED
    BY <1>3, <1>4, <1>5, <1>6, <1>7, <1>8, <1>9 DEF Next, StepOf
<1>11. QED
  BY <1>0, <1>10 DEF HonestInv

LEMMA HonestInit == Init => HonestInv
<1> SUFFICES ASSUME Init PROVE HonestInv
  OBVIOUS
<1>1. Inv
  BY InvInit
<1>2. ASSUME NEW n \in 0 .. Threshold - 1, counter = IF n = 0 THEN None ELSE [count |-> n, start |-> 0],
             hits = [k \in 1 .. n |-> 0]
      PROVE  RowHonest
  <2>1. n \in Nat
    BY SizeAssumption
  <2>2. Since(hits, 0) = 1 .. n
    BY <1>2, <2>1 DEF Since
  <2>3. Cardinality(1 .. n) = n
    BY <2>1, FS_Interval
  <2>4. QED
    BY <1>2, <2>1, <2>2, <2>3 DEF RowHonest, Vouched, Init
<1>3. RowHonest
  BY <1>2 DEF Init, RowHonest
<1>4. QED
  BY <1>1, <1>3, IdleType DEF Init, HonestInv, ReadHonest, At

\* A ban is stored for as many offences as the threshold, all of one period, none of them
\* forgotten by a ban or a lifting before it, unless the count it is judged by is mixed.
THEOREM BansAreEarned == Spec => BanIsEarned
<1> DEFINE A == \A t \in Thread : Bump(t) /\ op'[t].pc = "prior" /\ t \notin mixed =>
                   Cardinality({k \in DOMAIN hits' : hits'[k] > op[t].at - Period}) >= Threshold
<1>1. HonestInv /\ [Next]_vars => A
  <2> SUFFICES ASSUME HonestInv, [Next]_vars, NEW t \in Thread, Bump(t), op'[t].pc = "prior", t \notin mixed
               PROVE  Cardinality({k \in DOMAIN hits' : hits'[k] > op[t].at - Period}) >= Threshold
    OBVIOUS
  <2> DEFINE late == {k \in DOMAIN hits' : hits'[k] > op[t].at - Period}
  <2>1. At(t, "bump") /\ hits' = Append(hits, now) /\ Counted(op[t].read, op[t].at) >= Threshold
    <3>1. Leave(t) => op'[t].pc = "idle"
      BY LeaveStep, IdleType DEF HonestInv, Inv
    <3>2. QED
      BY <3>1 DEF Bump
  <2>2. PICK start \in Nat : /\ op[t].at - Period < start
                             /\ Cardinality(Since(hits', start)) >= Counted(op[t].read, op[t].at)
    BY <2>1, BumpCounts
  <2>3. TypeOK' /\ op[t].at \in Nat /\ Period \in Nat /\ Threshold \in Nat
    BY TypeStep, TimeTypes, SizeAssumption DEF HonestInv, Inv
  <2>4. DOMAIN hits' = 1 .. Len(hits') /\ Len(hits') \in Nat /\ \A k \in DOMAIN hits' : hits'[k] \in Nat
    BY <2>3, SizeAssumption DEF TypeOK, Time
  <2>5. IsFiniteSet(late)
    <3>1. IsFiniteSet(1 .. Len(hits'))
      BY <2>4, FS_Interval
    <3>2. QED
      BY <2>4, <3>1, FS_Subset
  <2>6. Since(hits', start) \subseteq late
    BY <2>2, <2>3, <2>4 DEF Since
  <2>7. /\ Cardinality(Since(hits', start)) <= Cardinality(late)
        /\ Cardinality(late) \in Nat /\ Cardinality(Since(hits', start)) \in Nat
    BY <2>5, <2>6, FS_Subset, FS_CardinalityType
  <2>8. Counted(op[t].read, op[t].at) \in Nat
    BY <2>1, BumpTypes
  <2> HIDE DEF late
  <2>9. Cardinality(late) >= Threshold
    BY <2>1, <2>2, <2>3, <2>7, <2>8
  <2>10. QED
    BY <2>9 DEF late
<1>2. QED
  BY <1>1, HonestInit, HonestStep, PTL DEF Spec, BanIsEarned
=============================================================================
