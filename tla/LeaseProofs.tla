---------------------------- MODULE LeaseProofs -----------------------------
(***************************************************************************)
(* Proofs about Lease: type correctness on every engine, and that there is  *)
(* never more than one worker: where a transaction holds the write lock     *)
(* from its SELECT on (SQLite), and, on the server engines, as long as no   *)
(* statement fails and no instance id is used twice.                        *)
(***************************************************************************)
EXTENDS Lease, TLAPS

(***************************************************************************)
(* The inductive invariant.  A replica that believes it leads, and one whose *)
(* try_acquire is about to say so, holds a lease that runs for TTL from the *)
(* sample the belief rests on.  A belief is never younger than the attempt  *)
(* to renew it, so a renewal never shortens the lease under it.             *)
(***************************************************************************)
Leading(r) ==
    MayWork(r) => lease.holder = r /\ lease.left >= TTL + Offset[r] - basis[r]

Pending(r) ==
    pc[r] = "decided" /\ ans[r] /\ phase[r] \in {"starting", "up"} =>
        lease.holder = r /\ lease.left >= TTL + Offset[r] - age[r]

Younger(r) == MayWork(r) /\ pc[r] # "idle" => age[r] <= basis[r]

Inv ==
    /\ TypeOK
    /\ \A r \in Replica : pc[r] \notin Write
    /\ \A r \in Replica : Leading(r) /\ Pending(r) /\ Younger(r)

-----------------------------------------------------------------------------
LEMMA StatementType ==
    ASSUME TypeOK, NEW r \in Replica, NEW plan, NEW old, Statement(r, plan, old)
    PROVE  /\ lease' \in [holder : Holder, left : Int]
           /\ pc' \in [Replica -> {"idle", "begin", "decided"} \cup Write]
           /\ ans' \in [Replica -> BOOLEAN]
<1>1. Matches(r, plan, old) \in BOOLEAN
  BY DEF Matches
<1>2. Held(r) \in [holder : Holder, left : Int]
  BY OffsetAssumption, TimeAssumption DEF TypeOK, Held, Now, Holder
<1>3. lease' \in [holder : Holder, left : Int]
  BY <1>2 DEF TypeOK, Statement
<1>4. pc' \in [Replica -> {"idle", "begin", "decided"} \cup Write]
  BY DEF TypeOK, Statement
<1>5. ans' \in [Replica -> BOOLEAN]
  BY <1>1 DEF TypeOK, Statement
<1>6. QED
  BY <1>3, <1>4, <1>5

LEMMA TypeStep == TypeOK /\ [Next]_vars => TypeOK'
<1> SUFFICES ASSUME TypeOK, [Next]_vars PROVE TypeOK'
  OBVIOUS
<1> USE TimeAssumption
<1>1. ASSUME NEW r \in Replica, Start(r) PROVE TypeOK'
  BY <1>1 DEF Start, TypeOK, Alive
<1>2. ASSUME NEW r \in Replica, Beat(r) PROVE TypeOK'
  BY <1>2 DEF Beat, TypeOK
<1>3. ASSUME NEW r \in Replica, Acquire(r) PROVE TypeOK'
  BY <1>3, StatementType DEF Acquire, TypeOK
<1>4. ASSUME NEW r \in Replica, AcquireRead(r) PROVE TypeOK'
  <2>1. Plan(r) \in {"refuse"} \cup Write
    BY DEF Plan, Write
  <2>2. QED
    BY <1>4, <2>1 DEF AcquireRead, TypeOK
<1>5. ASSUME NEW r \in Replica, AcquireWrite(r) PROVE TypeOK'
  BY <1>5, StatementType DEF AcquireWrite, TypeOK
<1>6. ASSUME NEW r \in Replica, AcquireError(r) PROVE TypeOK'
  <2>1. Held(r) \in [holder : Holder, left : Int]
    BY OffsetAssumption DEF TypeOK, Held, Now, Holder
  <2>2. lease' \in {lease, Held(r)}
    BY <1>6 DEF AcquireError
  <2>3. QED
    BY <1>6, <2>1, <2>2 DEF AcquireError, TypeOK, Fault
<1>7. ASSUME NEW r \in Replica, Return(r) PROVE TypeOK'
  BY <1>7, ReplicaAssumption DEF Return, Idle, TypeOK, Alive, Holder
<1>8. ASSUME NEW r \in Replica, StopWork(r) PROVE TypeOK'
  BY <1>8 DEF StopWork, TypeOK, Alive
<1>9. ASSUME NEW r \in Replica, StopHeartbeat(r) PROVE TypeOK'
  <2>1. lease' \in [holder : Holder, left : Int]
    BY <1>9 DEF StopHeartbeat, TypeOK, Holder, Floor
  <2>2. QED
    BY <1>9, <2>1 DEF StopHeartbeat, Fault, TypeOK, Alive
<1>10. ASSUME NEW r \in Replica, Exit(r) \/ Crash(r) PROVE TypeOK'
  <2>1. PICK how \in {"crashed", "exited"} : Leave(r, how)
    BY <1>10 DEF Exit, Crash
  <2>2. faults' \in 0 .. MaxFaults
    BY <1>10 DEF Exit, Crash, Fault, TypeOK
  <2>3. QED
    BY <2>1, <2>2 DEF Leave, Idle, TypeOK, Holder
<1>11. ASSUME Tick PROVE TypeOK'
  <2>1. lease' \in [holder : Holder, left : Int]
    BY <1>11 DEF Tick, TypeOK, Floor
  <2>2. age' \in [Replica -> 0 .. MaxStall] /\ basis' \in [Replica -> 0 .. MaxStall]
    BY <1>11 DEF Tick, TypeOK
  <2>3. QED
    BY <1>11, <2>1, <2>2 DEF Tick, TypeOK
<1>12. CASE UNCHANGED vars
  BY <1>12 DEF vars, TypeOK
<1>13. QED
  BY <1>1, <1>2, <1>3, <1>4, <1>5, <1>6, <1>7, <1>8, <1>9, <1>10, <1>11, <1>12
     DEF Next, Heartbeat, Shutdown

\* The state variables keep their types, whatever the engine, the clocks and
\* the failures.
THEOREM TypeCorrect == Spec => []TypeOK
<1>1. Init => TypeOK
  BY TimeAssumption DEF Init, TypeOK, Holder, Floor, Alive
<1>2. QED
  BY <1>1, TypeStep, PTL DEF Spec

-----------------------------------------------------------------------------
\* While r leads, or is about to, the lease r took with a sample no older than
\* MaxStall is expired by nobody's clock.
LEMMA NobodyExpires ==
    ASSUME TypeOK, NEW r \in Replica, NEW s \in Replica, NEW a \in 0 .. MaxStall,
           lease.left >= TTL + Offset[r] - a
    PROVE  ~Expired(s)
  BY TimeAssumption, OffsetAssumption, StallAssumption DEF TypeOK, Expired, Now

\* So a transaction of another replica leaves that lease alone.
LEMMA OthersRefused ==
    ASSUME TypeOK, NEW r \in Replica, NEW s \in Replica \ {r}, NEW a \in 0 .. MaxStall,
           lease.holder = r, lease.left >= TTL + Offset[r] - a
    PROVE  ~Matches(s, Plan(s), lease.holder)
<1>1. ~Expired(s)
  BY NobodyExpires
<1>2. Plan(s) = "refuse"
  BY <1>1, ReplicaAssumption DEF Plan
<1>3. QED
  BY <1>2 DEF Matches

LEMMA InvInit == Init => Inv
  BY TimeAssumption
     DEF Init, Inv, TypeOK, Holder, Floor, Alive, Write, Leading, Pending, Younger, MayWork

\* Whatever transaction s makes of its beat, r's side of the invariant survives
\* it: s # r is refused, and r's own renewal starts a full TTL from a sample that
\* is no older than its belief.
LEMMA WriteKeeps ==
    ASSUME Inv, NEW r \in Replica, NEW s \in Replica, pc[s] = "begin",
           \/ lease' = lease
           \/ Matches(s, Plan(s), lease.holder) /\ lease' = Held(s),
           UNCHANGED <<phase, isLeader, basis, age>>
    PROVE  /\ Leading(r)'
           /\ s # r /\ UNCHANGED <<pc[r], ans[r]>> => Pending(r)'
<1> USE DEF Inv
<1>1. CASE lease' = lease
  BY <1>1 DEF Leading, Pending, MayWork
<1>2. CASE lease' # lease
  <2>1. Matches(s, Plan(s), lease.holder) /\ lease' = Held(s)
    BY <1>2
  <2>2. CASE s = r
    <3>1. lease'.holder = r /\ lease'.left = TTL + Offset[r] - age[r]
      BY <2>1, <2>2, OffsetAssumption, TimeAssumption DEF Held, Now, TypeOK
    <3>2. MayWork(r) => age[r] <= basis[r]
      BY <2>2 DEF Younger
    <3>3. Leading(r)'
      BY <3>1, <3>2, OffsetAssumption, TimeAssumption DEF Leading, MayWork, TypeOK
    <3>4. QED
      BY <3>3, <2>2
  <2>3. CASE s # r
    <3>1. ~MayWork(r)
      <4>1. basis[r] \in 0 .. MaxStall
        BY DEF TypeOK
      <4>2. QED
        BY <4>1, <2>1, <2>3, OthersRefused DEF Leading
    <3>2. ~(pc[r] = "decided" /\ ans[r] /\ phase[r] \in {"starting", "up"})
      <4>1. age[r] \in 0 .. MaxStall
        BY DEF TypeOK
      <4>2. QED
        BY <4>1, <2>1, <2>3, OthersRefused DEF Pending
    <3>3. QED
      BY <3>1, <3>2 DEF Leading, Pending, MayWork
  <2>4. QED
    BY <2>2, <2>3
<1>3. QED
  BY <1>1, <1>2

-----------------------------------------------------------------------------
LEMMA InvNext == Serialised /\ Inv /\ [Next]_vars => Inv'
<1> SUFFICES ASSUME Serialised, Inv, [Next]_vars, TypeOK' PROVE Inv'
  <2>1. Serialised /\ Inv /\ [Next]_vars => TypeOK'
    BY TypeStep DEF Inv
  <2>2. QED
    BY <2>1
<1> USE DEF Inv
<1>0. ASSUME NEW q \in Replica,
             UNCHANGED <<phase[q], isLeader[q], basis[q], age[q], pc[q], ans[q], lease>>
      PROVE  Leading(q)' /\ Pending(q)' /\ Younger(q)' /\ pc'[q] \notin Write
  BY <1>0 DEF Leading, Pending, Younger, MayWork
<1>1. ASSUME NEW r \in Replica, Start(r) PROVE Inv'
  <2> SUFFICES ASSUME NEW q \in Replica
               PROVE  Leading(q)' /\ Pending(q)' /\ Younger(q)' /\ pc'[q] \notin Write
    OBVIOUS
  <2> USE <1>1 DEF Start, TypeOK
  <2>1. CASE q = r
    BY <2>1 DEF Leading, Pending, Younger, MayWork, Write
  <2>2. CASE q # r
    <3>1. UNCHANGED <<phase[q], isLeader[q], basis[q], age[q], pc[q], ans[q], lease>>
      BY <2>2
    <3>2. QED
      BY <3>1, <1>0
  <2>3. QED
    BY <2>1, <2>2
<1>2. ASSUME NEW r \in Replica, Beat(r) PROVE Inv'
  <2> SUFFICES ASSUME NEW q \in Replica
               PROVE  Leading(q)' /\ Pending(q)' /\ Younger(q)' /\ pc'[q] \notin Write
    OBVIOUS
  <2> USE <1>2 DEF Beat, TypeOK
  <2>1. CASE q = r
    BY <2>1, TimeAssumption DEF Leading, Pending, Younger, MayWork, Write
  <2>2. CASE q # r
    <3>1. UNCHANGED <<phase[q], isLeader[q], basis[q], age[q], pc[q], ans[q], lease>>
      BY <2>2
    <3>2. QED
      BY <3>1, <1>0
  <2>3. QED
    BY <2>1, <2>2
<1>3. ASSUME NEW r \in Replica, Acquire(r) PROVE Inv'
  <2> SUFFICES ASSUME NEW q \in Replica
               PROVE  Leading(q)' /\ Pending(q)' /\ Younger(q)' /\ pc'[q] \notin Write
    OBVIOUS
  <2>1. /\ pc[r] = "begin"
        /\ UNCHANGED <<phase, isLeader, basis, age>>
        /\ pc' = [pc EXCEPT ![r] = "decided"]
        /\ ans' = [ans EXCEPT ![r] = Matches(r, Plan(r), lease.holder)]
        /\ lease' = IF Matches(r, Plan(r), lease.holder) THEN Held(r) ELSE lease
    BY <1>3 DEF Acquire, Statement
  <2>2. \/ lease' = lease
        \/ Matches(r, Plan(r), lease.holder) /\ lease' = Held(r)
    BY <2>1
  <2>3. Leading(q)' /\ (r # q /\ UNCHANGED <<pc[q], ans[q]>> => Pending(q)')
    BY <2>1, <2>2, WriteKeeps
  <2>4. CASE q = r
    <3>1. Younger(q)' /\ pc'[q] \notin Write
      BY <2>1, <2>4 DEF Younger, MayWork, TypeOK, Write
    <3>2. ans'[q] => lease' = Held(q)
      BY <2>1, <2>4 DEF TypeOK
    <3>3. Pending(q)'
      <4>1. Held(q).holder = q /\ Held(q).left = TTL + Offset[q] - age[q]
        BY OffsetAssumption, TimeAssumption DEF Held, Now, TypeOK
      <4>2. TTL + Offset[q] - age[q] \in Int
        BY OffsetAssumption, TimeAssumption DEF TypeOK
      <4>3. QED
        BY <2>1, <3>2, <4>1, <4>2 DEF Pending
    <3>4. QED
      BY <2>3, <3>1, <3>3
  <2>5. CASE q # r
    <3>1. UNCHANGED <<pc[q], ans[q]>>
      BY <2>1, <2>5 DEF TypeOK
    <3>2. Younger(q)' /\ pc'[q] \notin Write
      BY <2>1, <3>1 DEF Younger, MayWork
    <3>3. QED
      BY <2>3, <2>5, <3>1, <3>2
  <2>6. QED
    BY <2>4, <2>5
<1>4. ASSUME NEW r \in Replica, AcquireError(r) PROVE Inv'
  <2> SUFFICES ASSUME NEW q \in Replica
               PROVE  Leading(q)' /\ Pending(q)' /\ Younger(q)' /\ pc'[q] \notin Write
    OBVIOUS
  <2>1. /\ pc[r] = "begin"
        /\ UNCHANGED <<phase, isLeader, basis, age>>
        /\ pc' = [pc EXCEPT ![r] = "decided"]
        /\ ans' = [ans EXCEPT ![r] = FALSE]
    BY <1>4 DEF AcquireError
  <2>2. \/ lease' = lease
        \/ Matches(r, Plan(r), lease.holder) /\ lease' = Held(r)
    BY <1>4, <2>1 DEF AcquireError
  <2>3. Leading(q)' /\ (r # q /\ UNCHANGED <<pc[q], ans[q]>> => Pending(q)')
    BY <2>1, <2>2, WriteKeeps
  <2>4. CASE q = r
    BY <2>1, <2>3, <2>4 DEF Younger, Pending, MayWork, TypeOK, Write
  <2>5. CASE q # r
    <3>1. UNCHANGED <<pc[q], ans[q]>>
      BY <2>1, <2>5 DEF TypeOK
    <3>2. Younger(q)' /\ pc'[q] \notin Write
      BY <2>1, <3>1 DEF Younger, MayWork
    <3>3. QED
      BY <2>3, <2>5, <3>1, <3>2
  <2>6. QED
    BY <2>4, <2>5
<1>5. ASSUME NEW r \in Replica, Return(r) PROVE Inv'
  <2> SUFFICES ASSUME NEW q \in Replica
               PROVE  Leading(q)' /\ Pending(q)' /\ Younger(q)' /\ pc'[q] \notin Write
    OBVIOUS
  <2> USE <1>5 DEF Return, Idle, TypeOK
  <2>1. CASE q = r
    BY <2>1 DEF Leading, Pending, Younger, MayWork, Write, Alive
  <2>2. CASE q # r
    <3>1. UNCHANGED <<phase[q], isLeader[q], basis[q], age[q], pc[q], ans[q], lease>>
      BY <2>2
    <3>2. QED
      BY <3>1, <1>0
  <2>3. QED
    BY <2>1, <2>2
<1>6. ASSUME NEW r \in Replica, StopWork(r) PROVE Inv'
  BY <1>6 DEF StopWork, TypeOK, Leading, Pending, Younger, MayWork
<1>7. ASSUME NEW r \in Replica, StopHeartbeat(r) PROVE Inv'
  <2> SUFFICES ASSUME NEW q \in Replica
               PROVE  Leading(q)' /\ Pending(q)' /\ Younger(q)' /\ pc'[q] \notin Write
    OBVIOUS
  <2>1. /\ phase[r] = "stopping"
        /\ phase' = [phase EXCEPT ![r] = "released"]
        /\ UNCHANGED <<pc, age, ans, isLeader, basis>>
        /\ lease.holder # r => lease' = lease
    BY <1>7 DEF StopHeartbeat
  <2>2. CASE q = r
    BY <2>1, <2>2 DEF Leading, Pending, Younger, MayWork, TypeOK
  <2>3. CASE q # r
    <3>1. phase'[q] = phase[q]
      BY <2>1, <2>3 DEF TypeOK
    <3>2. QED
      BY <2>1, <2>3, <3>1 DEF Leading, Pending, Younger, MayWork
  <2>4. QED
    BY <2>2, <2>3
<1>8. ASSUME NEW r \in Replica, NEW how \in {"exited", "crashed"}, Leave(r, how) PROVE Inv'
  <2> SUFFICES ASSUME NEW q \in Replica
               PROVE  Leading(q)' /\ Pending(q)' /\ Younger(q)' /\ pc'[q] \notin Write
    OBVIOUS
  <2> USE <1>8 DEF Leave, Idle, TypeOK
  <2>1. CASE q = r
    BY <2>1 DEF Leading, Pending, Younger, MayWork, Write
  <2>2. CASE q # r
    <3>1. UNCHANGED <<phase[q], isLeader[q], basis[q], age[q], pc[q], ans[q], lease>>
      BY <2>2
    <3>2. QED
      BY <3>1, <1>0
  <2>3. QED
    BY <2>1, <2>2
<1>9. CASE Tick
  <2> SUFFICES ASSUME NEW q \in Replica
               PROVE  Leading(q)' /\ Pending(q)' /\ Younger(q)' /\ pc'[q] \notin Write
    OBVIOUS
  <2>1. UNCHANGED <<phase, pc, ans, isLeader>> /\ lease'.holder = lease.holder
    BY <1>9 DEF Tick, TypeOK
  <2>2. lease'.left >= lease.left - 1 /\ lease.left \in Int /\ lease'.left \in Int
    BY <1>9, TimeAssumption DEF Tick, TypeOK, Floor
  <2>3. /\ MayWork(q) => basis'[q] = basis[q] + 1
        /\ pc[q] # "idle" => age'[q] = age[q] + 1
    BY <1>9 DEF Tick
  <2>4. age[q] \in Int /\ basis[q] \in Int /\ Offset[q] \in Int /\ TTL \in Int
    BY OffsetAssumption, TimeAssumption DEF TypeOK
  <2>5. Leading(q)'
    BY <2>1, <2>2, <2>3, <2>4 DEF Leading, MayWork
  <2>6. Pending(q)'
    BY <2>1, <2>2, <2>3, <2>4 DEF Pending
  <2>7. Younger(q)'
    BY <2>1, <2>3, <2>4 DEF Younger, MayWork
  <2>8. QED
    BY <2>1, <2>5, <2>6, <2>7
<1>10. CASE UNCHANGED vars
  BY <1>10 DEF vars, Leading, Pending, Younger, MayWork
<1>11. ASSUME NEW r \in Replica, AcquireRead(r) \/ AcquireWrite(r) PROVE Inv'
  BY <1>11 DEF AcquireRead, AcquireWrite
<1>12. QED
  <2>1. ASSUME NEW r \in Replica, Exit(r) \/ Crash(r) PROVE Inv'
    BY <2>1, <1>8 DEF Exit, Crash
  <2>2. QED
    BY <1>1, <1>2, <1>3, <1>4, <1>5, <1>6, <1>7, <1>9, <1>10, <1>11, <2>1
       DEF Next, Heartbeat, Shutdown

-----------------------------------------------------------------------------
LEMMA InvWorker == Inv => WorkerIsCurrentLeader
<1> SUFFICES ASSUME Inv, NEW r \in Replica, MayWork(r), NEW s \in Replica
             PROVE  lease.holder = r /\ lease.left >= Offset[s]
  BY DEF WorkerIsCurrentLeader
<1>1. lease.holder = r /\ lease.left >= TTL + Offset[r] - basis[r]
  BY DEF Inv, Leading
<1>2. QED
  BY <1>1, StallAssumption, OffsetAssumption, TimeAssumption DEF Inv, TypeOK

LEMMA WorkerUnique == WorkerIsCurrentLeader => OneLeader
  BY DEF WorkerIsCurrentLeader, OneLeader

LEMMA InvAlways == Serialised => (Spec => []Inv)
<1> SUFFICES ASSUME Serialised PROVE Spec => []Inv
  OBVIOUS
<1>1. Inv /\ [Next]_vars => Inv'
  BY InvNext
<1>2. QED
  BY <1>1, InvInit, PTL DEF Spec

\* The replica that works is the one every replica's current_leader() names, for
\* any number of replicas, any TTL and any clock error the stall bound allows for.
THEOREM WorkerHoldsLease == Serialised => (Spec => []WorkerIsCurrentLeader)
<1> SUFFICES ASSUME Serialised PROVE Spec => []WorkerIsCurrentLeader
  OBVIOUS
<1>1. Spec => []Inv
  BY InvAlways
<1>2. QED
  BY <1>1, InvWorker, PTL

\* So at most one replica works at a time.
THEOREM SingleLeader == Serialised => (Spec => []OneLeader)
<1> SUFFICES ASSUME Serialised PROVE Spec => []OneLeader
  OBVIOUS
<1>1. Spec => []WorkerIsCurrentLeader
  BY WorkerHoldsLease
<1>2. QED
  BY <1>1, WorkerUnique, PTL

\* Only the return of its own try_acquire makes a replica a worker.
LEMMA WorkBegins ==
    ASSUME TypeOK, [Next]_vars, NEW r \in Replica, ~MayWork(r), MayWork(r)'
    PROVE  Return(r)
<1> USE DEF MayWork, TypeOK
<1>1. ASSUME NEW s \in Replica, Start(s) PROVE FALSE
  BY <1>1 DEF Start
<1>2. ASSUME NEW s \in Replica, Beat(s) \/ Acquire(s) \/ AcquireRead(s) \/ AcquireWrite(s)
                                \/ AcquireError(s)
      PROVE FALSE
  BY <1>2 DEF Beat, Acquire, AcquireRead, AcquireWrite, AcquireError
<1>3. ASSUME NEW s \in Replica, Return(s) PROVE s = r
  BY <1>3 DEF Return
<1>4. ASSUME NEW s \in Replica, StopWork(s) \/ StopHeartbeat(s) PROVE FALSE
  BY <1>4 DEF StopWork, StopHeartbeat
<1>5. ASSUME NEW s \in Replica, Exit(s) \/ Crash(s) PROVE FALSE
  BY <1>5 DEF Exit, Crash, Leave
<1>6. ~Tick /\ ~UNCHANGED vars
  BY DEF Tick, vars
<1>7. QED
  BY <1>1, <1>2, <1>3, <1>4, <1>5, <1>6 DEF Next, Heartbeat, Shutdown

\* From the one worker before a step and after it: who becomes the worker does so alone.
LEMMA LeadershipStep ==
    ASSUME TypeOK, OneLeader, OneLeader', [Next]_vars
    PROVE  [Lead!Next]_{r \in Replica : MayWork(r)}
<1> DEFINE W == {r \in Replica : MayWork(r)}
<1> SUFFICES ASSUME W' # W PROVE Lead!Next
  OBVIOUS
<1>1. CASE \E r \in Replica : ~MayWork(r) /\ MayWork(r)'
  <2>1. PICK r \in Replica : ~MayWork(r) /\ MayWork(r)'
    BY <1>1
  <2>2. Return(r)
    BY <2>1, WorkBegins
  <2>3. \A s \in Replica \ {r} : MayWork(s)' <=> MayWork(s)
    BY <2>2 DEF Return, MayWork, TypeOK
  <2>4. W = {} /\ W' = {r}
    BY <2>1, <2>3 DEF OneLeader
  <2>5. QED
    BY <2>4 DEF Lead!Next, Lead!Grant
<1>2. CASE \A r \in Replica : MayWork(r)' => MayWork(r)
  <2>1. PICK r \in Replica : MayWork(r) /\ ~MayWork(r)'
    BY <1>2
  <2>2. W = {r} /\ W' = {}
    BY <1>2, <2>1 DEF OneLeader
  <2>3. QED
    BY <2>2 DEF Lead!Next, Lead!Withdraw
<1>3. QED
  BY <1>1, <1>2

LEMMA LeadershipInit == Init => Lead!Init
BY DEF Init, Lead!Init, MayWork

\* The lease implements the leadership it is for: leadership passes from one
\* replica to another only through a state in which nobody works.
THEOREM ImplementsLeadership == Serialised => (Spec => LeadershipSpec)
<1> SUFFICES ASSUME Serialised PROVE Spec => LeadershipSpec
  OBVIOUS
<1> DEFINE W == {r \in Replica : MayWork(r)}
<1>1. TypeOK /\ OneLeader /\ OneLeader' /\ [Next]_vars => [Lead!Next]_W
  BY LeadershipStep
<1>2. Spec => []OneLeader
  BY SingleLeader
<1>3. QED
  BY <1>1, <1>2, TypeCorrect, LeadershipInit, PTL DEF Spec, LeadershipSpec, Lead!Spec

(***************************************************************************)
(* Server engines (READ COMMITTED).  A claim that was planned on an expired *)
(* lease still matches a row that its old holder has renewed since.  If no  *)
(* statement fails, a process that runs and is in the row leads or is about *)
(* to, so its lease is never found expired; the holder such a claim was     *)
(* planned on has stopped working, and if ids are not used again it has     *)
(* stopped for good.                                                        *)
(***************************************************************************)
Reliable == {"dberror", "reuse"} \cap Faults = {}

\* The holder, while it runs, leads or is about to.
Owning(r) ==
    lease.holder = r /\ phase[r] \in {"starting", "up"} =>
        MayWork(r) \/ (pc[r] = "decided" /\ ans[r])

\* A leader renews its own row, and the answer is True.
Renewing(r) ==
    MayWork(r) => pc[r] \in {"idle", "begin", "renew"} \/ (pc[r] = "decided" /\ ans[r])

\* Nobody has seen the id of a process that has not started yet.
Unborn(r) ==
    phase[r] = "down" => pc[r] = "idle" /\ lease.holder # r /\ \A s \in Replica : seen[s] # r

\* A claim is made on a free lease or on that of a process that works no more.
Claiming(r) ==
    pc[r] = "claim" =>
        \/ seen[r] = Vacant
        \/ seen[r] \in Replica \ {r} /\ phase[seen[r]] \notin {"down", "starting", "up"}

Part(r) ==
    /\ Leading(r) /\ Pending(r) /\ Younger(r)
    /\ Owning(r) /\ Renewing(r) /\ Unborn(r) /\ Claiming(r)

ServerInv == TypeOK /\ \A r \in Replica : Part(r)

LEMMA ServerInit == Init => ServerInv
  BY TimeAssumption, ReplicaAssumption
     DEF Init, ServerInv, Part, TypeOK, Holder, Floor, Alive, Write, Leading, Pending, Younger,
         Owning, Renewing, Unborn, Claiming, MayWork

\* The lease of a replica that runs is expired by nobody's clock.
LEMMA OwnerHolds ==
    ASSUME ServerInv, NEW r \in Replica, lease.holder = r, phase[r] \in {"starting", "up"},
           NEW s \in Replica
    PROVE  ~Expired(s)
<1>1. PICK a \in 0 .. MaxStall : lease.left >= TTL + Offset[r] - a
  <2>1. basis[r] \in 0 .. MaxStall /\ age[r] \in 0 .. MaxStall
    BY DEF ServerInv, TypeOK
  <2>2. CASE MayWork(r)
    BY <2>1, <2>2 DEF ServerInv, Part, Leading
  <2>3. CASE pc[r] = "decided" /\ ans[r]
    BY <2>1, <2>3 DEF ServerInv, Part, Pending
  <2>4. QED
    BY <2>2, <2>3 DEF ServerInv, Part, Owning
<1>2. QED
  BY <1>1, NobodyExpires DEF ServerInv

\* So a statement of another replica leaves that lease alone.
LEMMA OwnerSpared ==
    ASSUME ServerInv, NEW r \in Replica, lease.holder = r, phase[r] \in {"starting", "up"},
           NEW s \in Replica \ {r}, pc[s] \in Write
    PROVE  ~Matches(s, pc[s], seen[s])
<1>1. ~Expired(s)
  BY OwnerHolds
<1>2. Claiming(s)
  BY DEF ServerInv, Part
<1>3. pc[s] = "claim" => seen[s] # r
  BY <1>2, ReplicaAssumption DEF Claiming
<1>4. QED
  BY <1>1, <1>3, ReplicaAssumption DEF Matches

\* A process that has stopped working, or died, does not start again.
LEMMA PhasesStep ==
    ASSUME TypeOK, Reliable, [Next]_vars, NEW q \in Replica
    PROVE  /\ phase'[q] = "down" => phase[q] = "down"
           /\ phase'[q] \in {"down", "starting", "up"} => phase[q] \in {"down", "starting", "up"}
<1>1. ASSUME NEW r \in Replica, Start(r) PROVE phase[r] = "down" /\ phase' = [phase EXCEPT ![r] = "starting"]
  BY <1>1 DEF Start, Reliable
<1>2. ASSUME NEW r \in Replica,
             Beat(r) \/ Acquire(r) \/ AcquireRead(r) \/ AcquireWrite(r) \/ AcquireError(r)
      PROVE  phase' = phase
  BY <1>2 DEF Beat, Acquire, AcquireRead, AcquireWrite, AcquireError
<1>3. ASSUME NEW r \in Replica, Return(r)
      PROVE  phase' = [phase EXCEPT ![r] = IF @ = "starting" THEN "up" ELSE @]
  BY <1>3 DEF Return
<1>4. ASSUME NEW r \in Replica, Shutdown(r) \/ Crash(r)
      PROVE  \E p \in {"stopping", "released", "exited", "crashed"} :
                 phase' = [phase EXCEPT ![r] = p]
  BY <1>4 DEF Shutdown, StopWork, StopHeartbeat, Exit, Crash, Leave
<1>5. Tick \/ UNCHANGED vars => phase' = phase
  BY DEF Tick, vars
<1>6. QED
  BY <1>1, <1>2, <1>3, <1>4, <1>5 DEF Next, Heartbeat, TypeOK

\* Only a thread in try_acquire writes its id, reads one or plans a claim.
LEMMA BeatsStep ==
    ASSUME TypeOK, [Next]_vars, NEW q \in Replica
    PROVE  /\ pc[q] = "idle" /\ phase'[q] = "down" =>
                  pc'[q] = "idle" /\ lease'.holder \in {lease.holder, Vacant} \cup (Replica \ {q})
           /\ seen'[q] \in {seen[q], lease.holder, NoRow}
           /\ pc'[q] = "claim" => (pc[q] = "claim" /\ seen'[q] = seen[q]) \/ AcquireRead(q)
<1> USE DEF TypeOK
<1>1. ASSUME NEW r \in Replica, Start(r)
      PROVE  /\ lease' = lease /\ seen' = seen /\ phase'[r] = "starting"
             /\ pc' = [pc EXCEPT ![r] = "begin"]
  BY <1>1 DEF Start
<1>2. ASSUME NEW r \in Replica, Beat(r)
      PROVE  /\ lease' = lease /\ seen' = seen /\ phase'[r] # "down"
             /\ pc' = [pc EXCEPT ![r] = "begin"]
  BY <1>2 DEF Beat
<1>3. ASSUME NEW r \in Replica, Acquire(r) \/ AcquireWrite(r) \/ AcquireError(r)
      PROVE  /\ lease'.holder \in {lease.holder, r} /\ seen' = seen /\ pc[r] # "idle"
             /\ pc' = [pc EXCEPT ![r] = "decided"]
  <2>1. lease' = lease \/ lease' = Held(r)
    BY <1>3 DEF Acquire, AcquireWrite, AcquireError, Statement
  <2>2. lease'.holder \in {lease.holder, r}
    BY <2>1 DEF Held
  <2>3. seen' = seen /\ pc' = [pc EXCEPT ![r] = "decided"] /\ pc[r] # "idle"
    BY <1>3 DEF Acquire, AcquireWrite, AcquireError, Statement, Write
  <2>4. QED
    BY <2>2, <2>3
<1>4. ASSUME NEW r \in Replica, AcquireRead(r)
      PROVE  /\ lease' = lease /\ seen' = [seen EXCEPT ![r] = lease.holder] /\ pc[r] # "idle"
             /\ \A s \in Replica \ {r} : pc'[s] = pc[s]
  BY <1>4 DEF AcquireRead
<1>5. ASSUME NEW r \in Replica, Return(r) \/ Exit(r) \/ Crash(r)
      PROVE  /\ lease' = lease /\ seen' = [seen EXCEPT ![r] = NoRow]
             /\ pc' = [pc EXCEPT ![r] = "idle"]
  BY <1>5 DEF Return, Exit, Crash, Leave, Idle
<1>6. ASSUME NEW r \in Replica, StopWork(r) \/ StopHeartbeat(r)
      PROVE  lease'.holder \in {lease.holder, Vacant} /\ UNCHANGED <<seen, pc>>
  BY <1>6 DEF StopWork, StopHeartbeat
<1>7. Tick \/ UNCHANGED vars => lease'.holder = lease.holder /\ UNCHANGED <<seen, pc>>
  BY DEF Tick, vars
<1>8. ASSUME NEW r \in Replica, Heartbeat(r) \/ AcquireError(r)
      PROVE  /\ pc[q] = "idle" /\ phase'[q] = "down" =>
                  pc'[q] = "idle" /\ lease'.holder \in {lease.holder, Vacant} \cup (Replica \ {q})
             /\ seen'[q] \in {seen[q], lease.holder, NoRow}
             /\ pc'[q] = "claim" => (pc[q] = "claim" /\ seen'[q] = seen[q]) \/ AcquireRead(q)
  <2>1. CASE Beat(r)
    BY <1>2, <2>1
  <2>2. CASE Acquire(r) \/ AcquireWrite(r) \/ AcquireError(r)
    BY <1>3, <2>2
  <2>3. CASE AcquireRead(r)
    BY <1>4, <2>3
  <2>4. CASE Return(r)
    BY <1>5, <2>4
  <2>5. QED
    BY <1>8, <2>1, <2>2, <2>3, <2>4 DEF Heartbeat
<1>9. ASSUME NEW r \in Replica, Start(r) \/ Shutdown(r) \/ Crash(r)
      PROVE  /\ pc[q] = "idle" /\ phase'[q] = "down" =>
                  pc'[q] = "idle" /\ lease'.holder \in {lease.holder, Vacant} \cup (Replica \ {q})
             /\ seen'[q] \in {seen[q], lease.holder, NoRow}
             /\ pc'[q] = "claim" => (pc[q] = "claim" /\ seen'[q] = seen[q]) \/ AcquireRead(q)
  BY <1>1, <1>5, <1>6, <1>9 DEF Shutdown
<1>10. QED
  BY <1>7, <1>8, <1>9 DEF Next

LEMMA SeenStep ==
    ASSUME ServerInv, Reliable, [Next]_vars, NEW q \in Replica
    PROVE  Unborn(q)' /\ Claiming(q)'
<1>1. TypeOK /\ Unborn(q) /\ Claiming(q)
  BY DEF ServerInv, Part
<1>2. Unborn(q)'
  <2> SUFFICES ASSUME phase'[q] = "down"
               PROVE  pc'[q] = "idle" /\ lease'.holder # q /\ \A s \in Replica : seen'[s] # q
    BY DEF Unborn
  <2>1. pc[q] = "idle" /\ lease.holder # q /\ \A s \in Replica : seen[s] # q
    BY <1>1, PhasesStep DEF Unborn
  <2>2. pc'[q] = "idle" /\ lease'.holder # q
    BY <1>1, <2>1, BeatsStep, ReplicaAssumption
  <2>3. \A s \in Replica : seen'[s] # q
    BY <1>1, <2>1, BeatsStep, ReplicaAssumption
  <2>4. QED
    BY <2>2, <2>3
<1>3. Claiming(q)'
  <2> SUFFICES ASSUME pc'[q] = "claim"
               PROVE  \/ seen'[q] = Vacant
                      \/ /\ seen'[q] \in Replica \ {q}
                         /\ phase'[seen'[q]] \notin {"down", "starting", "up"}
    BY DEF Claiming
  <2>1. CASE pc[q] = "claim" /\ seen'[q] = seen[q]
    BY <1>1, <2>1, PhasesStep DEF Claiming
  <2>2. CASE AcquireRead(q)
    <3>1. phase' = phase /\ seen'[q] = lease.holder /\ Plan(q) = "claim"
      BY <1>1, <2>2 DEF AcquireRead, TypeOK
    <3>2. lease.holder \notin {q, NoRow} /\ (lease.holder = Vacant \/ Expired(q))
      BY <3>1 DEF Plan
    <3>3. CASE lease.holder = Vacant
      BY <3>1, <3>3
    <3>4. CASE lease.holder \in Replica
      <4>1. phase[lease.holder] \notin {"starting", "up"}
        BY <3>2, <3>4, ReplicaAssumption, OwnerHolds
      <4>2. phase[lease.holder] # "down"
        BY <3>4 DEF ServerInv, Part, Unborn
      <4>3. QED
        BY <3>1, <3>2, <3>4, <4>1, <4>2
    <3>5. QED
      BY <1>1, <3>2, <3>3, <3>4 DEF TypeOK, Holder
  <2>3. QED
    BY <1>1, <2>1, <2>2, BeatsStep
<1>4. QED
  BY <1>2, <1>3

\* What is said of a replica's belief and of its lease.
Belief(r) == Leading(r) /\ Pending(r) /\ Younger(r) /\ Owning(r) /\ Renewing(r)

LEMMA BeliefElsewhere ==
    ASSUME ServerInv, NEW q \in Replica,
           UNCHANGED <<phase[q], isLeader[q], basis[q], age[q], pc[q], ans[q], lease>>
    PROVE  Belief(q)'
BY DEF ServerInv, Part, Belief, Leading, Pending, Younger, Owning, Renewing, MayWork

LEMMA BeatBelief ==
    ASSUME ServerInv, Reliable, NEW r \in Replica, Start(r) \/ Beat(r)
    PROVE  Belief(r)'
<1>1. TypeOK /\ Part(r)
  BY DEF ServerInv
<1>2. CASE Start(r)
  <2>1. /\ phase[r] = "down" /\ lease' = lease /\ phase'[r] = "starting" /\ ~isLeader'[r]
        /\ pc'[r] = "begin"
    BY <1>1, <1>2 DEF Start, TypeOK, Reliable
  <2>2. lease.holder # r
    BY <1>1, <2>1 DEF Part, Unborn
  <2>3. QED
    BY <2>1, <2>2 DEF Belief, Leading, Pending, Younger, Owning, Renewing, MayWork
<1>3. CASE Beat(r)
  <2>1. /\ pc[r] = "idle" /\ pc'[r] = "begin" /\ age'[r] = 0
        /\ UNCHANGED <<lease, phase, isLeader, basis>>
    BY <1>1, <1>3 DEF Beat, TypeOK
  <2>2. Leading(r)' /\ Pending(r)' /\ Renewing(r)'
    BY <1>1, <2>1 DEF Part, Leading, Pending, Renewing, MayWork
  <2>3. Younger(r)'
    BY <1>1, <2>1, TimeAssumption DEF Younger, TypeOK
  <2>4. Owning(r)'
    BY <1>1, <2>1 DEF Part, Owning, MayWork
  <2>5. QED
    BY <2>2, <2>3, <2>4 DEF Belief
<1>4. QED
  BY <1>2, <1>3

LEMMA ReadBelief ==
    ASSUME ServerInv, NEW r \in Replica, AcquireRead(r)
    PROVE  Belief(r)'
<1>1. TypeOK /\ Part(r)
  BY DEF ServerInv
<1>2. /\ pc[r] = "begin" /\ ~ans'[r] /\ UNCHANGED <<lease, phase, age, isLeader, basis>>
      /\ pc'[r] = IF Plan(r) = "refuse" THEN "decided" ELSE Plan(r)
  BY <1>1 DEF AcquireRead, TypeOK
<1>3. MayWork(r) => lease.holder = r
  BY <1>1 DEF Part, Leading
<1>4. lease.holder = r => Plan(r) = "renew"
  BY ReplicaAssumption DEF Plan
<1>5. Leading(r)' /\ Pending(r)' /\ Younger(r)'
  BY <1>1, <1>2 DEF Part, Leading, Pending, Younger, MayWork
<1>6. Owning(r)' /\ Renewing(r)'
  BY <1>1, <1>2, <1>3, <1>4 DEF Part, Owning, Renewing, MayWork
<1>7. QED
  BY <1>5, <1>6 DEF Belief

LEMMA WriteBelief ==
    ASSUME ServerInv, NEW r \in Replica, NEW q \in Replica, AcquireWrite(r)
    PROVE  Belief(q)'
<1> DEFINE M == Matches(r, pc[r], seen[r])
<1>1. TypeOK /\ Part(r) /\ Part(q)
  BY DEF ServerInv
<1>2. /\ pc[r] \in Write /\ UNCHANGED <<phase, seen, age, isLeader, basis>>
      /\ ans' = [ans EXCEPT ![r] = M] /\ pc' = [pc EXCEPT ![r] = "decided"]
      /\ lease' = IF M THEN Held(r) ELSE lease
  BY DEF AcquireWrite, Statement
<1>3. Held(r).holder = r /\ Held(r).left = TTL + Offset[r] - age[r]
  BY <1>1, OffsetAssumption, TimeAssumption DEF Held, Now, TypeOK
<1>4. age[r] \in Int /\ basis[r] \in Int /\ Offset[r] \in Int /\ TTL \in Int
  BY <1>1, OffsetAssumption, TimeAssumption DEF TypeOK
<1>5. MayWork(r) => pc[r] = "renew" /\ lease.holder = r /\ age[r] <= basis[r]
  BY <1>1, <1>2 DEF Part, Renewing, Leading, Younger, Write
<1>6. MayWork(r) => M
  BY <1>5 DEF Matches
<1>7. CASE q = r
  <2>1. pc'[r] = "decided" /\ ans'[r] = M
    BY <1>1, <1>2 DEF TypeOK
  <2>2. CASE M
    <3>1. lease' = Held(r)
      BY <1>2, <2>2
    <3>2. Leading(r)'
      BY <1>2, <1>3, <1>4, <1>5, <3>1 DEF Leading, MayWork
    <3>3. Pending(r)'
      BY <1>2, <1>3, <1>4, <3>1 DEF Pending
    <3>4. Younger(r)'
      BY <1>2, <1>5 DEF Younger, MayWork
    <3>5. Owning(r)' /\ Renewing(r)'
      BY <2>1, <2>2 DEF Owning, Renewing
    <3>6. QED
      BY <1>7, <3>2, <3>3, <3>4, <3>5 DEF Belief
  <2>3. CASE ~M
    <3>1. ~MayWork(r) /\ ~ans'[r] /\ lease' = lease
      BY <1>2, <1>6, <2>1, <2>3
    <3>2. ~MayWork(r)'
      BY <1>2, <3>1 DEF MayWork
    <3>3. ~ (lease.holder = r /\ phase[r] \in {"starting", "up"})
      BY <1>1, <1>2, <3>1 DEF Part, Owning, Write
    <3>4. QED
      BY <1>2, <1>7, <3>1, <3>2, <3>3 DEF Belief, Leading, Pending, Younger, Owning, Renewing
  <2>4. QED
    BY <2>2, <2>3
<1>8. CASE q # r
  <2>1. UNCHANGED <<phase[q], isLeader[q], basis[q], age[q], pc[q], ans[q]>>
    BY <1>1, <1>2, <1>8 DEF TypeOK
  <2>2. CASE lease' = lease
    BY <2>1, <2>2, BeliefElsewhere
  <2>3. CASE M /\ lease' = Held(r)
    <3>1. ~ (lease.holder = q /\ phase[q] \in {"starting", "up"})
      BY <1>2, <1>8, <2>3, OwnerSpared
    <3>2. ~MayWork(q) /\ ~ (pc[q] = "decided" /\ ans[q] /\ phase[q] \in {"starting", "up"})
      BY <1>1, <3>1 DEF Part, Leading, Pending, MayWork
    <3>3. ~MayWork(q)' /\ lease'.holder # q
      BY <1>3, <1>8, <2>1, <2>3, <3>2 DEF MayWork
    <3>4. QED
      BY <2>1, <3>2, <3>3 DEF Belief, Leading, Pending, Younger, Owning, Renewing
  <2>4. QED
    BY <1>2, <2>2, <2>3
<1>9. QED
  BY <1>7, <1>8

LEMMA ReturnBelief ==
    ASSUME ServerInv, NEW r \in Replica, Return(r)
    PROVE  Belief(r)'
<1>1. TypeOK /\ Part(r)
  BY DEF ServerInv
<1>2. /\ pc[r] = "decided" /\ pc'[r] = "idle" /\ lease' = lease /\ isLeader'[r] = ans[r]
      /\ phase'[r] = IF phase[r] = "starting" THEN "up" ELSE phase[r]
      /\ ans[r] => basis'[r] = age[r]
  BY <1>1 DEF Return, Idle, TypeOK
<1>3. MayWork(r)' => ans[r] /\ phase[r] \in {"starting", "up"}
  BY <1>2 DEF MayWork
<1>4. Leading(r)'
  BY <1>1, <1>2, <1>3 DEF Part, Pending, Leading
<1>5. Owning(r)'
  <2> SUFFICES ASSUME lease.holder = r, phase'[r] \in {"starting", "up"} PROVE MayWork(r)'
    BY <1>2 DEF Owning
  <2>1. phase[r] \in {"starting", "up"} /\ phase'[r] = "up"
    BY <1>2
  <2>2. ans[r]
    BY <1>1, <1>2, <2>1 DEF Part, Owning, Renewing
  <2>3. QED
    BY <1>2, <2>1, <2>2 DEF MayWork
<1>6. Pending(r)' /\ Younger(r)' /\ Renewing(r)'
  BY <1>2 DEF Pending, Younger, Renewing
<1>7. QED
  BY <1>4, <1>5, <1>6 DEF Belief

LEMMA EndBelief ==
    ASSUME ServerInv, NEW r \in Replica, NEW q \in Replica,
           Shutdown(r) \/ Crash(r)
    PROVE  Belief(q)'
<1>1. TypeOK /\ Part(q)
  BY DEF ServerInv
<1>2. PICK p \in {"stopping", "released", "exited", "crashed"} : phase' = [phase EXCEPT ![r] = p]
  BY DEF Shutdown, StopWork, StopHeartbeat, Exit, Crash, Leave
<1>3. \A s \in Replica : s # r => UNCHANGED <<isLeader[s], basis[s], age[s], pc[s], ans[s]>>
  BY <1>1 DEF Shutdown, StopWork, StopHeartbeat, Exit, Crash, Leave, Idle, TypeOK
<1>4. lease.holder # r => lease' = lease
  BY DEF Shutdown, StopWork, StopHeartbeat, Exit, Crash, Leave
<1>5. lease' = lease \/ lease'.holder = Vacant
  BY DEF Shutdown, StopWork, StopHeartbeat, Exit, Crash, Leave
<1>6. CASE q = r
  <2>1. phase'[q] \notin {"starting", "up"}
    BY <1>1, <1>2, <1>6 DEF TypeOK
  <2>2. QED
    BY <2>1 DEF Belief, Leading, Pending, Younger, Owning, Renewing, MayWork
<1>7. CASE q # r
  <2>1. UNCHANGED <<phase[q], isLeader[q], basis[q], age[q], pc[q], ans[q]>>
    BY <1>1, <1>2, <1>3, <1>7 DEF TypeOK
  <2>2. CASE lease' = lease
    BY <2>1, <2>2, BeliefElsewhere
  <2>3. CASE lease.holder = r /\ lease'.holder = Vacant
    <3>1. ~MayWork(q) /\ ~ (pc[q] = "decided" /\ ans[q] /\ phase[q] \in {"starting", "up"})
      BY <1>1, <1>7, <2>3 DEF Part, Leading, Pending
    <3>2. ~MayWork(q)' /\ lease'.holder # q
      BY <2>1, <2>3, <3>1, ReplicaAssumption DEF MayWork
    <3>3. QED
      BY <2>1, <3>1, <3>2 DEF Belief, Leading, Pending, Younger, Owning, Renewing
  <2>4. QED
    BY <1>4, <1>5, <2>2, <2>3
<1>8. QED
  BY <1>6, <1>7

LEMMA TickBelief ==
    ASSUME ServerInv, NEW q \in Replica, Tick
    PROVE  Belief(q)'
<1>1. TypeOK /\ Part(q)
  BY DEF ServerInv
<1>2. UNCHANGED <<phase, pc, ans, isLeader>> /\ lease'.holder = lease.holder
  BY <1>1 DEF Tick, TypeOK
<1>3. lease'.left >= lease.left - 1 /\ lease.left \in Int /\ lease'.left \in Int
  BY <1>1, TimeAssumption DEF Tick, TypeOK, Floor
<1>4. /\ MayWork(q) => basis'[q] = basis[q] + 1
      /\ pc[q] # "idle" => age'[q] = age[q] + 1
  BY DEF Tick
<1>5. age[q] \in Int /\ basis[q] \in Int /\ Offset[q] \in Int /\ TTL \in Int
  BY <1>1, OffsetAssumption, TimeAssumption DEF TypeOK
<1>6. Leading(q)'
  BY <1>1, <1>2, <1>3, <1>4, <1>5 DEF Part, Leading, MayWork
<1>7. Pending(q)'
  BY <1>1, <1>2, <1>3, <1>4, <1>5 DEF Part, Pending
<1>8. Younger(q)'
  BY <1>1, <1>2, <1>4, <1>5 DEF Part, Younger, MayWork
<1>9. Owning(q)' /\ Renewing(q)'
  BY <1>1, <1>2 DEF Part, Owning, Renewing, MayWork
<1>10. QED
  BY <1>6, <1>7, <1>8, <1>9 DEF Belief

LEMMA ServerNext == ASSUME ~Serialised, Reliable, ServerInv, [Next]_vars PROVE ServerInv'
<1>1. TypeOK'
  BY TypeStep DEF ServerInv
<1>2. ASSUME NEW q \in Replica PROVE Belief(q)'
  <2>1. ASSUME NEW r \in Replica, Start(r) \/ Beat(r) \/ AcquireRead(r) \/ Return(r)
        PROVE  Belief(q)'
    <3>1. CASE q = r
      BY <2>1, <3>1, BeatBelief, ReadBelief, ReturnBelief
    <3>2. CASE q # r
      <4>1. UNCHANGED <<phase[q], isLeader[q], basis[q], age[q], pc[q], ans[q], lease>>
        BY <2>1, <3>2 DEF Start, Beat, AcquireRead, Return, Idle, ServerInv, TypeOK
      <4>2. QED
        BY <4>1, BeliefElsewhere
    <3>3. QED
      BY <3>1, <3>2
  <2>2. ASSUME NEW r \in Replica, AcquireWrite(r) PROVE Belief(q)'
    BY <2>2, WriteBelief
  <2>3. ASSUME NEW r \in Replica PROVE ~Acquire(r) /\ ~AcquireError(r)
    BY DEF Acquire, AcquireError, Fault, Reliable
  <2>4. ASSUME NEW r \in Replica, Shutdown(r) \/ Crash(r) PROVE Belief(q)'
    BY <2>4, EndBelief
  <2>5. CASE Tick
    BY <2>5, TickBelief
  <2>6. CASE UNCHANGED vars
    BY <2>6, BeliefElsewhere DEF vars
  <2>7. QED
    BY <2>1, <2>2, <2>3, <2>4, <2>5, <2>6 DEF Next, Heartbeat
<1>3. \A q \in Replica : Unborn(q)' /\ Claiming(q)'
  BY SeenStep
<1>4. QED
  BY <1>1, <1>2, <1>3 DEF ServerInv, Part, Belief

LEMMA ServerAlways == ASSUME ~Serialised, Reliable PROVE Spec => []ServerInv
<1>1. ServerInv /\ [Next]_vars => ServerInv'
  BY ServerNext
<1>2. QED
  BY <1>1, ServerInit, PTL DEF Spec

\* On a server engine whose statements do not fail, with an id of its own for each process,
\* the worker is the holder that every clock sees: the claim of an expired lease, which
\* re-checks no more than holder or expiry, takes it from nobody who works.
THEOREM ServerWorkerHoldsLease ==
    ASSUME ~Serialised, Reliable
    PROVE  Spec => []WorkerIsCurrentLeader
<1>1. ServerInv => WorkerIsCurrentLeader
  <2> SUFFICES ASSUME ServerInv, NEW r \in Replica, MayWork(r), NEW s \in Replica
               PROVE  lease.holder = r /\ lease.left >= Offset[s]
    BY DEF WorkerIsCurrentLeader
  <2>1. lease.holder = r /\ lease.left >= TTL + Offset[r] - basis[r]
    BY DEF ServerInv, Part, Leading
  <2>2. QED
    BY <2>1, StallAssumption, OffsetAssumption, TimeAssumption DEF ServerInv, TypeOK
<1>2. QED
  BY <1>1, ServerAlways, PTL

\* So there is one worker there too, as the run lease_server shows of three replicas.
THEOREM ServerSingleLeader == ASSUME ~Serialised, Reliable PROVE Spec => []OneLeader
BY ServerWorkerHoldsLease, WorkerUnique, PTL

\* And it implements the leadership there.
THEOREM ServerImplementsLeadership == ASSUME ~Serialised, Reliable PROVE Spec => LeadershipSpec
<1> DEFINE W == {r \in Replica : MayWork(r)}
<1>1. TypeOK /\ OneLeader /\ OneLeader' /\ [Next]_vars => [Lead!Next]_W
  BY LeadershipStep
<1>2. QED
  BY <1>1, ServerSingleLeader, TypeCorrect, LeadershipInit, PTL
     DEF Spec, LeadershipSpec, Lead!Spec
=============================================================================
