------------------------------- MODULE Lease --------------------------------
(***************************************************************************)
(* The leader lease of a single-owner service (monitoring, events): the one *)
(* row of table service_leader, and the replicas that acquire, renew and    *)
(* release it from their heartbeat.                                         *)
(*   src/src/lib/services/manager/leader.py   the row and its statements    *)
(*   src/src/lib/services/heartbeat.py        the beat, _work_allowed, stop *)
(*                                                                         *)
(* Time is kept relative to the present, so that it needs no bound: a lease *)
(* has the time LEFT until expires_at, a time.time() sample has an AGE.     *)
(* Replica r's wall clock runs Offset[r] ahead of the true one.             *)
(***************************************************************************)
EXTENDS Integers

CONSTANTS Replica,      \* instance ids competing for the service
          NoRow,        \* "holder" while the table has no row for the service
          Vacant,       \* the holder '' a release leaves
          TTL,          \* _LEADER_TTL
          MaxStall,     \* longest time a replica acts on one time.time() sample
          Offset,       \* clock error of each replica
          Serialised,   \* TRUE: BEGIN IMMEDIATE (SQLite); FALSE: READ COMMITTED
          Faults,       \* what may go wrong: "crash"; "dberror", a statement fails;
                        \* "reuse", a process gets the id of one that ended
                        \* (hostname and pid are a container's own)
          MaxFaults     \* bound on the number of failures and shutdowns

ASSUME ReplicaAssumption == NoRow \notin Replica /\ Vacant \notin Replica /\ NoRow # Vacant
ASSUME TimeAssumption == TTL \in Nat \ {0} /\ MaxStall \in Nat /\ MaxFaults \in Nat
ASSUME OffsetAssumption == Offset \in [Replica -> Nat]
ASSUME EngineAssumption == Serialised \in BOOLEAN
\* A holder stops acting on a sample before another replica's clock finds the
\* lease taken with it expired.
ASSUME StallAssumption ==
    \A r, s \in Replica : MaxStall + Offset[s] <= TTL + Offset[r]

VARIABLES
    lease,      \* the row: its holder and the time left
    phase,      \* life cycle of the process
    pc,         \* where its heartbeat thread is inside try_acquire
    seen,       \* the holder its SELECT returned
    age,        \* age of the time.time() sample its try_acquire works with
    ans,        \* what try_acquire is about to return
    isLeader,   \* _is_leader
    basis,      \* age of the sample _is_leader = True rests on
    faults      \* failures and shutdowns so far

vars == <<lease, phase, pc, seen, age, ans, isLeader, basis, faults>>

Holder == Replica \cup {NoRow, Vacant}
Write  == {"insert", "renew", "claim"}
Alive  == {"starting", "up", "stopping", "released"}

TypeOK ==
    /\ lease \in [holder : Holder, left : Int]
    /\ phase \in [Replica -> Alive \cup {"down", "crashed", "exited"}]
    /\ pc \in [Replica -> {"idle", "begin", "decided"} \cup Write]
    /\ seen \in [Replica -> Holder]
    /\ age \in [Replica -> 0 .. MaxStall]
    /\ ans \in [Replica -> BOOLEAN]
    /\ isLeader \in [Replica -> BOOLEAN]
    /\ basis \in [Replica -> 0 .. MaxStall]
    /\ faults \in 0 .. MaxFaults

\* From here on every comparison of the time left gives the same answer.
Floor == -MaxStall - 1

Init ==
    /\ lease = [holder |-> NoRow, left |-> Floor]
    /\ phase = [r \in Replica |-> "down"]
    /\ pc = [r \in Replica |-> "idle"]
    /\ seen = [r \in Replica |-> NoRow]
    /\ age = [r \in Replica |-> 0]
    /\ ans = [r \in Replica |-> FALSE]
    /\ isLeader = [r \in Replica |-> FALSE]
    /\ basis = [r \in Replica |-> 0]
    /\ faults = 0

-----------------------------------------------------------------------------
\* The `now` of r's running try_acquire, relative to the present.
Now(r) == Offset[r] - age[r]

\* Mutant of Expired: a lease ends one unit early.
ExpiredEarly(r) == lease.left < Now(r) + 1

\* `expires < now`
Expired(r) == lease.left < Now(r)

\* _work_allowed() of a gated service whose worker loop has not been stopped.
MayWork(r) == phase[r] = "up" /\ isLeader[r]

\* Mutant of Plan: the branch that claims an expired lease is missing.
PlanNoTakeover(r) ==
    CASE lease.holder = NoRow                     -> "insert"
      [] lease.holder \in {r, Vacant}             -> IF lease.holder = r THEN "renew" ELSE "claim"
      [] lease.holder \in Replica \ {r}           -> "refuse"

\* Which statement the SELECT leads to.
Plan(r) ==
    CASE lease.holder = NoRow                 -> "insert"
      [] lease.holder = r                     -> "renew"
      [] lease.holder # r /\ lease.holder # NoRow
         /\ (lease.holder = Vacant \/ Expired(r)) -> "claim"
      [] OTHER                                -> "refuse"

\* Mutant of Matches: the claim does not repeat the condition of the SELECT.
MatchesBlindly(r, plan, old) ==
    \/ plan = "insert" /\ lease.holder = NoRow
    \/ plan = "renew" /\ lease.holder = r
    \/ plan = "claim"

\* The WHERE clause of that statement; for the INSERT, the unique key.
Matches(r, plan, old) ==
    \/ plan = "insert" /\ lease.holder = NoRow
    \/ plan = "renew" /\ lease.holder = r
    \/ plan = "claim" /\ (lease.holder = old \/ Expired(r))

\* The row after a statement of r that matched: exp = now + max(1, ttl).
Held(r) == [holder |-> r, left |-> Now(r) + TTL]

Statement(r, plan, old) ==
    /\ ans' = [ans EXCEPT ![r] = Matches(r, plan, old)]
    /\ lease' = IF Matches(r, plan, old) THEN Held(r) ELSE lease
    /\ pc' = [pc EXCEPT ![r] = "decided"]

\* try_acquire is over: nothing of what it worked with is kept.
Idle(r) ==
    /\ pc' = [pc EXCEPT ![r] = "idle"]
    /\ seen' = [seen EXCEPT ![r] = NoRow]
    /\ age' = [age EXCEPT ![r] = 0]
    /\ ans' = [ans EXCEPT ![r] = FALSE]

Fault(kind) == kind \in Faults /\ faults < MaxFaults /\ faults' = faults + 1

-----------------------------------------------------------------------------
\* The service starts; start_heartbeat claims the lease before the first beat.
Start(r) ==
    /\ phase[r] = "down" \/ ("reuse" \in Faults /\ phase[r] \in {"crashed", "exited"})
    /\ phase' = [phase EXCEPT ![r] = "starting"]
    /\ isLeader' = [isLeader EXCEPT ![r] = FALSE]
    /\ pc' = [pc EXCEPT ![r] = "begin"]
    /\ age' = [age EXCEPT ![r] = 0]
    /\ UNCHANGED <<lease, seen, ans, basis, faults>>

\* The next beat of the loop: try_acquire reads the clock.
Beat(r) ==
    /\ phase[r] \in {"up", "stopping"}
    /\ pc[r] = "idle"
    /\ pc' = [pc EXCEPT ![r] = "begin"]
    /\ age' = [age EXCEPT ![r] = 0]
    /\ UNCHANGED <<lease, phase, seen, ans, isLeader, basis, faults>>

\* The whole transaction, under the database's write lock.
Acquire(r) ==
    /\ Serialised
    /\ pc[r] = "begin"
    /\ Statement(r, Plan(r), lease.holder)
    /\ UNCHANGED <<phase, seen, age, isLeader, basis, faults>>

\* On a server engine the SELECT takes no lock ...
AcquireRead(r) ==
    /\ ~Serialised
    /\ pc[r] = "begin"
    /\ seen' = [seen EXCEPT ![r] = lease.holder]
    /\ pc' = [pc EXCEPT ![r] = IF Plan(r) = "refuse" THEN "decided" ELSE Plan(r)]
    /\ ans' = [ans EXCEPT ![r] = FALSE]
    /\ UNCHANGED <<lease, phase, age, isLeader, basis, faults>>

\* ... and the INSERT or UPDATE meets the row as the others left it.
AcquireWrite(r) ==
    /\ pc[r] \in Write
    /\ Statement(r, pc[r], seen[r])
    /\ UNCHANGED <<phase, seen, age, isLeader, basis, faults>>

\* A statement or the COMMIT raises: try_acquire answers False, and the write
\* may have been made all the same.
AcquireError(r) ==
    /\ Fault("dberror")
    /\ pc[r] \in {"begin"} \cup Write
    /\ LET plan == IF pc[r] = "begin" THEN Plan(r) ELSE pc[r]
           old  == IF pc[r] = "begin" THEN lease.holder ELSE seen[r]
       IN lease' \in {lease} \cup (IF Matches(r, plan, old) THEN {Held(r)} ELSE {})
    /\ ans' = [ans EXCEPT ![r] = FALSE]
    /\ pc' = [pc EXCEPT ![r] = "decided"]
    /\ UNCHANGED <<phase, seen, age, isLeader, basis>>

\* Mutant of Return: a refused renewal does not clear _is_leader.
ReturnSticky(r) ==
    /\ pc[r] = "decided"
    /\ phase' = [phase EXCEPT ![r] = IF @ = "starting" THEN "up" ELSE @]
    /\ isLeader' = [isLeader EXCEPT ![r] = @ \/ ans[r]]
    /\ basis' = [basis EXCEPT ![r] = IF ans[r] THEN age[r] ELSE 0]
    /\ Idle(r)
    /\ UNCHANGED <<lease, faults>>

\* _renew_leadership stores the answer in _is_leader.  After the first one the
\* service starts its loops and can be told to stop.
Return(r) ==
    /\ pc[r] = "decided"
    /\ phase' = [phase EXCEPT ![r] = IF @ = "starting" THEN "up" ELSE @]
    /\ isLeader' = [isLeader EXCEPT ![r] = ans[r]]
    /\ basis' = [basis EXCEPT ![r] = IF ans[r] THEN age[r] ELSE 0]
    /\ Idle(r)
    /\ UNCHANGED <<lease, faults>>

-----------------------------------------------------------------------------
\* Clean shutdown, first half: the worker loop is told to stop.
StopWork(r) ==
    /\ phase[r] = "up"
    /\ faults < MaxFaults /\ faults' = faults + 1
    /\ phase' = [phase EXCEPT ![r] = "stopping"]
    /\ UNCHANGED <<lease, pc, seen, age, ans, isLeader, basis>>

\* Second half, stop_heartbeat: no further beat starts, the lease is released.
\* The beat in progress is not waited for.  A failing release is swallowed.
StopHeartbeat(r) ==
    /\ phase[r] = "stopping"
    /\ phase' = [phase EXCEPT ![r] = "released"]
    /\ \/ /\ lease' = IF lease.holder = r THEN [holder |-> Vacant, left |-> Floor] ELSE lease
          /\ UNCHANGED faults
       \/ Fault("dberror") /\ UNCHANGED lease
    /\ UNCHANGED <<pc, seen, age, ans, isLeader, basis>>

Leave(r, how) ==
    /\ phase' = [phase EXCEPT ![r] = how]
    /\ isLeader' = [isLeader EXCEPT ![r] = FALSE]
    /\ basis' = [basis EXCEPT ![r] = 0]
    /\ Idle(r)
    /\ UNCHANGED lease

\* The process ends, its daemon threads with it.
Exit(r) == phase[r] = "released" /\ Leave(r, "exited") /\ UNCHANGED faults

Crash(r) == phase[r] \in Alive /\ Fault("crash") /\ Leave(r, "crashed")

\* Mutant of Tick: a beat takes as long as it likes, the lease being no longer
\* than the beats are apart.
TickStalled ==
    /\ lease' = [lease EXCEPT !.left = IF @ > Floor THEN @ - 1 ELSE @]
    /\ age' = [r \in Replica |-> IF pc[r] # "idle" THEN age[r] + 1 ELSE 0]
    /\ basis' = [r \in Replica |-> IF MayWork(r) THEN basis[r] + 1 ELSE 0]
    /\ UNCHANGED <<phase, pc, seen, ans, isLeader, faults>>

\* One unit of time.  No replica acts on a sample older than MaxStall: this is
\* the assumption under which a lease can exclude at all.
Tick ==
    /\ \A r \in Replica : /\ pc[r] # "idle" => age[r] < MaxStall
                          /\ MayWork(r) => basis[r] < MaxStall
    /\ lease' = [lease EXCEPT !.left = IF @ > Floor THEN @ - 1 ELSE @]
    /\ age' = [r \in Replica |-> IF pc[r] # "idle" THEN age[r] + 1 ELSE 0]
    /\ basis' = [r \in Replica |-> IF MayWork(r) THEN basis[r] + 1 ELSE 0]
    /\ UNCHANGED <<phase, pc, seen, ans, isLeader, faults>>

Heartbeat(r) == Beat(r) \/ Acquire(r) \/ AcquireRead(r) \/ AcquireWrite(r) \/ Return(r)
Shutdown(r)  == StopWork(r) \/ StopHeartbeat(r) \/ Exit(r)

Next ==
    \/ \E r \in Replica : Start(r) \/ Heartbeat(r) \/ AcquireError(r) \/ Shutdown(r) \/ Crash(r)
    \/ Tick

\* The heartbeat thread of a live process goes on, time passes, and a shutdown
\* that began ends.  Nothing has to start, stop or fail.
Fairness ==
    /\ WF_vars(Tick)
    /\ \A r \in Replica : WF_vars(Heartbeat(r)) /\ WF_vars(StopHeartbeat(r)) /\ WF_vars(Exit(r))

Spec     == Init /\ [][Next]_vars
FairSpec == Spec /\ Fairness
-----------------------------------------------------------------------------
\* At most one replica may do the service's work (leader.py: "some services must
\* NOT run on more than one instance at once").
OneLeader == \A r, s \in Replica : MayWork(r) /\ MayWork(s) => r = s

\* The replica that does the work is the one current_leader() names, whichever
\* replica's clock it is asked with: the panel never shows "no leader" or another
\* one while a worker runs.
WorkerIsCurrentLeader ==
    \A r \in Replica : MayWork(r) =>
        lease.holder = r /\ \A s \in Replica : lease.left >= Offset[s]

\* The replicas and their lease are an instance of the leadership they promise:
\* no replica becomes the worker while another one is, not even in one step.
Lead == INSTANCE Leadership WITH working <- {r \in Replica : MayWork(r)}
LeadershipSpec == Lead!Spec

\* Hot standby (leader.py: replicas "that take over within seconds if the active
\* one dies"): while a replica is up, there is a worker again sooner or later,
\* unless that replica goes down too.
Failover ==
    \A r \in Replica :
        phase[r] = "up" ~> (phase[r] # "up" \/ \E s \in Replica : MayWork(s))

\* A clean shutdown gives the lease up: "instant failover" (heartbeat.py,
\* stop_heartbeat).  A replica that has exited cleanly holds nothing.
CleanExitFreesLease == \A r \in Replica : phase[r] = "exited" => lease.holder # r
=============================================================================
