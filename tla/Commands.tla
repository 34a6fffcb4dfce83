------------------------------ MODULE Commands ------------------------------
(***************************************************************************)
(* The queue of one-shot commands of a service (table service_commands) and *)
(* the threads that drain it.                                               *)
(*   src/src/lib/services/manager/commands.py  the rows and their statements*)
(*   src/src/lib/services/heartbeat.py         _drain_commands, prune       *)
(*                                                                         *)
(* An instance drains from its heartbeat thread and from its control server.*)
(* Nothing is assumed of _is_leader: the queue has to be right whatever the *)
(* lease does, split brain included.  The SELECT and the UPDATE of a claim  *)
(* are two steps, as on the server engines; on SQLite nothing comes between *)
(* them.  A row keeps one age: of created_at while it is pending, of        *)
(* claimed_at while it is claimed, of done_at once it is closed.            *)
(***************************************************************************)
EXTENDS Naturals

CONSTANTS Replica,      \* instances of the service
          Thread,       \* the threads of an instance that drain the queue: "beat",
                        \* and "control" where the control server is enabled
          MaxCmd,       \* bound: commands enqueued in a behaviour
          DrainMax,     \* _HB_DRAIN_MAX
          StaleClaim,   \* stale_claim_secs, in ticks
          OlderThan,    \* older_than_secs, in ticks
          MaxFaults     \* bound: failed statements and crashes

ASSUME ThreadAssumption == Thread \subseteq {"beat", "control"} /\ "beat" \in Thread
ASSUME CmdAssumption ==
    /\ MaxCmd \in Nat /\ DrainMax \in Nat \ {0} /\ MaxFaults \in Nat
    /\ StaleClaim \in Nat /\ OlderThan \in Nat /\ StaleClaim <= OlderThan

Cmd     == 1 .. MaxCmd
Drainer == Replica \X Thread
MaxAge  == OlderThan + 1

VARIABLES
    rows,       \* the table
    isLeader,   \* _is_leader of each instance
    drain,      \* where each draining thread is
    runs,       \* history: how often each command was carried out
    faults

vars == <<rows, isLeader, drain, runs, faults>>

Outcome == {"none", "ok", "failed", "abandoned", "expired"}
Row     == [st : {"absent", "pending", "claimed", "closed", "deleted"},
            out : Outcome, age : 0 .. MaxAge]
Idle    == [pc |-> "idle", cmd |-> 0, left |-> 0, ok |-> FALSE]
Search  == [pc : {"select"}, cmd : {0}, left : 1 .. DrainMax, ok : {FALSE}]
Work    == [pc : {"update", "fetch", "apply", "ack"}, cmd : Cmd,
            left : 1 .. DrainMax, ok : BOOLEAN]
Drain   == {Idle} \cup Search \cup Work

TypeOK ==
    /\ rows \in [Cmd -> Row]
    /\ isLeader \in [Replica -> BOOLEAN]
    /\ drain \in [Drainer -> Drain]
    /\ runs \in [Cmd -> Nat]
    /\ faults \in 0 .. MaxFaults

Init ==
    /\ rows = [c \in Cmd |-> [st |-> "absent", out |-> "none", age |-> 0]]
    /\ isLeader = [r \in Replica |-> FALSE]
    /\ drain = [d \in Drainer |-> Idle]
    /\ runs = [c \in Cmd |-> 0]
    /\ faults = 0

Fault == faults < MaxFaults /\ faults' = faults + 1

-----------------------------------------------------------------------------
\* The web admin appends a command; ids are handed out in order.
Enqueue(c) ==
    /\ rows[c].st = "absent"
    /\ \A e \in Cmd : e < c => rows[e].st # "absent"
    /\ rows' = [rows EXCEPT ![c].st = "pending"]
    /\ UNCHANGED <<isLeader, drain, runs, faults>>

\* A beat of instance r got or lost the lease.  The heartbeat thread renews and
\* drains in turn, so its own drain never sees the flag change.
Renewed(r) ==
    /\ drain[<<r, "beat">>].pc = "idle"
    /\ isLeader' = [isLeader EXCEPT ![r] = ~@]
    /\ UNCHANGED <<rows, drain, runs, faults>>

\* Mutant of StartDrain: the batch is one command longer.
StartDrainLong(d) ==
    /\ drain[d].pc = "idle"
    /\ isLeader[d[1]]
    /\ drain' = [drain EXCEPT ![d] =
                   [pc |-> "select", cmd |-> 0, left |-> DrainMax + 1, ok |-> FALSE]]
    /\ UNCHANGED <<rows, isLeader, runs, faults>>

\* _drain_commands: _work_allowed() is asked once, then up to DrainMax commands.
StartDrain(d) ==
    /\ drain[d].pc = "idle"
    /\ isLeader[d[1]]
    /\ drain' = [drain EXCEPT ![d] =
                   [pc |-> "select", cmd |-> 0, left |-> DrainMax, ok |-> FALSE]]
    /\ UNCHANGED <<rows, isLeader, runs, faults>>

Pending == {c \in Cmd : rows[c].st = "pending"}

\* claim_next, the SELECT: the oldest unclaimed command, or the end of the drain.
ClaimSelect(d) ==
    /\ drain[d].pc = "select"
    /\ IF Pending = {}
       THEN drain' = [drain EXCEPT ![d] = Idle]
       ELSE \E c \in Pending :
              /\ \A e \in Pending : c <= e
              /\ drain' = [drain EXCEPT ![d] = [@ EXCEPT !.pc = "update", !.cmd = c]]
    /\ UNCHANGED <<rows, isLeader, runs, faults>>

\* Mutant of Claimable: the UPDATE goes by the id alone.
ClaimableById(c) == rows[c].st # "deleted"

\* `claimed_at IS NULL`
Claimable(c) == rows[c].st = "pending"

\* `SET claimed_by = ?, claimed_at = ?`
Claimed(row) == [st |-> "claimed", out |-> row.out, age |-> 0]

\* claim_next, the conditional UPDATE: a lost race ends the drain.
ClaimUpdate(d) ==
    /\ drain[d].pc = "update"
    /\ LET c == drain[d].cmd IN
         IF Claimable(c)
         THEN /\ rows' = [rows EXCEPT ![c] = Claimed(@)]
              /\ drain' = [drain EXCEPT ![d].pc = "fetch"]
         ELSE drain' = [drain EXCEPT ![d] = Idle] /\ UNCHANGED rows
    /\ UNCHANGED <<isLeader, runs, faults>>

\* claim_next, the second SELECT, outside the transaction: a row pruned
\* meanwhile is no command any more.
ClaimFetch(d) ==
    /\ drain[d].pc = "fetch"
    /\ drain' = [drain EXCEPT ![d] =
                   IF rows[@.cmd].st = "deleted" THEN Idle ELSE [@ EXCEPT !.pc = "apply"]]
    /\ UNCHANGED <<rows, isLeader, runs, faults>>

\* A statement of claim_next raises: it answers None, whatever was committed.
ClaimError(d) ==
    /\ Fault
    /\ drain[d].pc \in {"select", "update", "fetch"}
    /\ LET c == drain[d].cmd IN
         \/ UNCHANGED rows
         \/ /\ drain[d].pc = "update" /\ Claimable(c)
            /\ rows' = [rows EXCEPT ![c] = Claimed(@)]
    /\ drain' = [drain EXCEPT ![d] = Idle]
    /\ UNCHANGED <<isLeader, runs>>

\* The handler carries the command out; what it raises counts as a failure.
Apply(d) ==
    /\ drain[d].pc = "apply"
    /\ runs' = [runs EXCEPT ![drain[d].cmd] = @ + 1]
    /\ \E ok \in BOOLEAN : drain' = [drain EXCEPT ![d] = [@ EXCEPT !.pc = "ack", !.ok = ok]]
    /\ UNCHANGED <<rows, isLeader, faults>>

\* complete(): the UPDATE asks neither who claimed the row nor whether it is
\* still open.  A failing one is swallowed.  The drain goes on.
Complete(d) ==
    /\ drain[d].pc = "ack"
    /\ LET c == drain[d].cmd IN
         \/ /\ rows' = [rows EXCEPT ![c] =
                  IF @.st = "deleted" THEN @
                  ELSE [st |-> "closed", out |-> IF drain[d].ok THEN "ok" ELSE "failed", age |-> 0]]
            /\ UNCHANGED faults
         \/ Fault /\ UNCHANGED rows
    /\ drain' = [drain EXCEPT ![d] =
                   IF @.left = 1 THEN Idle
                   ELSE [pc |-> "select", cmd |-> 0, left |-> @.left - 1, ok |-> FALSE]]
    /\ UNCHANGED <<isLeader, runs>>

\* Mutant of Pruned: expiring a command does not stamp claimed_at.
PrunedUnstamped(row) ==
    CASE row.st = "claimed" /\ row.age > StaleClaim -> [st |-> "closed", out |-> "abandoned", age |-> 0]
      [] row.st = "pending" /\ row.age > OlderThan  -> [row EXCEPT !.out = "expired", !.age = 0]
      [] row.st = "closed"  /\ row.age > OlderThan  -> [row EXCEPT !.st = "deleted"]
      [] OTHER                                      -> row

\* Mutant of Pruned: abandoning does not ask for `done_at IS NULL`.
PrunedFinished(row) ==
    CASE row.st \in {"claimed", "closed"} /\ row.age > StaleClaim
                                                    -> [st |-> "closed", out |-> "abandoned", age |-> 0]
      [] row.st = "pending" /\ row.age > OlderThan  -> [st |-> "closed", out |-> "expired", age |-> 0]
      [] OTHER                                      -> row

\* Mutant of Pruned: a claim whose owner died is put back in the queue.
PrunedRequeues(row) ==
    CASE row.st = "claimed" /\ row.age > StaleClaim -> [st |-> "pending", out |-> "none", age |-> 0]
      [] row.st = "pending" /\ row.age > OlderThan  -> [st |-> "closed", out |-> "expired", age |-> 0]
      [] row.st = "closed"  /\ row.age > OlderThan  -> [row EXCEPT !.st = "deleted"]
      [] OTHER                                      -> row

\* Mutant of Pruned: a claim whose owner died is left as it is.
PrunedNeverAbandons(row) ==
    CASE row.st = "pending" /\ row.age > OlderThan  -> [st |-> "closed", out |-> "expired", age |-> 0]
      [] row.st = "closed"  /\ row.age > OlderThan  -> [row EXCEPT !.st = "deleted"]
      [] OTHER                                      -> row

\* What prune() makes of a row: the three statements in turn.
Pruned(row) ==
    CASE row.st = "claimed" /\ row.age > StaleClaim -> [st |-> "closed", out |-> "abandoned", age |-> 0]
      [] row.st = "pending" /\ row.age > OlderThan  -> [st |-> "closed", out |-> "expired", age |-> 0]
      [] row.st = "closed"  /\ row.age > OlderThan  -> [row EXCEPT !.st = "deleted"]
      [] OTHER                                      -> row

\* Any instance prunes, leader or not.
Prune ==
    /\ rows' = [c \in Cmd |-> Pruned(rows[c])]
    /\ UNCHANGED <<isLeader, drain, runs, faults>>

\* An instance dies with what its threads were doing.
Crash(r) ==
    /\ Fault
    /\ isLeader' = [isLeader EXCEPT ![r] = FALSE]
    /\ drain' = [d \in Drainer |-> IF d[1] = r THEN Idle ELSE drain[d]]
    /\ UNCHANGED <<rows, runs>>

\* Time passes; older than MaxAge is old enough for everything.
Tick ==
    /\ rows' = [c \in Cmd |->
                  IF rows[c].st \in {"absent", "deleted"} \/ rows[c].age = MaxAge
                  THEN rows[c] ELSE [rows[c] EXCEPT !.age = @ + 1]]
    /\ UNCHANGED <<isLeader, drain, runs, faults>>

DrainStep(d) ==
    ClaimSelect(d) \/ ClaimUpdate(d) \/ ClaimFetch(d) \/ Apply(d) \/ Complete(d)

Next ==
    \/ \E c \in Cmd : Enqueue(c)
    \/ \E r \in Replica : Renewed(r) \/ Crash(r)
    \/ \E d \in Drainer : StartDrain(d) \/ DrainStep(d) \/ ClaimError(d)
    \/ Prune
    \/ Tick

\* Time passes, a drain that began goes on, and some instance keeps pruning.
Fairness ==
    /\ WF_vars(Tick) /\ WF_vars(Prune)
    /\ \A d \in Drainer : WF_vars(DrainStep(d))

Spec     == Init /\ [][Next]_vars
FairSpec == Spec /\ Fairness
-----------------------------------------------------------------------------
\* "With two replicas of a service only one runs each command" (commands.py), and
\* one lost by a crash or closed as abandoned "is not run again".
AtMostOnce == \A c \in Cmd : runs[c] <= 1

\* A command closed as expired, because the service was not there to run it, is
\* never carried out afterwards, not even by a drain that read it in time.
ExpiredNeverRuns ==
    \A c \in Cmd : rows[c].out = "expired" =>
        /\ runs[c] = 0
        /\ \A d \in Drainer : drain[d].cmd = c => drain[d].pc = "update"

\* What the panel shows is what happened: done or failed only for a command that
\* was carried out, and a closed command changes its outcome only from abandoned,
\* when its claimer reports back after all.
OutcomeStable ==
    [][\A c \in Cmd :
          /\ rows'[c].out \in {"ok", "failed"} => runs'[c] = 1
          /\ rows[c].out # rows'[c].out => rows[c].out \in {"none", "abandoned"}]_vars

\* The queue keeps the promises of Mailbox: a row deleted from the table has come as far as
\* it had, and a command is carried out when its handler runs, whatever its row says by then.
StageOf(c) ==
    CASE rows[c].st = "absent"   -> "new"
      [] rows[c].st = "pending"  -> "waiting"
      [] runs[c] > 0             -> "run"
      [] rows[c].out = "expired" -> "expired"
      [] OTHER                   -> "taken"

Box == INSTANCE Mailbox WITH stage <- [c \in Cmd |-> StageOf(c)],
                             shown <- [c \in Cmd |-> rows[c].out]

\* "Atomically claim the oldest unclaimed command"; "with two replicas of a service only one
\* runs each command" (commands.py:97, :16): all a command goes through, in its order.
MailboxSpec == Box!Spec

\* No command shows as waiting or running for ever: it is closed in the end, done
\* or not, whoever died and whatever failed.
EventuallyClosed ==
    \A c \in Cmd : rows[c].st \in {"pending", "claimed"} ~> rows[c].st \in {"closed", "deleted"}
=============================================================================
