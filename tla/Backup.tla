------------------------------- MODULE Backup -------------------------------
(***************************************************************************)
(* The scheduled copies of the system: rounds of the runner threads of the  *)
(* web processes, copies run and deleted by hand, retention, locks.         *)
(*   src/src/lib/core/backup/runner.py      rounds, lease, prune            *)
(*   src/src/lib/core/backup/create.py      a copy is written               *)
(*   src/src/lib/core/backup/service.py     list_backups, delete_backup     *)
(*   src/src/lib/core/backup/locks.py       the lock beside a copy          *)
(*   src/src/lib/core/backup/schedule.py    what is due; module Retention   *)
(*                                                                         *)
(* The folder is the only state of the copies.  A listing reads all of it   *)
(* in one step.  A copy is there from the moment its archive is moved into  *)
(* place and finished when its digest is written beside it; deleting one    *)
(* looks for its lock and then removes it.  Two copies of one task never    *)
(* begin in the same second here: they would share a name (create.py:122).  *)
(***************************************************************************)
EXTENDS Retention

CONSTANTS Worker,     \* runner threads, and threads of what is done by hand
          None,       \* no task: a copy made or deleted by hand; nobody: the lease is free
          Task,       \* rows of the tasks table
          Scheduled,  \* those enabled
          Policies,   \* the retention rules a task may be given
          Outcome,    \* what create_backup may write: [ok, size]
          Every,      \* the interval of a task
          Excluded,   \* races the environment is assumed to stay clear of:
                      \* "prunes", two prunings of one task at once, and
                      \* "copies", one while another copy of the task is unfinished
          MaxTime, MaxCopies, MaxChanges, MaxFaults     \* bounds

ASSUME BackupAssumption ==
    /\ Scheduled \subseteq Task /\ None \notin Task \cup Worker
    /\ IsFiniteSet(Task) /\ Policies \subseteq Policy
    /\ Outcome \subseteq [ok : BOOLEAN, size : Nat]
    /\ Every \in Nat \ {0} /\ Excluded \subseteq {"prunes", "copies"}
    /\ {MaxTime, MaxCopies, MaxChanges, MaxFaults} \subseteq Nat

VARIABLES
    now,        \* the clock
    copies,     \* the folder: archives with their manifest and their lock
    next,       \* order number of the next copy
    policy,     \* the rules of each task, its profile resolved
    lease,      \* who holds the lease "backup"
    job,        \* the round of each worker, or what it does by hand
    good,       \* history: tasks that were given a good copy, and nobody but retention
                \* has deleted a copy of theirs since
    raced,      \* history: workers that had found the copy they are about to remove unlocked,
                \* or are finishing it, when it was locked
    changes, faults

vars == <<now, copies, next, policy, lease, job, good, raced, changes, faults>>

Number == 1 .. MaxCopies
Copy == [n : Number, task : Task \cup {None}, ok : BOOLEAN, size : Nat,
         at : 0 .. MaxTime, locked : BOOLEAN]
Job  == [pc : {"claim", "round", "create", "finish", "list", "delete", "remove"},
         due : SUBSET Task, over : SUBSET Task, task : Task \cup {None},
         rules : [Task -> Policies], made : Number \cup {0}, doomed : SUBSET Number]
Idle == [pc |-> "idle"]

\* Every variable has the values the code gives it, and no two copies have one name.
TypeOK ==
    /\ now \in 0 .. MaxTime
    /\ copies \subseteq Copy /\ \A c, d \in copies : c.n = d.n => c = d
    /\ next \in 1 .. MaxCopies + 1 /\ \A c \in copies : c.n < next
    /\ policy \in [Task -> Policies]
    /\ lease \in Worker \cup {None, "dead"}
    /\ job \in [Worker -> Job \cup {Idle}]
    /\ good \subseteq Task /\ raced \subseteq Worker
    /\ changes \in 0 .. MaxChanges /\ faults \in 0 .. MaxFaults

Init ==
    /\ now = 0
    /\ copies = {} /\ next = 1
    /\ policy \in [Task -> Policies]
    /\ lease = None
    /\ job = [w \in Worker |-> Idle]
    /\ good = {} /\ raced = {}
    /\ changes = 0 /\ faults = 0

Fault  == faults < MaxFaults /\ faults' = faults + 1
Change == changes < MaxChanges /\ changes' = changes + 1

Autos(t) == {c \in copies : c.task = t}

\* task_is_due, interval: never copied, or not for a whole interval (last_auto_ts).
Due(t) == \A c \in Autos(t) : now - c.at >= Every

\* What a worker has to do: a round, or one thing.
Round(due, over) == [pc |-> "claim", due |-> due, over |-> over, task |-> None,
                     rules |-> policy, made |-> 0, doomed |-> {}]
Copying(t)  == [Round({}, {}) EXCEPT !.pc = "create", !.task = t]
Deleting(c) == [Round({}, {}) EXCEPT !.pc = "delete", !.doomed = {c.n}]

\* Worker w is done with a task: its round is over, or goes on with what it has left.
Proceed(w) ==
    LET j == job[w]
    IN  job' = [job EXCEPT ![w] =
                  IF j.due = {} /\ j.over = {} THEN Idle
                  ELSE [j EXCEPT !.pc = "round", !.task = None, !.made = 0, !.doomed = {}]]

\* delete_backup goes through the doomed copies from the oldest on.
Oldest(j) == CHOOSE n \in j.doomed : \A k \in j.doomed : n <= k

\* The copy a worker may remove in its next step, whatever has become of its lock.
AtHand(w) ==
    CASE job[w].pc = "finish" -> {job[w].made}
      [] job[w].pc = "remove" -> {Oldest(job[w])}
      [] OTHER -> {}
-----------------------------------------------------------------------------
\* The environment.  Somebody locks or unlocks a copy, makes or deletes one by hand, or changes
\* a task's rules.
Lock(c) ==
    LET near == {w \in Worker : c.n \in AtHand(w)}
    IN  /\ Change /\ c \in copies
        /\ copies' = (copies \ {c}) \cup {[c EXCEPT !.locked = ~@]}
        /\ raced' = IF c.locked THEN raced \ near ELSE raced \cup near
        /\ UNCHANGED <<now, next, policy, lease, job, good, faults>>

CopyByHand(w) ==
    /\ Change /\ job[w] = Idle
    /\ job' = [job EXCEPT ![w] = Copying(None)]
    /\ UNCHANGED <<now, copies, next, policy, lease, good, raced, faults>>

DeleteByHand(w, c) ==
    /\ Change /\ job[w] = Idle /\ c \in copies
    /\ job' = [job EXCEPT ![w] = Deleting(c)]
    /\ UNCHANGED <<now, copies, next, policy, lease, good, raced, faults>>

SetPolicy(t) ==
    /\ Change
    /\ \E q \in Policies \ {policy[t]} : policy' = [policy EXCEPT ![t] = q]
    /\ UNCHANGED <<now, copies, next, lease, job, good, raced, faults>>

Clock ==
    /\ now < MaxTime /\ now' = now + 1
    /\ UNCHANGED <<copies, next, policy, lease, job, good, raced, changes, faults>>

ExpireNever == FALSE /\ lease' = None /\ UNCHANGED vars

\* LEASE_TTL has passed since the lease was claimed; nobody renews or releases it.
Expire ==
    /\ lease # None /\ lease' = None
    /\ UNCHANGED <<now, copies, next, policy, job, good, raced, changes, faults>>

\* The process dies and another takes its place, under another id to the lease: an archive not
\* yet moved into place is no copy, one that is stays.
Crash(w) ==
    /\ job[w] # Idle /\ Fault
    /\ lease' = IF lease = w THEN "dead" ELSE lease
    /\ job' = [job EXCEPT ![w] = Idle]
    /\ raced' = raced \ {w}
    /\ UNCHANGED <<now, copies, next, policy, good, changes>>
-----------------------------------------------------------------------------
\* tick: the tasks, their rules and the folder are read; the lease is asked for only when
\* something is due or retention has something to delete.
Tick(w) ==
    LET due  == {t \in Scheduled : Due(t)}
        over == {t \in Task : Prune(Autos(t), policy[t]) # {}}
    IN  /\ job[w] = Idle /\ due \cup over # {}
        /\ job' = [job EXCEPT ![w] = Round(due, over \ due)]
        /\ UNCHANGED <<now, copies, next, policy, lease, good, raced, changes, faults>>

\* _claim: a lease whose statements fail ends the round, taken or not; one that cannot even be
\* asked for does not.
Claim(w) ==
    /\ job[w].pc = "claim"
    /\ \/ /\ lease \in {None, w} /\ lease' = w
          /\ job' = [job EXCEPT ![w].pc = "round"] /\ UNCHANGED faults
       \/ /\ lease \notin {None, w}
          /\ job' = [job EXCEPT ![w] = Idle] /\ UNCHANGED <<lease, faults>>
       \/ /\ Fault /\ lease' \in {lease} \cup {v \in {w} : lease = None}
          /\ job' = [job EXCEPT ![w] = Idle]
       \/ Fault /\ job' = [job EXCEPT ![w].pc = "round"] /\ UNCHANGED lease
    /\ UNCHANGED <<now, copies, next, policy, good, raced, changes>>

\* The due tasks first, each copied and pruned; then the others that have copies to delete.
Begin(w, t) ==
    /\ job[w].pc = "round"
    /\ \/ t \in job[w].due
          /\ job' = [job EXCEPT ![w].pc = "create", ![w].task = t, ![w].due = @ \ {t}]
       \/ job[w].due = {} /\ t \in job[w].over
          /\ job' = [job EXCEPT ![w].pc = "list", ![w].task = t, ![w].over = @ \ {t}]
    /\ UNCHANGED <<now, copies, next, policy, lease, good, raced, changes, faults>>

\* run_now: the same path without the lease.
RunNow(w, t) ==
    /\ Change /\ job[w] = Idle
    /\ job' = [job EXCEPT ![w] = Copying(t)]
    /\ UNCHANGED <<now, copies, next, policy, lease, good, raced, faults>>

AppearsUnnamed(j, o) ==
    /\ copies' = copies \cup {[n |-> next, task |-> j.task, ok |-> o.ok, size |-> o.size,
                               at |-> now, locked |-> FALSE]}
    /\ UNCHANGED next

\* The archive of job j is moved into place, the newest of the folder.
Appears(j, o) ==
    /\ copies' = copies \cup {[n |-> next, task |-> j.task, ok |-> o.ok, size |-> o.size,
                               at |-> now, locked |-> FALSE]}
    /\ next' = next + 1

\* create_backup: the archive is written, whole or with parts missing, and moved into place; or
\* that fails, and a task is left for the next round.
Create(w) ==
    /\ job[w].pc = "create"
    /\ \/ /\ next <= MaxCopies
          /\ \E o \in Outcome : Appears(job[w], o)
          /\ job' = [job EXCEPT ![w].pc = "finish", ![w].made = next]
          /\ UNCHANGED faults
       \/ Fault /\ Proceed(w) /\ UNCHANGED <<copies, next>>
    /\ UNCHANGED <<now, policy, lease, good, raced, changes>>

\* The digest is written beside it.  An error there removes the archive again, if it can, and
\* it is one that the archive has been deleted meanwhile.
Finish(w) ==
    LET j == job[w]
        it == {c \in copies : c.n = j.made}
    IN  /\ j.pc = "finish"
        /\ \/ /\ it # {}
              /\ good' = (good \cup {c.task : c \in Good(it)}) \ {None}
              /\ IF j.task = None THEN Proceed(w)
                 ELSE job' = [job EXCEPT ![w].pc = "list", ![w].made = 0]
              /\ UNCHANGED <<copies, faults>>
           \/ /\ it # {} /\ Fault /\ copies' \in {copies, copies \ it}
              /\ Proceed(w) /\ UNCHANGED good
           \/ it = {} /\ Proceed(w) /\ UNCHANGED <<copies, good, faults>>
        /\ raced' = raced \ {w}
        /\ UNCHANGED <<now, next, policy, lease, changes>>

\* _prune_task: the folder is listed again and the deletions are decided.
List(w) ==
    LET j == job[w]
        doomed == {c.n : c \in Prune(Autos(j.task), j.rules[j.task])}
        Clear(race, pcs) == race \in Excluded =>
            \A v \in Worker : job[v].pc \in pcs => job[v].task # j.task
    IN  /\ j.pc = "list"
        /\ Clear("prunes", {"delete", "remove"}) /\ Clear("copies", {"finish"})
        /\ IF doomed = {} THEN Proceed(w)
           ELSE job' = [job EXCEPT ![w].pc = "delete", ![w].doomed = doomed]
        /\ UNCHANGED <<now, copies, next, policy, lease, good, raced, changes, faults>>

\* Worker w is done with the oldest of its doomed copies.
Dealt(w) ==
    LET left == job[w].doomed \ {Oldest(job[w])}
    IN  IF left = {} THEN Proceed(w)
        ELSE job' = [job EXCEPT ![w].pc = "delete", ![w].doomed = left]

FoundUnasked(n) == {c \in copies : c.n = n}

\* A copy gone, or locked since it was chosen, is left alone.
Found(n) == {c \in copies : c.n = n /\ ~c.locked}

\* delete_backup: the oldest of the doomed copies is looked for, with its lock.
Examine(w) ==
    /\ job[w].pc = "delete"
    /\ IF Found(Oldest(job[w])) = {} THEN Dealt(w)
       ELSE job' = [job EXCEPT ![w].pc = "remove"]
    /\ UNCHANGED <<now, copies, next, policy, lease, good, raced, changes, faults>>

\* It is removed, if it is still there and can be; the lock is not asked for again.
Remove(w) ==
    LET j == job[w]
        it == {c \in copies : c.n = Oldest(j)}
    IN  /\ j.pc = "remove"
        /\ Dealt(w)
        /\ \/ /\ copies' = copies \ it
              /\ good' = IF j.task = None THEN good \ {c.task : c \in it} ELSE good
              /\ UNCHANGED faults
           \/ it # {} /\ Fault /\ UNCHANGED <<copies, good>>
        /\ raced' = raced \ {w}
        /\ UNCHANGED <<now, next, policy, lease, changes>>
-----------------------------------------------------------------------------
Work(w) ==
    \/ Claim(w) \/ (\E t \in Task : Begin(w, t))
    \/ Create(w) \/ Finish(w) \/ List(w) \/ Examine(w) \/ Remove(w)

Next ==
    \/ \E c \in copies : Lock(c)
    \/ \E t \in Task : SetPolicy(t)
    \/ Clock \/ Expire
    \/ \E w \in Worker :
          \/ Tick(w) \/ Work(w) \/ Crash(w)
          \/ \E t \in Task : RunNow(w, t)
          \/ CopyByHand(w) \/ \E c \in copies : DeleteByHand(w, c)

Spec == Init /\ [][Next]_vars

\* The runner of every process ticks for ever, what it has begun goes on, and a lease that
\* is not claimed again runs out.
FairSpec ==
    /\ Spec
    /\ \A w \in Worker : WF_vars(Tick(w) \/ Work(w))
    /\ WF_vars(Expire)
-----------------------------------------------------------------------------
\* A size budget together with locked copies: what the locked ones take may leave no room for
\* anything else, and retention then deletes the copies the task has just taken.
Squeezed(S, q) == q.budget > 0 /\ \E c \in S : c.locked

\* A lock holds from the moment it is put, against prunings that had chosen the copy before and
\* against whoever deletes by hand, for delete_backup() asks for it copy by copy: nothing removes
\* a locked copy, unless the lock was put between the question and the removal
\* (service.py:159-162), or before the copy was finished (create.py:267-271).
LockHolds ==
    [][\A c \in copies :
          c.locked /\ (\A w \in raced : c.n \notin AtHand(w)) => \E d \in copies' : d.n = c.n]_vars

\* A task that has had a good copy always has one, through any rounds, failures, locks and
\* changes of rules, by the second floor of _apply_floors; as long as its prunings do not overlap,
\* and do not count on a copy somebody else has not finished.
GoodCopyStays == \A t \in good : Good(Autos(t)) # {}

\* Retention never decides to delete the newest copy of a task, the one just taken ("what must
\* never go"), unless the task is squeezed.
NewestKept ==
    \A t \in Task, q \in Policies :
        Autos(t) # {} /\ ~Squeezed(Autos(t), q) => Newest(Autos(t)) \notin Prune(Autos(t), q)

\* Retention settles: what one pruning leaves the next one leaves too, so that running it "on
\* every tick and not only after a copy" loses nothing; unless the task is squeezed, or the
\* floor put back a copy that the next pruning counts against the budget.
PruneSettles ==
    \A t \in Task, q \in Policies :
        ~Squeezed(Autos(t), q) /\ ~Rescued(Autos(t), q) =>
            Prune(Autos(t) \ Prune(Autos(t), q), q) = {}

\* Once nothing more happens no task is left due, whichever process died, stalled or lost the
\* lease, unless it is squeezed.  (MaxCopies only bounds the model.)
DueIsTaken ==
    <>[](\A t \in Scheduled :
            Due(t) => Squeezed(Autos(t), policy[t]) \/ next > MaxCopies)
=============================================================================
