# ServiceSentry in TLA+

ServiceSentry monitors services: *watchful* modules probe them, a scheduler
runs the modules, a table keeps the live status, changes of status become
alerts, and a web panel shows and commands it all. It runs as one process or as
several containers and replicas that share one database (SQLite, MySQL or
PostgreSQL) and nothing else. This directory models the parts in which those
threads, processes and failures meet.

All paths below are under `src/src/lib/`. The manifest `PROJECT.json` maps each
definition to the lines it stands for.

## 1. Inventory

| Component | State it keeps | Operations | What is hard | What makes it correct |
|---|---|---|---|---|
| **Leader lease, heartbeat** `services/manager/leader.py`, `services/heartbeat.py` | table `service_leader`; `_is_leader` of each replica | acquire / renew / release, on a beat of 10 s | two statements that are atomic on SQLite only, wall clocks, lost answers, crashes, a reused instance id, a beat in flight at shutdown | one worker at a time; a worker is the holder the panel shows; someone takes over; a clean exit frees the lease |
| **Command queue** `services/manager/commands.py` | table `service_commands` | enqueue (panel), claim, run, complete, prune | several instances and threads drain; claim and answer can part; a claimer dies; prune races a claim | at most once; expired means not run; the outcome shown is the true one; nothing stays open |
| **Monitoring pipeline** `services/monitoring/*` and `core/notify/monitor_notifier.py` | working status of each `Monitor`, table `check_state`, in-flight sets, buffered history rows, buffered and queued alerts | cycle, on-demand run, `run_now`, maintenance purge, clear, dispose, send | modules that outlive their cycle, failing reads and saves, several Monitors over one table, purge without the lock | alerts follow the saved state and repeat nothing; each sample is written once; a lasting failure is heard of |
| **Event worker** `services/events/*` | cursor and cooldowns per source (tables), late window (memory) | tick: read rows since the cursor, evaluate rules, dispatch | change of leader, crash inside a batch, ids committed out of order | no row lost, none evaluated twice, no rule fired within its cooldown |
| **IP ban jail** `services/ipban/*` | bans, offence counters, whitelist, a 3 s cache of the bans per process | gate, offence, ban, escalation, unban, forgiving, block action | several processes and threads, a cache, operations without the lock, several statements per operation | a ban or its lifting holds everywhere soon; a jailed address is not counted again; a ban takes a threshold of fresh offences |
| **Backup** `core/backup/*` | archives on disk with locks beside them, tasks and retention profiles, lease `backup` | scheduled round, run now, prune, lock, restore | pruning under floors, size budget and locks; a round longer than its lease; run-now without it | never prune the last good copy or the newest; a lock holds; no task stays due |
| **Syslog receiver** `services/syslog/*` | bounded queue with a byte budget, message table | receive, write batches, prune | full queue, shutdown with messages queued | the budget balances; what was queued is written at a stop |
| **Service instances** `services/manager/instances.py` | liveness rows | beat, mark down, prune | ids reused | a row belongs to one instance |
| **Job history** `core/jobs/*` | rows of background jobs | start, finish, reap | several panels | a running job is not declared dead |
| **Database layer** `db/*` | connections per thread | transactions, schema | isolation levels differ by engine | modelled where a component depends on it |
| **Sign-in, sessions, MFA, tokens** `core/sessions`, `core/mfa`, `core/apitokens`, `security` | sessions, factors, windows of failed attempts | check, consume, revoke | one-time codes under concurrency | a code works once |
| **Users, roles, organisations, configuration, inventory (DCIM, devices, SNMP), providers, panel, CLI, packaging** | records and settings | CRUD, rendering, external clients | little control | not modelled |

How they meet: the heartbeat thread of a service renews the lease, writes the
liveness row and drains the queue, in that order, in every beat. Scheduler,
event worker and drain ask `_work_allowed()`, the cached answer of the last
renewal, before they work. A `clear_status` command runs on the heartbeat thread
and takes no lock; a `run_now` command starts a thread of its own, which holds
`_check_lock` as the scheduler does. Both work on the scheduler's Monitor. Monitors
share `check_state` and the alert outbox; everything between processes goes
through tables.

The event worker asks the same lease as the monitoring service does, under a key
of its own; the backup runner takes a lease of the same table but neither renews
nor releases it. The jail is asked by every web request and every syslog packet,
in each process.

`PROJECT.json` lists 40 hazards of this code, each at its line, with the
properties that cover it or the reason none does yet.

## 2. The modules

| Module | What it is |
|---|---|
| `Leadership` | abstract: the set of replicas that may work, at most one, never handed over in one step |
| `Lease` | the lease row, the replicas' heartbeats, time; implements `Leadership` |
| `LeaseProofs` | proofs about `Lease` |
| `MCLease` | instances of `Lease` for TLC |
| `Mailbox` | abstract: what becomes of each command, and what is shown of it |
| `Commands` | the queue, its drains, prune; nothing assumed of the lease; implements `Mailbox` |
| `CommandsProofs` | proofs about `Commands` |
| `MCCommands` | instance for TLC |
| `Monitoring` | scheduler cycle, modules, status, history, alerts |
| `MonitoringProofs` | proofs about `Monitoring` |
| `MCMonitoring` | instances for TLC |
| `EventWorker` | tick, cursor, late window, cooldowns; the lease as an instance of `Leadership` |
| `EventWorkerProofs` | proofs about `EventWorker` |
| `MCEventWorker` | instances for TLC |
| `Retention` | `prune()` and what it is made of, as operators on sets of copies |
| `RetentionProofs` | proofs about `Retention` |
| `Backup` | rounds, run-now, deletions, locks; extends `Retention` |
| `BackupProofs` | proofs about `Backup`, from those about `Retention` |
| `MCBackup` | instance for TLC |
| `Jail` | one address, the processes that count, ban and ask for it |
| `JailProofs` | proofs about `Jail` |
| `MCJail` | instance for TLC |

### Lease

`lease` is the row; `pc[r]`, `seen[r]`, `age[r]`, `ans[r]` are the locals of
`try_acquire`; `isLeader[r]` is `_is_leader`; `phase[r]` is where the process is
between start and exit. Time is relative to the present: the row keeps the time
*left* until `expires_at`, a sample of `time.time()` keeps its *age*, so that the
model needs no bound on time. `Offset[r]` is how far r's clock is ahead.

`Serialised` chooses the engine. On SQLite a transaction is `BEGIN IMMEDIATE`
(`db/sqlite.py`), so `Acquire` is one step. On MySQL and PostgreSQL (READ
COMMITTED, `db/mysql.py:121`) `AcquireRead` and `AcquireWrite` are two, and the
write re-checks only its WHERE clause (`Matches`). `AcquireError` is a statement
or COMMIT that raises, with or without its effect. `Start` is `start_heartbeat`,
`StopWork`, `StopHeartbeat`, `Exit` the clean shutdown of
`monitoring/service.py`; the heartbeat thread is a daemon that nobody joins, so
a beat goes on through it. With `"reuse"` in `Faults` a process gets the id of
one that ended, as a restarted container does.

`StallAssumption`, that a sample is acted on for at most `MaxStall` and
`MaxStall` plus the difference of two clocks is at most the TTL, is what any
lease needs; the code has it by beating every 10 s with a TTL of 30 s, and
nothing enforces it. `MayWork` is the answer of `_work_allowed()`: what a worker
that asked before a long cycle does afterwards is outside it (a listed hazard).

### Commands

`enqueue` is one INSERT, hence one step. A row keeps one age: since creation while
pending, since the claim while claimed, since the end once closed. That is all `prune`
looks at. A drain is a
thread of an instance (`beat`, or `control` for the control server) and its
place in `claim_next`, the handler, `complete`. `isLeader` flips as it likes,
except under a drain of the same heartbeat thread: the queue has to be right
under split brain as well. `runs` counts executions. A failing SELECT, UPDATE,
COMMIT or acknowledgement and a crash are bounded by `MaxFaults`.

`Mailbox` is what the panel may count on: a command is sent, taken (the oldest of
those waiting first), carried out, and its outcome shown; or it expires untaken, or
is given up when who took it does not report. `Box` maps a row to it: `stage` is how
far the command came (`StageOf`: a claimed one is `taken` until its run begins), and
`shown` the outcome stored, which outlasts the deletion of the row. One pass of `prune`
closes many commands, so a step of `Mailbox` may move several.

### Monitoring

A `Monitor` object is a slot: `cur` is the persistent one, the others are those
of on-demand runs and those disposed of while modules are still out. `mem`,
`unsaved`, `open`, `buf` are its `status.data`, `_unsaved_modules`, whether its
`_notifier` is there, and what that one has buffered. `run[g][m]` is a module's
run from submission (`waiting`) over the probe (`probed`) and the processing
under the save lock (`saved`) to its end; `late` says that the deadline of its
cycle passed. `cycle` is `run_checks` under `_check_lock`. `heard`, `forgot`,
`owed` are history variables for the properties. `Unsent(m)` are the alerts about
m in the outbox and the buffers, `WordAfter` the last thing said once they are out,
`UpToDate` that no monitor at rest remembers something older than the table.

`clear_status` takes three steps beside everything else: `ClearStatus` empties the
memory, `ClearBuild` makes the rows of what is in it by then, `ClearWrite` replaces
the table; `clearing` is how far it is. What a cycle saves and alerts in between is
told like anything else, until the write forgets it. `ClearTable` is the panel's
button, one DELETE behind the back of every monitor. Building the monitor where there
is none is one step: two threads that each build one are left out.

What is left out, and why it does not matter to the properties:
  - one item per module; severity `warn`, fail-count streaks, the recovery of a
    module by its parts, simulated results, `only_device` runs and progress
    callbacks change which result is an alert, not when state and alert part;
  - processing and saving a result happen under one lock (`Land`); cutting the
    buffer and putting it into the outbox is one step (a listed hazard);
  - the deadline cancels, marks and flushes history in one step: a run that
    lands between is one that lands just before or just after;
  - an on-demand run of some modules is one whose others are cancelled;
  - a channel that fails drops its alert without a retry: `Send` is the attempt;
  - a process that dies between a save and a send loses alerts
    (`manager.py:243-245` says so): `Monitoring` does not crash.

### EventWorker

`rows` is the watched table: a row is `open` between its INSERT, which hands out
its id, and its COMMIT, and `gone` once deleted. `cursor` and `stamp` are its row
of `event_cursor` and that of one rule in `event_cooldowns`. `working` is
`_work_allowed()` of each replica, moved by the actions of `Leadership`.
`leading[r]`, `seen[r]`, `cooled[r]` are the process's `_event_leading`,
`_event_seen` and `_event_last`; `tick[r]` is the tick in progress, from
`StartTick` over `ReadCursor` (cursor, tail, reseeding, late window), `Scan` (a
`query_since`), `Evaluate` (one row) to `Advance` (`set_cursor`); its `batch` is
the set of rows of the batch that remain. The lease is
asked when a tick begins; with `"lease"` in `Faults` it may be lost inside one.
`Judge` is `_eval_event`: the first evaluation of a process loads the rules
(`ruled[r]`), and where that statement fails the row, already in `_Seen`, is passed
and counts as `waived`. The reload that follows a change of the rules by the panel
is not modelled: it raises in the request. `run_now` and the loop share `_event_tick_lock`, so a process has one tick.

Two rules watch every row: one with no cooldown, so that an evaluation is a
notification (`evals`), and one whose cooldown outlasts the behaviour. Left out:
which rows match, several sources (they share nothing but the loop), a source
whose tail is unknown (the tick skips it), a cooldown that elapses, the dispatch
itself.

`_Seen` forgets its oldest when it is full, and it may have forgotten a row that
is read again. The code gives it 4 times the window. `2 * Window - 1` is enough
(section 5) and `2 * Window - 2` is not (TLC finds it on this instance), as long as
no lease is lost inside a tick and no statement fails. A replica that lost the lease
inside a tick, or a failing `set_cursor`, leaves the stored cursor behind what a
process has evaluated: `OutOfReach` are the processes for which that is farther than
the room left in `_Seen` (`SeenSize` less `2 * Window - 1`). Such a process has
`strayed`: what it evaluates is not counted until it reads its window anew, for the
code does evaluate rows twice there.

History variables say what the properties are relative to: `done[r]`, the rows
evaluated and behind the cursor when r read its late window; `waived`, rows taken
as done unevaluated, as the docstring of `_event_late_window` accepts, left behind
by a cursor put at the tail, or passed without rules; `late`, rows committed only
when neither the stored cursor nor a tick in progress would come back to them
(`Overtaken`); `stood[r]`, that r has worked no tick since it was last without the
lease, or started; `aware[r]`, that it began to work, or started, after the last fire
was stored, with every statement through. `aware` says what the code owes the
replica, `cooled` what it knows: only `RefreshCooldowns` makes the second follow
from the first. A row evaluated after all needs no excuse: `Judge` takes it out of
`waived` and `late`.

### Retention and Backup

A copy is `[n, task, ok, size, at, locked]`: `n` orders copies by time, `at` is
the time its periods are computed from. `Survivors`, `ApplyFloors`, `OverBudget`
are the functions of those names in `schedule.py`; they walk lists that are newest
first, the operators say which members of a set they keep. The three periods of
the code are `Bucket`, each with a `Span`.

`job[w]` is what a thread of a web process is at: `Tick` (what is due and what is
over its rules, from one listing and one reading of the rules), `Claim`, then per
task `Create`, `Finish`, `List` (a new listing, the set of deletions decided) and for
each deletion `Examine` and `Remove`. `Create` may write a copy with parts missing
(`ok` false) or fail; it ends when the archive is moved into place, where every listing
sees it, and `Finish` writes the digest beside it, or takes the archive away again if
that fails. `delete_backup` looks for the lock (`Examine`) and then removes the archive
(`Remove`), unless the file system refuses. `RunNow` goes the way of a round without
the lease. The lease only ever runs out (`Expire`): nobody renews or releases it, and
it may be gone under its holder. Copies and deletions by hand are work of the same two
steps each, on a thread that is idle; a lock and a change of rules may come between
any two steps. `raced` are the workers whose copy was locked after they had asked, or
while they were finishing it: what `LockHolds` cannot promise.
Left out: calendar schedules, two copies of one task in the same second (they would
share a name), what a copy contains, restore, the progress of jobs
shown in the panel.

### Jail

`ban` and `counter` are the rows of one address in `ip_bans` and
`ip_offense_counters`; `cache[p]` is what the process has of that row in
`_ban_cache`, `cacheAt[p]` is `_ban_cache_at`, `lock[p]` is `_lock`. `op[t]` is the
operation of a thread and its place in it, one step per statement. A request and an
offence take their time before the lock (`at`), and the question whether the address
is jailed is asked at a time of its own in an offence (`asked`). `bump_offense` is
`Count`, a SELECT, and `Bump`, an UPDATE of what was read (`op[t].read`), as on a
READ COMMITTED engine; the second writes the window's start only when it opens a
window. SQLite, where the two are one transaction, has fewer behaviours. `mixed`
says whose count takes in offences of another window, or from before the last ban or
lifting: a row written so (`None`) and the threads that read it. A ban goes through
`Prior` (`get_ban`), `Store` (`upsert`), `Reset`; `unban` through `Delete`, `Clear`,
`Forget` and `set_block_action` through `Peek`, `Poke`, `Forget`, all without the
lock. A failing statement has the effect its handler gives it: a failed read leaves
the cache marked as new, a failed `upsert` goes on to forget the offences. `Evict`
is the ban of another address when the table is full. Left out: the second track
(same code, other numbers), weights (no caller passes one), `configure` and the
whitelist (both end before any state is touched), the attempt log and the ban
history, the memory mode for tests.

## 3. Runs

| Run | Expect | Checks | States |
|---|---|---|---|
| `lease_sqlite` | pass | `TypeOK`, `WorkerIsCurrentLeader`, `LeadershipSpec`, `Failover` | 66 778 |
| `lease_server` | pass | `OneLeader` | 215 031 |
| `lease_steal` | violation | `OneLeader` | |
| `lease_exit` | violation | `CleanExitFreesLease` | |
| `commands` | pass | `TypeOK`, `AtMostOnce`, `ExpiredNeverRuns`, `OutcomeStable`, `MailboxSpec`, `EventuallyClosed` | 121 692 |
| `monitoring` | pass | `TypeOK`, `StateIsTold`, `AlertsAreNews`, `HistoryOnce`, `DownIsHeard` | 670 427 |
| `monitoring_late` | violation | `StateIsTold` | |
| `monitoring_purge` | violation | `StateIsTold` | |
| `events` | pass | `TypeOK`, `OnceEach`, `NoReplay`, `CooldownHeld`, `NoneLost`, `EveryRowJudged` | 510 502 |
| `events_regain` | violation | `NoDoubleFire` | |
| `backup` | pass | `TypeOK`, `GoodCopyStays`, `NewestKept`, `PruneSettles`, `LockHolds`, `DueIsTaken` | 444 888 |
| `jail` | pass | `TypeOK`, `LiftedEverywhere`, `EnforcedEverywhere`, `JailedIsNotRecounted`, `BanIsEarned` | 1 623 032 |

**What the properties say.** `MailboxSpec`: the queue implements `Mailbox`, so beside
what the three properties before it say, commands are taken in the order they were
sent, and what is shown of one is what became of it. `StateIsTold`: also of what is
saved and alerted while a clear is under way, up to its write; where the baseline was
dropped nothing is promised until the next alert. `OnceEach`: a process
evaluates no row twice, however often it re-reads the rows behind the cursor and
however many `_Seen` has forgotten, also where a failed `set_cursor` or a replica that
lost the lease has left the cursor back within the reach of `_Seen`; unless it loses
its window and cannot read it anew. `NoReplay`: nor one that had
been evaluated and passed when it read its window, unless a replica that lost the
lease in the middle of a tick has put the cursor back. `CooldownHeld`: a stored
fire holds across restarts and leaders: a replica that takes the lease over, or starts,
after it was stored does not fire the rule, whatever it remembered before. `NoneLost`:
when the cursor leaves a visible row more than the window behind, that row has been
evaluated, taken as done, or passed by a process that could not load its rules, unless
it was committed when nobody would come back to it: no other failing
statement, crash or second leader in a tick makes the cursor skip a row. `EveryRowJudged`:
a committed row is evaluated in the end, or is one of those. `GoodCopyStays`: through
all rounds a task that was given a whole copy has one, with two races excluded. `NewestKept`, `PruneSettles`: pruning spares
the newest copy and has nothing left to do after it, except when locked copies
share a size budget (`Squeezed`, where both are false); the second also where the
budget leaves no good copy and the floor puts one back (`Rescued`). There it is
false too: with three daily copies kept, a budget of 3 and, newest first, a bad copy
of size 1 and a good one of size 2 from today, a bad one of size 1 and a good one
of size 2 from the days before, the first pruning deletes the oldest and the second
the one before it. `LockHolds`: nothing removes a
locked copy, also for a lock put after the deletions were decided, up to the
moment `delete_backup` asks for it; one put between that and the removal answers ok
and is lost (a listed hazard). `DueIsTaken`: no task is left due once nothing
else happens. `LiftedEverywhere`, `EnforcedEverywhere`: what every process answers
agrees with the table as of at most the age of its cache. `JailedIsNotRecounted`:
an offence never replaces a ban in force, which may turn a permanent one into a
term, but for a ban another process stored within that age. `BanIsEarned`: the
offences a ban rests on fall in one window and after the last ban or lifting, unless
its count is `mixed`: in the gap between storing a ban and forgetting what led to it,
and where a process has written an increment of an elapsed window over the fresh count
of another. Counts lost between two processes only delay a ban.

**Bounds.** Two replicas give every pairwise race of the lease; `lease_server`
has three, since two contenders and a holder are three parties there, and uses
symmetry (safety only). TTL 3, stall 2, skew 1 put the assumption at its limit
(2 + 1 = 3), so that `ExpiredEarly`, one unit off, is caught. Three faults allow
a failed renewal, a crash and a shutdown in one behaviour. Two commands show
order, a full batch (`DrainMax` = 2) and a drain that goes on after a failure;
limits of one and two ticks keep abandoned before expired. One module and two
monitors show every race of a module with itself across monitors, which is all
that shares an item; two changes allow a failure and its recovery, or a clear and a
failure, two faults a failed save followed by a failed read. Where two monitors are
never at work at once, which slot a new one takes makes no difference and the constraint
`Roles` fixes it; `monitoring_purge` leaves clears out (`NoClears`), which its
counterexample does not need. Both threads of an instance are covered
by the proof only: with liveness that instance is beyond TLC.

`events`: five rows, one of them there before the service first ran, with a window of
two and room for four in `_Seen`, so that it does forget, and a cursor put back by one
is within its reach and by two beyond it; a batch of two gives full and partial
batches; one row open at a time is enough for any two ids to be committed in the
opposite order. One thing comes from outside, a lease withdrawn, a pause or a deletion
(`MaxChanges`), beside one fault, a crash or a failing statement (`MaxFaults`); a lease
withdrawn inside a tick is one of each. While the two replicas are in the same state
the lease goes to the first (`FirstToR1`): renaming the replicas maps any behaviour to
one of these, and each of the properties, also the liveness one, speaks of all
replicas alike. `backup`: three copies of sizes 1 and 2 under a counter of two, or
periods with a budget of 3, so that every rule deletes and some copies fit in some
orders only. One tick of the clock, one change and one fault per behaviour: each kind
of work by hand, each lock, each failure is met beside two rounds; what two of them
do together is left to the theorems, which have no bounds. `jail`: a threshold of
four, the least at which an old count written over a fresh one makes the next offence
a ban too early (the case `mixed` is for), a window of two ticks, a first term of one
and no end to the second, a cache of one tick, two ticks in all: a ban expires, a window elapses and a cache
ages within a behaviour. The counter may begin anywhere below the threshold. Three operations and faults in all suffice for a ban in
one process, a count in the other and a lifting in between; the two threads of
the web process are symmetric (safety only).

**Excluded races.** `Monitoring` has a constant `Excluded`. The passing run shows
what holds when six things stay away, each of which the code does not prevent:
a monitor used while another still has modules out or something unsaved
(`"monitors"`), the scheduler ending inside a `run_now` cycle (`"run_now"`), the
purge of a cycle meeting a straggler (`"purge"`), a failed read after another
monitor wrote (`"reads"`), an item landing after a clear has built a row of it and before it
writes that row (`"clear"`), an item entering maintenance or an on-demand run
beginning where the next purge would save rows its monitor has not re-read
(`"stale"`). Each is a listed hazard. The theorems about alerts exclude the same
six; the history of samples needs none excluded. `Backup` excludes two prunings of
one task at the same time (`"prunes"`): each spares a good copy of its own listing,
and together they may delete the last one; and a pruning decided while another copy of
the task is unfinished (`"copies"`), which it may spare as the good one before its
writer takes it away again. Without either exclusion TLC finds the last good copy gone. Two of those of `Monitoring` contradict
the code's own comments and are shown by the violation runs, which leave them in.

**Fairness.** `Lease`: the heartbeat thread of a live process goes on (it guards
each step and loops until the stop event), time passes, a shutdown that began
ends. No start, stop or failure has to happen, and failures are finitely many.
`Commands`: time passes, a drain goes on, somebody prunes (every instance
does on each sixth beat, leader or not, `heartbeat.py:341`). `Monitoring`: the
scheduler keeps running cycles and a cycle ends at its deadline;
landed modules and clears go on; a module's probe is strongly fair: a module may miss a
cycle's workers, but not for ever; the sender sends. `EventWorker`: the loop ticks
every `poll_secs` and a tick goes on (`manager.py:339-355`), a free lease is taken
by some heartbeat (`Failover` of `Lease`), a stopped service is started again; the
subscripts name the variable each of the three moves, which asks for no more and is
cheaper to check.
`Backup`: the thread of each process ticks for ever, its failures caught
(`runner.py:109-116`), what it began goes on, an unrenewed lease runs out. `Jail`
has safety properties only: nothing in it is promised to happen.

## 4. What the runs found

1. `lease_steal`. On a server engine a claim whose WHERE is `holder = <old> OR
   expires_at < now` also matches a row its old holder has just renewed. That
   takes a holder that lost the leadership but not the row: one failed statement.
   `leader.py:17-20` says the second contender gets rowcount 0. Without a failed
   statement it takes a holder that crashed and came back under the same instance
   id (`Faults` with `"crash"` and `"reuse"`). Those two are what the theorems about
   server engines exclude.
2. `lease_exit`. `stop_heartbeat` releases the lease while a beat may be in
   flight, which takes it again. `heartbeat.py:370` promises instant failover.
3. `monitoring_late`. A module that lands after its monitor was disposed of saves
   the transition and loses the alert, for good (`executor.py:366-368` claims the
   opposite).
4. `monitoring_purge`. The maintenance purge (`manager.py:359`) comes before the
   cycle re-reads the table, and its save (`monitor.py:284`) puts the memory of the
   persistent monitor over the whole table. What an on-demand run has saved and
   alerted about another item since is undone: its DOWN is alerted twice or its UP
   never. No fault and no straggler is needed. `executor.py:120-123` names this
   danger and cures it for `run_checks` only.
5. `events_regain`. The set of rows a replica has evaluated lives as long as its
   process, through terms in which another leads; back in the lead it evaluates
   again the other's last rows behind the cursor. `manager.py:251-252` promises that
   notifications never double-fire. It is the only way as long as nothing fails or
   crashes and no lease is lost inside a tick (`NoneTwice`, section 5).

## 5. What is proved

TLAPS checks, for every value of the constants under the named assumptions:

*`LeaseProofs`*
  - `TypeCorrect`: `TypeOK`, on both kinds of engine.
  - `WorkerHoldsLease`: `WorkerIsCurrentLeader`, if `Serialised`.
  - `SingleLeader`: `OneLeader`, if `Serialised`, from the one before.
  - `ImplementsLeadership`: `LeadershipSpec`, if `Serialised`: each step maps to a
    step of `Leadership` or to a stutter.

`WorkerIsCurrentLeader` is not inductive: it does not say how long the lease of
a worker lasts, nor what an attempt that already has its answer knows. `Inv` adds
that a leader's lease runs for at least TTL from the sample its belief rests on
(`Leading`), that an attempt about to answer True holds such a lease too
(`Pending`), and that an attempt is never older than the belief it will replace
(`Younger`), so a renewal never shortens the lease. `StallAssumption` then gives
`NobodyExpires` and `OthersRefused`: no other clock finds that lease expired, so
no statement of another replica matches.

  - `ServerWorkerHoldsLease`, `ServerSingleLeader`, `ServerImplementsLeadership`:
    the same three without `Serialised`, if no statement fails and no instance id is
    used twice (`Reliable`). Without `Reliable` they are false (`lease_steal`).

On READ COMMITTED a claim planned on an expired lease also matches the row its old
holder has renewed. `ServerInv` therefore adds that a process that runs and is in
the row leads or is about to (`Owning`), so its lease never is found expired; that
a claim is planned on a free lease or on a process that has stopped working
(`Claiming`); and that nobody has seen an id before its process starts (`Unborn`),
so one that stopped does not come back. Crashes, shutdowns, beats in flight and
clocks within `StallAssumption` are all in.

*`CommandsProofs`*, without assumptions on leases, threads or faults:
  - `TypeCorrect`, `CommandsRunOnce` (`AtMostOnce`), `ExpiredStaysUnrun`
    (`ExpiredNeverRuns`), `OutcomesAreStable` (`OutcomeStable`).
  - `ImplementsMailbox`: `MailboxSpec`.

`Inv` says that a thread past its UPDATE is the only one with that command
(`OneClaimer`), finds it claimed, abandoned or deleted, and has it not run before
it does so itself (`DrainOK`); and relates a row's state and outcome to its run
count (`RowOK`). `OutcomeStable` is an action property and follows from `Inv`
before the step. `ImplementsMailbox` needs two more facts. `Line`, an invariant: ids
are handed out in order (`InLine`), and the command a drain has found and not yet
claimed is, while pending, still the oldest (`Oldest`): all that were older have been
claimed or closed, and no row becomes pending again (`StatusMoves`). And `LifeSteps`,
of each statement: it moves a row along its life and its outcome with it.

*`MonitoringProofs`*
  - `TypeCorrect`, `SamplesWrittenOnce` (`HistoryOnce`), whatever races and faults.
  - `StateAlwaysTold` (`StateIsTold`), `AlertsAlwaysNews` (`AlertsAreNews`), with
    the six races excluded (`Clear`).

`Inv` ties a run to its cycle (`Runs`): one that is not late belongs to the cycle
running, so a sample is in one place only. `ToldInv` needs the order of work
(`Order`: one monitor at a time, what is unsaved is the persistent one's, a monitor
with alerts buffered will flush them, a clear is of the persistent monitor), that a clear
under way finds the memory empty or in step with what is known, and no row of its own
older than that (`Cleared`), that memories agree with what is known where
they are about to be used (`Synced`) or saved (`Written`, `PurgeReady`), and then
what is wanted of the queue of alerts: its last word on an item is its state
(`Told`) and none repeats the one before (`Fresh`).

*`EventWorkerProofs`*
  - `TypeCorrect`, `CooldownsHold` (`CooldownHeld`), `NoRowLost` (`NoneLost`),
    whatever fails; the exceptions are those the properties state.
  - `SeenSuffices` (`OnceEach`), `NothingReplayed` (`NoReplay`), if no statement
    fails, no lease is lost inside a tick, and `2 * Window - 1 <= SeenSize`
    (`Orderly`). Crashes, pauses, deletions, handovers between ticks and late
    commits are all in.

`CooldownsHold` rests on `Informed`: a replica that is owed a stored fire and does
not stand before its first tick of a term has it in memory, which the refresh of a
takeover establishes and which fails for a replica not refreshed.
`NoRowLost` needs no hypothesis, because `Lossless` follows each tick by itself: the
rows in a process's late window have an answer, evaluated or waived
(`WindowAnswered`), and so have those that a tick has read past, up to `from` or
`top`, but for the ones still in its batch (`TickAnswers`). Whatever the other
replicas do to the cursor meanwhile, a tick stores one up to which its own rows are
answered, and a row that shows up below it later was `Overtaken`.

The bounded memory makes `OnceEach` hard: a row in `_Seen` is safe only while few
enough others were added after it. `Kept` says that what was dealt with is behind
the cursor or the rest of the batch (`Behind`), and that each such row which a later
tick may read again is held (`Remembered`, `Again`): present, with nothing added
after it but rows less than a window away from it. There are at most
`2 * (Window - 1)` of those, so a set with one place more never drops it first. The
hypotheses are needed for this argument: a failed `set_cursor`, or a replica that
lost the lease inside a tick, leaves the cursor where others have passed it.

  - `NoneTwice`: `NoDoubleFire`, if moreover nothing crashes and no replica leads a
    second time (`NewToLead`).

`NoDoubleFire` is what `events_regain` refutes; `NoneTwice` says that a leader coming
back is the only way to it in that setting. A replica that leads for the first
time takes what was evaluated and is still there as done, for its evaluators rest and
the cursor is past what they did (`Credited`, `Behind`); from then on what is evaluated
it evaluates itself (`Known`). So a window dropped with the lease would do.

*`RetentionProofs`*, for any finite set of copies told apart by number, any rules,
periods and locks:
  - `PruneSparesGood`: of copies with a good one among them a good one is left.
  - `PruneSparesNewest`: the newest is left, `PruningSettles`: a second pruning
    deletes nothing, both with no locked copy under a budget and the latter also
    outside `Rescued`.

*`BackupProofs`*
  - `TypeCorrect`, `LocksHold` (`LockHolds`), `NewestIsKept` (`NewestKept`),
    `RetentionSettles` (`PruneSettles`).
  - `GoodCopiesStay` (`GoodCopyStays`), if no two prunings of a task overlap and none is
    decided beside an unfinished copy of the task.

`LocksHold` rests on `Informed`: the copy a worker is about to remove was unlocked when
it asked and is so still, unless the worker is in `raced`.
`PruneSparesGood` is about one listing. `GoodInv` carries it through a deletion that
takes many steps, between which copies come, go, are locked and are taken back by who
could not finish them: the task has a good copy that is finished and not doomed
(`Sound`, `Finished`), what is doomed is of the task and nobody's unfinished copy
(`Sparing`, `OwnCopy`), and no other thread prunes that task or finishes that copy
(`Apart`).

*`JailProofs`*, without assumptions on processes, threads, ladder or limits:
  - `TypeCorrect`, `LiftedIsLifted` (`LiftedEverywhere`), `BansAreEnforced`
    (`EnforcedEverywhere`), `JailedAreNotRecounted` (`JailedIsNotRecounted`),
    `BansAreEarned` (`BanIsEarned`).

`Sound(p, row, time)` is what a copy of the row that process p took at that time
still says of the table, for all that was stored or lifted by others since:
`CacheSound` says it of the cache, `ThreadSound` of what a thread has read, answers
from or has been told; `Times` keeps both out of the future. `BanIsEarned` needs
`HonestInv`: of a count that is not mixed, in the row (`RowHonest`) or read by a
thread that has still to write (`ReadHonest`), as many offences were made since its
period began as it says. A write over a row read before keeps that only for the same
period, which is what `mixed` tells apart.

**Only model-checked:** the liveness properties `Failover`, `EventuallyClosed`,
`DownIsHeard`, `EveryRowJudged`, `DueIsTaken`, which are beyond the prover, and
`OnceEach` and `NoReplay` with failing statements or a lease lost inside a tick, within
and beyond the reach of `_Seen`, at the bounds of `events`. Every other property of a passing run is a theorem, under the
hypotheses above. Each property of a passing run has a mutant of the code, listed
in `PROJECT.json`, that TLC finds to violate it.

## 6. Plan

Done: leadership, queue, pipeline, event worker, backup, jail, and the proofs about
each. What remains open, in the order worth taking:

1. `NoReplay` and `OnceEach` with failing statements: the bound `OutOfReach` states on
   how far back the stored cursor may be left is checked, not proved.
2. The safety half of two liveness properties: a command that is not closed is one a
   drain or `prune` can still close (`EventuallyClosed`); a task stays due only while
   its lease is held (`DueIsTaken`). That of `EveryRowJudged` is `NoneLost`.
3. A lease that runs out inside a monitoring cycle: `Lease` and `Monitoring` composed,
   by way of `Leadership`.
4. The life of the scheduler thread (a start right after a stop, `manager.py:206`), the
   building of the monitor by two threads (`manager.py:310`), the cut and the put of the
   alert buffer as two steps, two copies of one name, and the byte budget of the syslog
   queue.

**Not modelled.** The syslog receiver is the one component left with concurrency of
its own: a queue with a byte budget, a writer and a stop; its budget is a pair of
counters under one lock and is a listed hazard. The job history and the instance
rows are written by their owner only and read by the panel. The database layer is
modelled where a component depends on it, as the constant `Serialised`, the split
claims and the one-statement steps. Everything else marked `not_modelled` in
`PROJECT.json`, most of the code by lines (translations, device catalogues,
pages, external clients, CRUD stores), is external I/O, data, or presentation
without behaviour over time.
