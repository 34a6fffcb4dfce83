---------------------------- MODULE EventWorker ----------------------------
(***************************************************************************)
(* The event worker: it reads the new rows of one source table behind a     *)
(* stored cursor and evaluates the rules on them, in the one replica that   *)
(* holds the lease (module Leadership).                                     *)
(*   src/src/lib/services/events/manager.py       tick, window, evaluation  *)
(*   src/src/lib/services/events/store/           cursor, cooldowns         *)
(*                                                                         *)
(* Two rules watch the table: one without a cooldown, that notifies every   *)
(* row evaluated, and one whose cooldown outlasts the behaviour.  Reading   *)
(* the cursor, the tail and the late window is one step of a tick, a batch  *)
(* read is one, each row evaluated is one (with the loading of the rules,   *)
(* where the process has none yet) and moving the cursor is one.            *)
(***************************************************************************)
EXTENDS Integers, Sequences, FiniteSets, FiniteSetsExt, Functions

CONSTANTS Replica,
          None,         \* no cursor stored; no window in memory
          Old,          \* rows there before the service first ran
          MaxRow,       \* bound: rows ever inserted, the old ones included
          MaxOpen,      \* bound: inserted rows not committed at a time
          Window,       \* _LATE_WINDOW (200)
          Batch,        \* the limit of query_since (500)
          SeenSize,     \* the size of _Seen (4 * _LATE_WINDOW)
          MaxChanges,   \* bound: leases withdrawn, pauses, deletions
          MaxFaults,    \* bound: crashes, failing statements, leases lost in a tick
          Faults        \* what may happen: "crash", "statement", "lease" (it is
                        \* lost in the middle of a tick), "pause", "delete"

ASSUME ReplicaAssumption == IsFiniteSet(Replica) /\ None \notin Nat \cup Seq(Nat)
ASSUME SizeAssumption ==
    /\ {Old, MaxRow, MaxOpen, Window, MaxChanges, MaxFaults} \subseteq Nat
    /\ {Batch, SeenSize} \subseteq Nat \ {0} /\ Window <= SeenSize
    /\ Faults \subseteq {"crash", "statement", "lease", "pause", "delete"}

VARIABLES
    working,    \* the replicas whose _work_allowed() is True
    rows,       \* the source table
    cursor,     \* its row in event_cursor
    stamp,      \* the second rule has a row in event_cooldowns
    enabled,    \* events|enabled
    leading,    \* _event_leading
    seen,       \* _event_seen
    ruled,      \* _event_rules_cache is not None
    cooled,     \* the second rule is in _event_last
    tick,       \* the tick in progress, under _event_tick_lock
    evals,      \* history: evaluations of each row by the process, since its window was
                \* last taken unread; not counted while it is astray
    strayed,    \* history: the processes before whose evaluations the cursor has been left
                \* further back than _Seen reaches, since they read their window
    done,       \* history: rows evaluated and passed when it read its window
    judged,     \* history: rows evaluated by anybody
    waived,     \* history: rows taken as done, or passed when the rules could not be
                \* read, and not evaluated since
    late,       \* history: rows committed when reading had passed them by
    stood,      \* history: the process has begun no tick with the lease since it was
                \* last without one, or started
    aware,      \* history: it has taken the lease over, or started, since the last fire
                \* was stored, and every statement it needed for that went through
    changes, faults

table   == <<rows, cursor, stamp, enabled>>
memory  == <<leading, seen, ruled, cooled>>
history == <<evals, strayed, done, judged, waived, late, stood, aware>>
vars == <<working, table, memory, tick, history, changes, faults>>

Row  == 1 .. MaxRow
Lead == INSTANCE Leadership

Visible == {i \in Row : rows[i] = "visible"}
Tick == [pc : {"idle", "cursor", "scan", "eval"}, last : 0 .. MaxRow, from : 0 .. MaxRow,
         batch : SUBSET Row, top : 0 .. MaxRow, full : BOOLEAN]
Idle == [pc |-> "idle", last |-> 0, from |-> 0, batch |-> {}, top |-> 0, full |-> FALSE]
Never == [i \in Row |-> 0]

\* Every variable has the values the code gives it; the window never outgrows _Seen.
TypeOK ==
    /\ working \subseteq Replica
    /\ rows \in [Row -> {"free", "open", "visible", "gone"}]
    /\ cursor \in 0 .. MaxRow \cup {None}
    /\ stamp \in BOOLEAN /\ enabled \in BOOLEAN
    /\ leading \in [Replica -> BOOLEAN]
    /\ seen \in [Replica -> Seq(Row) \cup {None}]
    /\ \A r \in Replica : seen[r] # None => Len(seen[r]) <= SeenSize
    /\ ruled \in [Replica -> BOOLEAN] /\ cooled \in [Replica -> BOOLEAN]
    /\ tick \in [Replica -> Tick]
    /\ evals \in [Replica -> [Row -> Nat]] /\ strayed \subseteq Replica
    /\ done \in [Replica -> SUBSET Row]
    /\ judged \subseteq Row /\ waived \subseteq Row /\ late \subseteq Row
    /\ stood \in [Replica -> BOOLEAN] /\ aware \in [Replica -> BOOLEAN]
    /\ changes \in 0 .. MaxChanges /\ faults \in 0 .. MaxFaults

Init ==
    /\ working = {}
    /\ rows = [i \in Row |-> IF i <= Old THEN "visible" ELSE "free"]
    /\ cursor = None /\ stamp = FALSE /\ enabled = TRUE
    /\ leading = [r \in Replica |-> FALSE]
    /\ seen = [r \in Replica |-> None]
    /\ ruled = [r \in Replica |-> FALSE] /\ cooled = [r \in Replica |-> FALSE]
    /\ tick = [r \in Replica |-> Idle]
    /\ evals = [r \in Replica |-> Never] /\ strayed = {}
    /\ done = [r \in Replica |-> {}]
    /\ judged = {} /\ waived = {} /\ late = {}
    /\ stood = [r \in Replica |-> TRUE] /\ aware = [r \in Replica |-> FALSE]
    /\ changes = 0 /\ faults = 0

Fault(kind) == kind \in Faults /\ faults < MaxFaults /\ faults' = faults + 1

Change(kind) == kind \in Faults /\ changes < MaxChanges /\ changes' = changes + 1

BelowUnfloored(n, k) == n - k

Below(n, k) == IF n > k THEN n - k ELSE 0

\* The ids of a set of rows, in order.
Sorted(S) ==
    CHOOSE s \in [1 .. Cardinality(S) -> S] :
        \A j, k \in 1 .. Cardinality(S) : j < k => s[j] < s[k]

RememberLess(s, i) ==
    IF i \in Range(s) THEN s ELSE Append(IF Len(s) >= Window THEN Tail(s) ELSE s, i)

\* _Seen.add: the oldest is forgotten first.
Remember(s, i) ==
    IF i \in Range(s) THEN s ELSE Append(IF Len(s) = SeenSize THEN Tail(s) ELSE s, i)
-----------------------------------------------------------------------------
\* No tick will meet the row any more: the late window has left it behind, or the tick in
\* progress has.
Overtaken(i) ==
    \/ cursor # None /\ i <= Below(cursor, Window)
    \/ \E r \in Replica : \/ tick[r].pc = "scan" /\ i <= tick[r].from
                          \/ tick[r].pc = "eval" /\ i <= tick[r].top

Appear(i) ==
    /\ rows' = [rows EXCEPT ![i] = "visible"]
    /\ late' = IF Overtaken(i) THEN late \cup {i} ELSE late

\* The writers of the table.  An id is handed out when the row is inserted; the row is
\* seen when its transaction commits, at once or later.
Insert(i) ==
    /\ rows[i] = "free" /\ \A j \in 1 .. i - 1 : rows[j] # "free"
    /\ \/ Cardinality({j \in Row : rows[j] = "open"}) < MaxOpen
            /\ rows' = [rows EXCEPT ![i] = "open"] /\ UNCHANGED late
       \/ Appear(i)
    /\ UNCHANGED <<working, cursor, stamp, enabled, memory, tick, evals, strayed, done, judged,
                   waived, stood, aware, changes, faults>>

Commit(i) ==
    /\ rows[i] = "open"
    /\ Appear(i)
    /\ UNCHANGED <<working, cursor, stamp, enabled, memory, tick, evals, strayed, done, judged,
                   waived, stood, aware, changes, faults>>

\* The retention of the table, or its clearing, deletes the oldest rows.
Delete(i) ==
    /\ Change("delete") /\ i \in Visible
    /\ rows' = [j \in Row |-> IF j <= i /\ rows[j] = "visible" THEN "gone" ELSE rows[j]]
    /\ UNCHANGED <<working, cursor, stamp, enabled, memory, tick, history, faults>>

\* The operator stops and starts the service.
Pause ==
    /\ Change("pause") /\ enabled /\ enabled' = FALSE
    /\ UNCHANGED <<working, rows, cursor, stamp, memory, tick, history, faults>>

Resume ==
    /\ ~enabled /\ enabled' = TRUE
    /\ UNCHANGED <<working, rows, cursor, stamp, memory, tick, history, changes, faults>>

\* The lease.  It may be lost in the middle of a tick: it is asked only when one begins.
Grant(r) ==
    /\ Lead!Grant(r)
    /\ UNCHANGED <<table, memory, tick, history, changes, faults>>

Withdraw(r) ==
    /\ changes < MaxChanges /\ changes' = changes + 1
    /\ Lead!Withdraw(r)
    /\ \/ tick[r] = Idle /\ UNCHANGED faults
       \/ tick[r] # Idle /\ Fault("lease")
    /\ UNCHANGED <<table, memory, tick, history>>

\* The process dies and another takes its place (one that stays dead is one that is never
\* granted the lease): _init_events, and _attach_event_state reads the cooldowns if it can.
Restart(r) ==
    /\ Fault("crash")
    /\ leading[r] \/ seen[r] # None     \* it has something to forget
    /\ working' = working \ {r}
    /\ tick' = [tick EXCEPT ![r] = Idle]
    /\ leading' = [leading EXCEPT ![r] = FALSE]
    /\ seen' = [seen EXCEPT ![r] = None]
    /\ ruled' = [ruled EXCEPT ![r] = FALSE]
    /\ stood' = [stood EXCEPT ![r] = TRUE]
    /\ evals' = [evals EXCEPT ![r] = Never] /\ strayed' = strayed \ {r}
    /\ done' = [done EXCEPT ![r] = {}]
    /\ \E read \in BOOLEAN :
          /\ cooled' = [cooled EXCEPT ![r] = read /\ stamp]
          /\ aware' = [aware EXCEPT ![r] = read /\ stamp]
    /\ UNCHANGED <<table, judged, waived, late, changes>>
-----------------------------------------------------------------------------
\* A tick, of the loop or of run_now, in a replica that may not work.
StandBy(r) ==
    /\ tick[r] = Idle /\ r \notin working
    /\ leading' = [leading EXCEPT ![r] = FALSE]
    /\ stood' = [stood EXCEPT ![r] = TRUE]
    /\ UNCHANGED <<working, table, seen, ruled, cooled, tick, evals, strayed, done, judged,
                   waived, late, aware, changes, faults>>

RefreshNothing(r) == UNCHANGED <<cooled, faults>>

\* _event_refresh_cooldowns: what is stored is merged, a failed read changes nothing.
RefreshCooldowns(r) ==
    \/ cooled' = [cooled EXCEPT ![r] = @ \/ stamp] /\ UNCHANGED faults
    \/ Fault("statement") /\ UNCHANGED cooled

\* A tick in the replica that works; having just taken over it refreshes its cooldowns.
StartTick(r) ==
    /\ tick[r] = Idle /\ r \in working
    /\ leading' = [leading EXCEPT ![r] = TRUE]
    /\ IF leading[r] THEN UNCHANGED <<cooled, faults>> ELSE RefreshCooldowns(r)
    /\ stood' = [stood EXCEPT ![r] = FALSE]
    /\ aware' = [aware EXCEPT ![r] = @ \/ (stood[r] /\ stamp /\ faults' = faults)]
    /\ tick' = IF enabled THEN [tick EXCEPT ![r] = [Idle EXCEPT !.pc = "cursor"]] ELSE tick
    /\ UNCHANGED <<working, table, seen, ruled, evals, strayed, done, judged, waived, late,
                   changes>>

\* Where a tick begins to read again, behind its cursor.
LookForward(last) == last

LookBack(last) == Below(last, Window)

\* _event_late_window: the rows just behind the cursor.
LateWindowShort(last) == Sorted({i \in Visible : Below(last, Window) < i /\ i < last})

LateWindow(last) == Sorted({i \in Visible : Below(last, Window) < i /\ i <= last})

\* A cursor never stored, or past the tail, is put at the tail, and the window with it.
\* The first time, what is visible in the window is taken as done; unread, nothing is.  What
\* a new cursor leaves further behind nobody will evaluate.
ReadCursor(r) ==
    LET tail   == IF Visible = {} THEN 0 ELSE Max(Visible)
        reseed == cursor # None => cursor > tail
        last   == IF reseed THEN tail ELSE cursor
        behind == IF reseed THEN {i \in Visible : i <= LookBack(last)} ELSE {}
    IN  /\ tick[r].pc = "cursor"
        /\ cursor' = last
        /\ tick' = [tick EXCEPT ![r].pc = "scan", ![r].last = last,
                                ![r].from = LookBack(last)]
        /\ \/ ~reseed /\ seen[r] # None /\ UNCHANGED <<seen, evals, strayed, done, waived, faults>>
           \/ /\ reseed \/ seen[r] = None
              /\ seen' = [seen EXCEPT ![r] = LateWindow(last)]
              /\ done' = [done EXCEPT ![r] = {i \in judged : i <= last}]
              /\ waived' = waived \cup ((behind \cup Range(LateWindow(last))) \ judged)
              /\ strayed' = strayed \ {r}
              /\ UNCHANGED <<evals, faults>>
           \/ /\ reseed \/ seen[r] = None
              /\ Fault("statement")
              /\ seen' = [seen EXCEPT ![r] = << >>]
              /\ done' = [done EXCEPT ![r] = {}]
              /\ evals' = [evals EXCEPT ![r] = Never] /\ strayed' = strayed \ {r}
              /\ waived' = waived \cup (behind \ judged)
    /\ UNCHANGED <<working, rows, stamp, enabled, leading, ruled, cooled, judged, late, stood,
                   aware, changes>>

QueryNewest(from) ==
    LET beyond == {i \in Visible : i > from}
    IN  {i \in beyond : Cardinality({j \in beyond : j > i}) < Batch}

\* query_since: the oldest of the visible rows beyond an id.
QuerySince(from) ==
    LET beyond == {i \in Visible : i > from}
    IN  {i \in beyond : Cardinality({j \in beyond : j < i}) < Batch}

\* The next batch is read; none ends the tick.
Scan(r) ==
    LET found == QuerySince(tick[r].from)
    IN  /\ tick[r].pc = "scan"
        /\ tick' = [tick EXCEPT ![r] =
                      IF found = {} THEN Idle
                      ELSE [@ EXCEPT !.pc = "eval", !.from = 0, !.batch = found, !.top = Max(found),
                                     !.full = Cardinality(found) = Batch]]
        /\ UNCHANGED <<working, table, memory, history, changes, faults>>

\* The second rule notifies unless the process knows it has; the stamp may fail to be stored.
Fire(r) ==
    IF cooled[r] THEN UNCHANGED <<cooled, stamp, aware, faults>>
    ELSE /\ cooled' = [cooled EXCEPT ![r] = TRUE]
         /\ aware' = [q \in Replica |-> q = r]
         /\ \/ stamp' = TRUE /\ UNCHANGED faults
            \/ Fault("statement") /\ UNCHANGED stamp

\* _eval_event on a row: the rules are loaded once, and where they cannot be the row is passed
\* and nobody told.
Judge(r, i) ==
    \/ /\ ruled' = [ruled EXCEPT ![r] = TRUE]
       /\ evals' = IF r \in strayed THEN evals ELSE [evals EXCEPT ![r][i] = @ + 1]
       /\ judged' = judged \cup {i}
       /\ waived' = waived \ {i} /\ late' = late \ {i}
       /\ Fire(r)
    \/ /\ ~ruled[r] /\ Fault("statement")
       /\ waived' = waived \cup ({i} \ judged)
       /\ UNCHANGED <<ruled, evals, judged, late, cooled, stamp, aware>>

\* The next row of the batch that is not in the window.
Evaluate(r) ==
    /\ tick[r].pc = "eval"
    /\ \E i \in tick[r].batch \ Range(seen[r]) :
          /\ \A j \in tick[r].batch : j < i => j \in Range(seen[r])
          /\ seen' = [seen EXCEPT ![r] = Remember(@, i)]
          /\ tick' = [tick EXCEPT ![r].batch = {j \in @ : j > i}]
          /\ Judge(r, i)
    /\ UNCHANGED <<working, rows, cursor, enabled, leading, strayed, done, stood, changes>>

\* The processes that have evaluated further beyond a cursor than _Seen holds, beside the
\* two windows of a row met again and of one met late.
OutOfReach(at) ==
    {q \in Replica : seen[q] # None /\ \E i \in Range(seen[q]) : i - at + 2 * Window - 1 > SeenSize}

\* They recognise nothing for certain any more, the others what their window still holds.
Stray(S) ==
    /\ strayed' = strayed \cup S
    /\ evals' = [q \in Replica |-> IF q \in S THEN Never ELSE evals[q]]
    /\ done' = [q \in Replica |-> IF q \in S \/ seen[q] = None THEN {}
                                  ELSE done[q] \cap Range(seen[q])]

\* The rows of the batch have been seen to: the cursor moves, another batch follows a full one.
\* A cursor that another replica has moved further is put back.
Advance(r) ==
    LET t == tick[r]
        moved == IF t.top > t.last THEN t.top ELSE t.last
    IN  /\ t.pc = "eval" /\ t.batch \subseteq Range(seen[r])
        /\ cursor' = IF t.top > t.last THEN t.top ELSE cursor
        /\ IF cursor' < cursor THEN Stray(OutOfReach(cursor'))
           ELSE UNCHANGED <<strayed, evals, done>>
        /\ tick' = [tick EXCEPT ![r] =
                      IF t.full THEN [Idle EXCEPT !.pc = "scan", !.last = moved, !.from = t.top]
                      ELSE Idle]
        /\ UNCHANGED <<working, rows, stamp, enabled, memory, judged, waived, late, stood, aware,
                       changes, faults>>

\* A statement of the tick raises: the source is left for the next tick.
Fail(r) ==
    LET t == tick[r]
    IN  /\ \/ t.pc \in {"cursor", "scan"} /\ UNCHANGED <<strayed, evals, done>>
           \/ /\ t.pc = "eval" /\ t.batch \subseteq Range(seen[r]) /\ t.top > t.last
              /\ Stray(OutOfReach(cursor))
        /\ Fault("statement")
        /\ tick' = [tick EXCEPT ![r] = Idle]
        /\ UNCHANGED <<working, table, memory, judged, waived, late, stood, aware, changes>>
-----------------------------------------------------------------------------
StepOf(r) ==
    StandBy(r) \/ StartTick(r) \/ ReadCursor(r) \/ Scan(r) \/ Evaluate(r) \/ Advance(r)

Next ==
    \/ \E i \in Row : Insert(i) \/ Commit(i) \/ Delete(i)
    \/ Pause \/ Resume
    \/ \E r \in Replica :
          Grant(r) \/ Withdraw(r) \/ Restart(r) \/ StepOf(r) \/ Fail(r)

Spec == Init /\ [][Next]_vars

\* The loop ticks every poll_secs for ever and a tick ends, a free lease is taken by some
\* heartbeat, and the service is not left stopped: what is asked for is a step of the tick, a
\* holder of the lease, a service started.
FairSpec ==
    /\ Spec
    /\ \A r \in Replica : WF_tick(StepOf(r))
    /\ WF_working(\E r \in Replica : Grant(r))
    /\ WF_enabled(Resume)
-----------------------------------------------------------------------------
Evaluates(r, i) == evals'[r][i] > evals[r][i]

\* A process never evaluates a row twice, whatever it re-reads behind the cursor, unless it
\* loses its window and cannot read it anew, or the cursor is left behind what was evaluated,
\* by a failed statement or a replica that lost the lease, further than _Seen reaches: until
\* then _Seen holds every row it may meet again, however many it has had to forget.
OnceEach == \A r \in Replica, i \in Row : evals[r][i] <= 1

\* A process that could read its late window never evaluates a row that had been evaluated
\* and passed by the cursor before, unless a replica that lost the lease in the middle of a
\* tick has put the cursor back since: _event_late_window takes the window as done.
NoReplay == [][\A r \in Replica : \A i \in done[r] : ~Evaluates(r, i)]_vars

\* A cooldown survives restarts and changes of leader: a replica that began to work, or
\* started, after another had fired the rule and stored it does not fire it again, provided
\* the statement that tells it went through (manager.py:251-261).
CooldownHeld ==
    [][\A r \in Replica : Evaluate(r) /\ cooled'[r] # cooled[r] /\ stamp => ~aware[r]]_vars

\* However ticks fail, die, or are overtaken by another replica's, no row is lost that some
\* tick could still meet when it was committed: before the cursor leaves it more than the
\* window behind, it has been evaluated, taken as done, or passed by a process that could
\* not load its rules (manager.py:290, 307).
NoneLost ==
    \A i \in Visible \ late :
        cursor # None /\ i <= Below(cursor, Window) => i \in judged \cup waived

\* Every committed row is evaluated in the end, however late it was committed and whoever
\* leads, unless it was taken as done, passed by a process that could not load its rules,
\* deleted, or more than the window behind the cursor.
Settled(i) ==
    \/ i \in judged \cup waived
    \/ cursor # None /\ i <= Below(cursor, Window)

EveryRowJudged == <>[](Visible \subseteq {i \in Row : Settled(i)})

\* "only the lease holder advances the cursor and dispatches - other replicas idle, so
\* notifications never double-fire" (manager.py:251-252): no row is evaluated twice.
NoDoubleFire == [][\A r \in Replica, i \in Row : Evaluates(r, i) => i \notin judged]_vars
=============================================================================
