-------------------------------- MODULE Jail --------------------------------
(***************************************************************************)
(* The IP jail as one address meets it: every process counts the offences   *)
(* of the address in the shared database, bans it at a threshold for a term *)
(* that grows each time, and asks before each request whether it is jailed, *)
(* from a copy of the jail a few seconds old.                               *)
(*   src/src/lib/services/ipban/jail.py                     IpBanManager    *)
(*   src/src/lib/services/ipban/store/bans.py               the jail        *)
(*   src/src/lib/services/ipban/store/offense_counters.py   the counters    *)
(*                                                                         *)
(* Each statement on the database is a step: the manager's lock keeps the   *)
(* threads of one process apart in a request, an offence or a ban, and      *)
(* nothing keeps processes apart, nor lifting a ban or changing what a      *)
(* jailed address is shown.  One track of offences; the address is not      *)
(* whitelisted and the jail is enabled.                                     *)
(***************************************************************************)
EXTENDS Integers, Sequences, FiniteSets

CONSTANTS Process, Thread,
          ProcessOf,      \* the process of each thread
          None,           \* no row, no holder of a lock
          Threshold,      \* _auth_threshold
          Period,         \* _auth_window
          Durations,      \* _durations, in ticks
          PermanentAfter, \* _permanent_after
          HandTerms,      \* the terms asked for by hand: None follows the ladder, 0 never ends
          CacheTTL,       \* _BAN_CACHE_TTL
          Forever,        \* the end of a permanent ban
          MaxTime,        \* bound: ticks of the clock
          MaxEvents       \* bound: operations, failed statements, crashes, evictions

ASSUME ThreadAssumption ==
    ProcessOf \in [Thread -> Process] /\ None \notin Process \cup Thread
ASSUME SizeAssumption ==
    /\ {Threshold, Period, CacheTTL} \subseteq Nat \ {0}
    /\ {PermanentAfter, MaxTime, MaxEvents} \subseteq Nat
    /\ Durations \in Seq(Nat \ {0}) /\ Durations # << >>
    /\ Forever \notin Nat \cup {None} /\ HandTerms \subseteq Nat \cup {None}

VARIABLES
    now,      \* the clock
    ban,      \* the row of the address in ip_bans
    counter,  \* its row in ip_offense_counters
    cache,    \* _ban_cache: the row the process last read, if it was in force
    cacheAt,  \* _ban_cache_at
    lock,     \* the holder of _lock
    op,       \* the operation of each thread and how far it is
    stored,   \* history: when the row was written, and by an offence of whom
    lifted,   \* history: until when the row before this one was in force
    blind,    \* history: the process failed to read the jail the last time it tried
    hits,     \* history: when each offence counted since the last ban or lifting was
    mixed,    \* history: which counts, of threads and (as None) of the row, take in offences
              \* of another period, or from before the last ban or lifting
    events    \* operations begun and faults met

memory  == <<cache, cacheAt, lock>>
history == <<stored, lifted, blind, hits, mixed>>
vars == <<now, ban, counter, memory, op, history, events>>

Stale   == 0 - CacheTTL     \* -1e9: as long ago as makes the next reading due
Time    == 0 .. MaxTime
Kind    == {"gate", "offence", "ban", "unban", "forgive", "action"}
Ban     == [until : {Forever} \cup Nat, level : Nat \ {0}]
Counter == [count : Nat \ {0}, start : Time]
Idle    == [kind |-> "none", pc |-> "idle", at |-> 0, asked |-> 0, row |-> None, read |-> None]
Locked  == {"load", "keep", "judge", "bump", "prior", "store", "reset"}
Op      == [kind : Kind \cup {"none"},
            pc : Locked \cup {"idle", "wait", "delete", "clear", "peek", "poke", "forget"},
            at : Time, asked : Time, row : Ban \cup {None}, read : Counter \cup {None}]

\* Every variable has the values the code gives it, a process's lock is held by the one of
\* its threads that works under it, and no ban of the ladder beyond permanent_after ends.
TypeOK ==
    /\ now \in Time
    /\ ban # None =>
          /\ ban \in Ban
          /\ stored.by # None /\ PermanentAfter \in 1 .. ban.level - 1 => ban.until = Forever
    /\ counter # None => counter \in Counter
    /\ cache \in [Process -> Ban \cup {None}]
    /\ cacheAt \in [Process -> Time \cup {Stale}]
    /\ lock \in [Process -> Thread \cup {None}]
    /\ op \in [Thread -> Op]
    /\ \A t \in Thread : op[t].pc \in Locked <=> lock[ProcessOf[t]] = t
    /\ stored \in [at : Time, by : Process \cup {None}] /\ lifted \in Nat \cup {Stale}
    /\ blind \in [Process -> BOOLEAN]
    /\ hits \in Seq(Time) /\ mixed \subseteq Thread \cup {None}
    /\ events \in 0 .. MaxEvents

\* The address may have been jailed by hand, or may have offended, at time 0, fewer times than
\* a ban takes.
Init ==
    /\ now = 0
    /\ \/ /\ \E until \in {Durations[1], Forever} : ban = [until |-> until, level |-> 1]
          /\ counter = None /\ hits = << >>
       \/ /\ ban = None
          /\ \E n \in 0 .. Threshold - 1 :
                /\ counter = IF n = 0 THEN None ELSE [count |-> n, start |-> 0]
                /\ hits = [k \in 1 .. n |-> 0]
    /\ cache = [p \in Process |-> None]
    /\ cacheAt = [p \in Process |-> Stale]
    /\ lock = [p \in Process |-> None]
    /\ op = [t \in Thread |-> Idle]
    /\ stored = [at |-> 0, by |-> None] /\ lifted = Stale
    /\ blind = [p \in Process |-> FALSE]
    /\ mixed = {}
    /\ events = 0

Event == events < MaxEvents /\ events' = events + 1

InForce(row, time) == IF row = None THEN FALSE ELSE row.until \in Nat => time < row.until

Goto(t, pc)  == op' = [op EXCEPT ![t].pc = pc]
Leave(t)     == op' = [op EXCEPT ![t] = Idle]
Release(t)   == lock' = [lock EXCEPT ![ProcessOf[t]] = None]
At(t, pc)    == op[t].pc = pc
-----------------------------------------------------------------------------
\* A request to be let in, an offence, a ban by hand, its lifting, offences forgiven, another
\* block action.
\* The time of a request or an offence is taken before the lock is.
Begin(t, kind) ==
    /\ Event /\ op[t] = Idle
    /\ op' = [op EXCEPT ![t] = [Idle EXCEPT !.kind = kind,
                 !.at = IF kind \in {"gate", "offence"} THEN now ELSE 0,
                 !.pc = CASE kind = "unban"   -> "delete"
                          [] kind = "forgive" -> "clear"
                          [] kind = "action"  -> "peek"
                          [] OTHER            -> "wait"]]
    /\ UNCHANGED <<now, ban, counter, memory, history>>

MustReadLate(p, time) == time - cacheAt[p] > CacheTTL

\* The copy is too old to answer a question asked at that time.
MustRead(p, time) == time - cacheAt[p] >= CacheTTL

\* The lock is taken; an offence first asks, at that time, whether the address is jailed.
Enter(t) ==
    LET p == ProcessOf[t]
    IN  /\ At(t, "wait") /\ lock[p] = None
        /\ lock' = [lock EXCEPT ![p] = t]
        /\ LET asked == IF op[t].kind = "gate" THEN op[t].at ELSE now
           IN  op' = [op EXCEPT ![t].asked = IF op[t].kind = "ban" THEN 0 ELSE asked, ![t].pc =
                        IF op[t].kind = "ban" THEN "prior"
                        ELSE IF MustRead(p, asked) THEN "load" ELSE "judge"]
        /\ UNCHANGED <<now, ban, counter, cache, cacheAt, history, events>>

\* _active_jail: the rows still in force are read, and a reading that fails leaves the old
\* copy to be used as if it were new.
Load(t) ==
    LET p    == ProcessOf[t]
    IN  /\ At(t, "load")
        /\ \/ /\ op' = [op EXCEPT ![t].pc = "keep",
                                  ![t].row = IF InForce(ban, op[t].asked) THEN ban ELSE None]
              /\ UNCHANGED <<cacheAt, blind, events>>
           \/ /\ Event
              /\ cacheAt' = [cacheAt EXCEPT ![p] = op[t].asked]
              /\ blind' = [blind EXCEPT ![p] = TRUE]
              /\ Goto(t, "judge")
        /\ UNCHANGED <<now, ban, counter, cache, lock, stored, lifted, hits, mixed>>

Keep(t) ==
    LET p == ProcessOf[t]
    IN  /\ At(t, "keep")
        /\ cache' = [cache EXCEPT ![p] = op[t].row]
        /\ cacheAt' = [cacheAt EXCEPT ![p] = op[t].asked]
        /\ blind' = [blind EXCEPT ![p] = FALSE]
        /\ op' = [op EXCEPT ![t].pc = "judge", ![t].row = None]
        /\ UNCHANGED <<now, ban, counter, lock, stored, lifted, hits, mixed, events>>

JailedForATerm(t) ==
    LET row == cache[ProcessOf[t]]
    IN  IF row = None THEN FALSE ELSE row.until \in Nat /\ op[t].asked < row.until

\* is_banned: the copy answers.
Jailed(t) == InForce(cache[ProcessOf[t]], op[t].asked)

Answer(t) ==
    /\ At(t, "judge")
    /\ op[t].kind = "gate" \/ Jailed(t)
    /\ Leave(t) /\ Release(t)
    /\ UNCHANGED <<now, ban, counter, cache, cacheAt, history, events>>

\* An offence of an address not known to be jailed: its counter is read.
Count(t) ==
    /\ At(t, "judge") /\ op[t].kind = "offence" /\ ~Jailed(t)
    /\ \/ /\ op' = [op EXCEPT ![t].pc = "bump", ![t].read = counter]
          /\ mixed' = IF None \in mixed THEN mixed \cup {t} ELSE mixed
          /\ UNCHANGED <<lock, events>>
       \/ Event /\ Leave(t) /\ Release(t) /\ UNCHANGED mixed
    /\ UNCHANGED <<now, ban, counter, cache, cacheAt, stored, lifted, blind, hits>>

OpensOnce(row, time) == row = None

\* A period is fixed, and begun by the first offence after the last one was over.
Opens(row, time) == IF row = None THEN TRUE ELSE time - row.start >= Period

Counted(row, time) == IF Opens(row, time) THEN 1 ELSE row.count + 1

\* bump_offense: what the row that was read makes of the count is written to the row there is
\* now, if any, and judged.  A first row is refused where another process has put one.
Bump(t) ==
    LET row   == op[t].read
        fresh == Opens(row, op[t].at)
        count == Counted(row, op[t].at)
    IN  /\ At(t, "bump")
        /\ \/ /\ row = None => counter = None
              /\ counter' = IF row = None \/ (counter # None /\ fresh)
                               THEN [count |-> 1, start |-> op[t].at]
                            ELSE IF counter = None THEN None
                            ELSE [counter EXCEPT !.count = count]
              /\ mixed' = IF fresh \/ (counter # None /\ t \notin mixed /\ counter.start = row.start)
                             THEN mixed \ {t, None}
                          ELSE (mixed \ {t}) \cup {None}
              /\ hits' = Append(hits, now)
              /\ IF count >= Threshold
                    THEN /\ op' = [op EXCEPT ![t].pc = "prior", ![t].read = None]
                         /\ UNCHANGED lock
                 ELSE Leave(t) /\ Release(t)
              /\ UNCHANGED events
           \/ /\ Event \/ (row = None /\ counter # None /\ UNCHANGED events)
              /\ Leave(t) /\ Release(t)
              /\ mixed' = mixed \ {t}
              /\ UNCHANGED <<counter, hits>>
        /\ UNCHANGED <<now, ban, cache, cacheAt, stored, lifted, blind>>

\* _ban_locked: the ban before this one, if it can be read, tells the level.
Prior(t) ==
    /\ At(t, "prior")
    /\ \/ /\ op' = [op EXCEPT ![t].pc = "store", ![t].row = ban, ![t].at = now]
          /\ UNCHANGED <<lock, events>>
       \/ Event /\ Leave(t) /\ Release(t)
    /\ UNCHANGED <<now, ban, counter, cache, cacheAt, history>>

TermUncapped(level, time) ==
    time + Durations[IF level < Len(Durations) THEN level ELSE Len(Durations)]

\* The end of the next term of the ladder.
Term(level, time) ==
    IF PermanentAfter > 0 /\ level > PermanentAfter THEN Forever
    ELSE time + Durations[IF level < Len(Durations) THEN level ELSE Len(Durations)]

\* Another row of the address, or none, is in the table: what was there no longer vouches.
Replaced(row) ==
    /\ ban' = row
    /\ lifted' = IF ban = None THEN lifted
                 ELSE IF InForce(ban, now) THEN now
                 ELSE IF ban.until > lifted THEN ban.until ELSE lifted

\* What was counted so far no longer counts: not in the row, nor in what a thread has read of it.
Overtaken == {t \in Thread : At(t, "bump")}

\* The ban replaces the row, unless the statement fails, which nobody is told.
Store(t) ==
    LET level == IF op[t].row = None THEN 1 ELSE op[t].row.level + 1
        byHand == op[t].kind = "ban"
        Until(term) == CASE term = None -> Term(level, op[t].at)
                         [] term = 0    -> Forever
                         [] OTHER       -> op[t].at + term
    IN  /\ At(t, "store")
        /\ op' = [op EXCEPT ![t] = [Idle EXCEPT !.kind = op[t].kind, !.pc = "reset"]]
        /\ \/ /\ \E term \in IF byHand THEN HandTerms ELSE {None} :
                    Replaced([until |-> Until(term), level |-> level])
              /\ stored' = [at |-> now, by |-> IF byHand THEN None ELSE ProcessOf[t]]
              /\ hits' = << >> /\ mixed' = Overtaken \cup {None}
              /\ UNCHANGED events
           \/ Event /\ UNCHANGED <<ban, stored, lifted, hits, mixed>>
        /\ UNCHANGED <<now, counter, memory, blind>>

\* What was counted is forgotten, and the process must read the jail again.
Wipe ==
    \/ counter' = None /\ hits' = << >> /\ mixed' = Overtaken /\ UNCHANGED events
    \/ Event /\ UNCHANGED <<counter, hits, mixed>>

InvalidateNot(p) == UNCHANGED cacheAt

Invalidate(p) == cacheAt' = [cacheAt EXCEPT ![p] = Stale]

Reset(t) ==
    /\ At(t, "reset")
    /\ Wipe /\ Invalidate(ProcessOf[t])
    /\ Leave(t) /\ Release(t)
    /\ UNCHANGED <<now, ban, cache, stored, lifted, blind>>
-----------------------------------------------------------------------------
\* unban, without the lock: the row goes, then the offences.
Delete(t) ==
    /\ At(t, "delete")
    /\ Goto(t, "clear")
    /\ \/ Replaced(None) /\ hits' = << >> /\ mixed' = Overtaken \cup {None} /\ UNCHANGED events
       \/ Event /\ UNCHANGED <<ban, lifted, hits, mixed>>
    /\ UNCHANGED <<now, counter, memory, stored, blind>>

\* clear_offenses, of unban or by itself.
Clear(t) ==
    /\ At(t, "clear")
    /\ Wipe
    /\ IF op[t].kind = "unban" THEN Goto(t, "forget") ELSE Leave(t)
    /\ UNCHANGED <<now, ban, memory, stored, lifted, blind>>

\* set_block_action, without the lock: the row is read, and written back as it was.
Peek(t) ==
    /\ At(t, "peek")
    /\ IF ban = None THEN Leave(t)
       ELSE op' = [op EXCEPT ![t].pc = "poke", ![t].row = ban]
    /\ UNCHANGED <<now, ban, counter, memory, history, events>>

Poke(t) ==
    /\ At(t, "poke")
    /\ op' = [op EXCEPT ![t].pc = "forget", ![t].row = None]
    /\ \/ /\ Replaced(op[t].row)
          /\ stored' = IF op[t].row = ban THEN stored ELSE [at |-> now, by |-> None]
          /\ UNCHANGED events
       \/ Event /\ UNCHANGED <<ban, stored, lifted>>
    /\ UNCHANGED <<now, counter, memory, blind, hits, mixed>>

\* unban and set_block_action end by having their process read the jail again.
Forget(t) ==
    /\ At(t, "forget")
    /\ Invalidate(ProcessOf[t]) /\ Leave(t)
    /\ UNCHANGED <<now, ban, counter, cache, lock, history, events>>
-----------------------------------------------------------------------------
\* The jail is full and the row is the oldest: the ban of another address takes its place.
Evict ==
    /\ Event /\ ban # None
    /\ Replaced(None)
    /\ UNCHANGED <<now, counter, memory, op, stored, blind, hits, mixed>>

\* A process dies, its operations with it, and starts again knowing nothing.
Restart(p) ==
    /\ Event
    /\ \E t \in Thread : ProcessOf[t] = p /\ op[t] # Idle
    /\ op' = [t \in Thread |-> IF ProcessOf[t] = p THEN Idle ELSE op[t]]
    /\ cache' = [cache EXCEPT ![p] = None]
    /\ cacheAt' = [cacheAt EXCEPT ![p] = Stale]
    /\ lock' = [lock EXCEPT ![p] = None]
    /\ blind' = [blind EXCEPT ![p] = FALSE]
    /\ mixed' = {t \in mixed : t \in Thread => ProcessOf[t] # p}
    /\ UNCHANGED <<now, ban, counter, stored, lifted, hits>>

Tick ==
    /\ now < MaxTime /\ now' = now + 1
    /\ UNCHANGED <<ban, counter, memory, op, history, events>>

StepOf(t) ==
    \/ Enter(t) \/ Load(t) \/ Keep(t) \/ Answer(t) \/ Count(t) \/ Bump(t) \/ Prior(t) \/ Store(t) \/ Reset(t)
    \/ Delete(t) \/ Clear(t) \/ Peek(t) \/ Poke(t) \/ Forget(t)

Next ==
    \/ \E t \in Thread : StepOf(t) \/ \E kind \in Kind : Begin(t, kind)
    \/ \E p \in Process : Restart(p)
    \/ Evict \/ Tick

Spec == Init /\ [][Next]_vars
-----------------------------------------------------------------------------
\* Nobody is turned away for a ban the table has not held for as long as the copy may be
\* old, in any process, unless the process could not read the table: a ban lifted, evicted
\* or replaced anywhere is lifted everywhere (_active_jail).
LiftedEverywhere ==
    [][\A t \in Thread : Answer(t) /\ Jailed(t) /\ ~blind[ProcessOf[t]] =>
          \/ InForce(ban, op[t].asked)
          \/ op[t].asked < lifted + CacheTTL]_vars

\* An address whose ban has been in force for as long as the copy may be old is let in by no
\* process that can read the table: "a ban from any process is honoured within the TTL".
EnforcedEverywhere ==
    [][\A t \in Thread :
          /\ At(t, "judge") /\ (Answer(t) \/ Count(t)) /\ ~blind[ProcessOf[t]]
          /\ InForce(ban, now) /\ stored.at + CacheTTL <= op[t].asked
          => Jailed(t)]_vars

\* "already jailed - don't re-count / escalate": an offence replaces a ban in force, which
\* raises its level and may shorten it, only if another process or a hand stored that ban
\* less than the age of the copy before the offence asked, or later.
JailedIsNotRecounted ==
    [][\A t \in Thread :
          /\ Store(t) /\ ban' # ban /\ op[t].kind = "offence"
          /\ InForce(ban, now) /\ ~blind[ProcessOf[t]]
          => stored.by # ProcessOf[t] /\ op[t].asked < stored.at + CacheTTL]_vars

\* An address is banned for the offences of one period, as many as the threshold, none of
\* them from before its last ban or lifting, unless the count it is judged by is mixed: read
\* before a ban or a lifting has forgotten what led to it, or left in the row by a process
\* that read the row of the period before.
BanIsEarned ==
    [][\A t \in Thread : Bump(t) /\ op'[t].pc = "prior" /\ t \notin mixed =>
          Cardinality({k \in DOMAIN hits' : hits'[k] > op[t].at - Period}) >= Threshold]_vars
=============================================================================
