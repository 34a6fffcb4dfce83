----------------------------- MODULE Monitoring -----------------------------
(***************************************************************************)
(* The check pipeline of the monitoring service: the cycles that run the    *)
(* watchful modules on a Monitor, the live status they share through table  *)
(* check_state, the history rows and the alerts.                            *)
(*   src/src/lib/services/monitoring/executor.py    run_checks, stragglers  *)
(*   src/src/lib/services/monitoring/monitor.py     transitions, purge      *)
(*   src/src/lib/services/monitoring/manager.py     build, dispose, cycle   *)
(*   src/src/lib/core/notify/monitor_notifier.py    buffer, outbox, sender  *)
(*                                                                         *)
(* One item per module.  A Monitor is a slot: `cur` is the persistent one,  *)
(* the others are those of on-demand runs and those disposed of with        *)
(* modules still running.  What the module threads do under the save lock   *)
(* is one step; flush_later's cut of the buffer and its put are one step.   *)
(***************************************************************************)
EXTENDS Naturals, Sequences, FiniteSets

CONSTANTS Module,       \* the enabled watchful modules
          Monitor,      \* slots for Monitor objects
          None,         \* no monitor
          Maintainable, \* modules whose device may enter maintenance
          Excluded,     \* races the environment is assumed to stay clear of:
                        \* "monitors", one monitor is used while another is
                        \* not Quiet or is being cleared; "run_now", the monitor of a cycle of
                        \* run_now is disposed of; "purge", a purge finds a straggler;
                        \* "reads", a read fails after another monitor wrote;
                        \* "clear", an item lands between the building and the
                        \* writing of the row a clear has found of it;
                        \* "stale", an item enters maintenance, or an on-demand
                        \* run begins, where a purge would then save old rows
          MaxChanges,   \* bound: changes of the world, clears
          MaxFaults     \* bound: failing reads and writes of check_state

ASSUME MonitorAssumption == None \notin Monitor /\ Monitor # {}
ASSUME ModuleAssumption ==
    Maintainable \subseteq Module /\ IsFiniteSet(Module) /\ IsFiniteSet(Monitor)
ASSUME BoundAssumption ==
    /\ MaxChanges \in Nat /\ MaxFaults \in Nat
    /\ Excluded \subseteq {"monitors", "run_now", "purge", "reads", "clear", "stale"}

VARIABLES
    real,       \* each item as a probe would find it; "maint": not probed at all
    stored,     \* table check_state
    cur,        \* _monitoring_monitor
    mem,        \* status.data of each monitor
    unsaved,    \* _unsaved_modules of each monitor
    open,       \* its _notifier is not None
    run,        \* its module runs
    tail,       \* its runs that have landed late and not called _late yet
    buf,        \* the alerts its notifier has buffered
    cycle,      \* run_checks in progress, under _check_lock, and its monitor
    snap,       \* rows the save of purge_maintenance_states is about to write
    clearing,   \* the clear_status under way, its monitor and the rows it has built
    histbuf,    \* modules in _hist_records of that run_checks
    outbox,     \* _OUTBOX
    heard,      \* history: the last alert about each item that was sent
    forgot,     \* history: the baseline was dropped since the item's last alert
    owed,       \* history: samples taken and not in the history table yet
    changes, faults

status == <<stored, mem, unsaved>>
alerts == <<buf, outbox, heard, forgot>>
vars   == <<real, stored, cur, mem, unsaved, open, run, tail, buf, cycle, snap,
            clearing, histbuf, outbox, heard, forgot, owed, changes, faults>>

State == {"none", "up", "down"}
Alert == [mod : Module, st : {"up", "down"}, again : BOOLEAN]
Run   == [pc : {"idle", "waiting", "probed", "saved"},
          obs : State \cup {"maint"}, late : BOOLEAN]

TypeOK ==
    /\ real \in [Module -> {"up", "down", "maint"}]
    /\ stored \in [Module -> State]
    /\ cur \in Monitor \cup {None}
    /\ mem \in [Monitor -> [Module -> State]]
    /\ unsaved \in [Monitor -> SUBSET Module]
    /\ open \in [Monitor -> BOOLEAN]
    /\ run \in [Monitor -> [Module -> Run]]
    /\ tail \in [Monitor -> SUBSET Module]
    /\ buf \in [Monitor -> Seq(Alert)]
    /\ cycle \in [mon : Monitor \cup {None}, pc : {"idle", "purge", "write", "read", "run", "flush"}]
    /\ snap \in [Module -> State]
    /\ clearing \in [mon : Monitor \cup {None}, pc : {"idle", "build", "write"},
                     rows : [Module -> State]]
    /\ histbuf \subseteq Module
    /\ outbox \in Seq(Alert)
    /\ heard \in [Module -> State]
    /\ forgot \in [Module -> BOOLEAN]
    /\ owed \in [Module -> Nat]
    /\ changes \in 0 .. MaxChanges /\ faults \in 0 .. MaxFaults

Idle    == [pc |-> "idle", obs |-> "none", late |-> FALSE]
Nothing == [m \in Module |-> "none"]
NoCycle == [mon |-> None, pc |-> "idle"]
NoClear == [mon |-> None, pc |-> "idle", rows |-> Nothing]

Init ==
    /\ real \in [Module -> {"up", "down"}]
    /\ stored = Nothing
    /\ cur = None
    /\ mem = [g \in Monitor |-> Nothing]
    /\ unsaved = [g \in Monitor |-> {}]
    /\ open = [g \in Monitor |-> FALSE]
    /\ run = [g \in Monitor |-> [m \in Module |-> Idle]]
    /\ tail = [g \in Monitor |-> {}]
    /\ buf = [g \in Monitor |-> << >>]
    /\ cycle = NoCycle
    /\ snap = Nothing
    /\ clearing = NoClear
    /\ histbuf = {}
    /\ outbox = << >>
    /\ heard = Nothing
    /\ forgot = [m \in Module |-> FALSE]
    /\ owed = [m \in Module |-> 0]
    /\ changes = 0 /\ faults = 0

Fault  == faults < MaxFaults /\ faults' = faults + 1
Change == changes < MaxChanges /\ changes' = changes + 1

\* _inflight_modules: what g has in a thread or in its pool's queue.
Inflight(g) == {m \in Module : run[g][m].pc # "idle"}

\* Nothing of g is under way, unsaved or unsent.  The code uses another monitor without
\* waiting for this.
Quiet(g) == Inflight(g) = {} /\ tail[g] = {} /\ unsaved[g] = {} /\ buf[g] = << >>

Unused(g) == g \notin {cur, cycle.mon, clearing.mon} /\ Inflight(g) = {} /\ tail[g] = {}

Turn(g) == "monitors" \in Excluded => \A h \in Monitor \ {g} : Quiet(h) /\ h # clearing.mon

\* Mutant of Reread: the table always wins.
RereadAll(g) == stored

\* What the status.read() of run_checks leaves: the table, but for a module
\* whose last save failed.
Reread(g) ==
    [m \in Module |-> IF m \in unsaved[g] /\ mem[g][m] # "none" THEN mem[g][m] ELSE stored[m]]

\* What purge_maintenance_states would drop.
InMaintenance(g) == {m \in Module : real[m] = "maint" /\ mem[g][m] # "none"}

\* The persistent monitor has read whatever another one saved, and no other is at work.
UpToDate ==
    cur # None =>
        mem[cur] = Reread(cur) /\ cycle.mon \in {None, cur} /\ \A h \in Monitor \ {cur} : Quiet(h)
-----------------------------------------------------------------------------
\* The environment: a service fails, recovers, or its device enters maintenance.
World(m) ==
    /\ Change
    /\ \E v \in {"up", "down"} \cup (IF m \in Maintainable THEN {"maint"} ELSE {}) :
          /\ v # real[m] /\ real' = [real EXCEPT ![m] = v]
          /\ v = "maint" /\ "stale" \in Excluded => UpToDate
    /\ UNCHANGED <<status, cur, open, run, tail, alerts, cycle, snap, clearing, histbuf, owed, faults>>

\* Monitor.__init__ and _read_status: a table that cannot be read counts as empty.
Build(g) ==
    /\ Unused(g) /\ Turn(g)
    /\ \/ mem' = [mem EXCEPT ![g] = stored] /\ UNCHANGED faults
       \/ Fault /\ mem' = [mem EXCEPT ![g] = Nothing]
    /\ unsaved' = [unsaved EXCEPT ![g] = {}]
    /\ open' = [open EXCEPT ![g] = TRUE]
    /\ buf' = [buf EXCEPT ![g] = << >>]
    /\ UNCHANGED <<real, stored, run, tail, snap, clearing, histbuf, outbox, heard, forgot, owed, changes>>

\* A cycle of the scheduler or of run_now begins, on the persistent monitor.
StartCycle(g) ==
    /\ cycle = NoCycle
    /\ cycle' = [mon |-> g, pc |-> "purge"]
    /\ \/ /\ g = cur /\ Turn(g)
          /\ UNCHANGED <<real, status, cur, open, run, tail, alerts, snap, clearing, histbuf, owed, changes, faults>>
       \/ cur = None /\ Build(g) /\ cur' = g

\* An on-demand run: a monitor of its own, and no purge.
RunChecks(g) ==
    /\ cycle = NoCycle
    /\ "stale" \in Excluded /\ cur # None => InMaintenance(cur) = {}
    /\ Build(g)
    /\ cycle' = [mon |-> g, pc |-> "read"]
    /\ UNCHANGED cur

\* purge_maintenance_states, on the working state: no lock is taken.
Purge ==
    /\ cycle.pc = "purge"
    /\ InMaintenance(cycle.mon) # {} /\ "purge" \in Excluded => Inflight(cycle.mon) = {}
    /\ LET g   == cycle.mon
           new == [m \in Module |-> IF m \in InMaintenance(g) THEN "none" ELSE mem[g][m]]
       IN IF InMaintenance(g) = {}
          THEN /\ cycle' = [cycle EXCEPT !.pc = "read"]
               /\ UNCHANGED <<mem, snap, forgot>>
          ELSE /\ mem' = [mem EXCEPT ![g] = new]
               /\ snap' = new
               /\ forgot' = [m \in Module |-> forgot[m] \/ m \in InMaintenance(g)]
               /\ cycle' = [cycle EXCEPT !.pc = "write"]
    /\ UNCHANGED <<real, stored, cur, unsaved, open, run, tail, buf, clearing, histbuf, outbox, heard, owed, changes, faults>>

\* Its save(): persist_status replaces the whole table, with rows built from
\* what the working state was.
PurgeWrite ==
    /\ cycle.pc = "write"
    /\ \/ stored' = snap /\ UNCHANGED faults
       \/ Fault /\ UNCHANGED stored
    /\ snap' = Nothing
    /\ cycle' = [cycle EXCEPT !.pc = "read"]
    /\ UNCHANGED <<real, cur, mem, unsaved, open, run, tail, alerts, clearing, histbuf, owed, changes>>

\* run_checks begins: the read, and the pool gets every module not in flight.
Read ==
    /\ cycle.pc = "read"
    /\ LET g == cycle.mon IN
         /\ \/ mem' = [mem EXCEPT ![g] = Reread(g)] /\ UNCHANGED faults
            \/ Fault /\ ("reads" \in Excluded => mem[g] = Reread(g)) /\ UNCHANGED mem
         /\ run' = [run EXCEPT ![g] = [m \in Module |->
                      IF m \in Inflight(g) THEN run[g][m] ELSE [Idle EXCEPT !.pc = "waiting"]]]
    /\ cycle' = [cycle EXCEPT !.pc = "run"]
    /\ UNCHANGED <<real, stored, cur, unsaved, open, tail, alerts, snap, clearing, histbuf, owed, changes>>
-----------------------------------------------------------------------------
\* check_module: the module probes its item.
Probe(g, m) ==
    /\ run[g][m].pc = "waiting"
    /\ run' = [run EXCEPT ![g][m] = [@ EXCEPT !.pc = "probed", !.obs = real[m]]]
    /\ UNCHANGED <<real, status, cur, open, tail, alerts, cycle, snap, clearing, histbuf, owed, changes, faults>>

\* A run is over: it leaves the in-flight set, and a late one has _late to call.
Finish(g, m) ==
    /\ run' = [run EXCEPT ![g][m] = Idle]
    /\ tail' = [tail EXCEPT ![g] = IF run[g][m].late THEN @ \cup {m} ELSE @]

\* The module raises.
Fail(g, m) ==
    /\ run[g][m].pc = "waiting"
    /\ Finish(g, m)
    /\ UNCHANGED <<real, status, cur, open, alerts, cycle, snap, clearing, histbuf, owed, changes, faults>>

\* Mutants of Announces: a change is a difference from the table; no first
\* record is ever announced.
AnnouncesByTable(g, m, obs) ==
    /\ open[g]
    /\ obs # "maint" /\ obs # stored[m]
    /\ ~(obs = "up" /\ stored[m] = "none")
AnnouncesNoFirst(g, m, obs) ==
    open[g] /\ obs # "maint" /\ obs # mem[g][m] /\ mem[g][m] # "none"

\* _process_module_result alerts a change, except a first record that is OK.
Announces(g, m, obs) ==
    /\ open[g]
    /\ obs # "maint" /\ obs # mem[g][m]
    /\ ~(obs = "up" /\ mem[g][m] = "none")

\* What the item's record becomes: an item not reported is pruned.
Result(obs) == IF obs = "maint" THEN "none" ELSE obs

\* A result is processed and saved, under the monitor's save lock.  A save of
\* an on-demand monitor, which never becomes Quiet again,
\* fails only where that is not excluded.
Land(g, m) ==
    /\ run[g][m].pc = "probed"
    /\ "clear" \in Excluded /\ clearing.mon = g => clearing.rows[m] = "none"
    /\ LET obs == run[g][m].obs IN
         /\ mem' = [mem EXCEPT ![g][m] = Result(obs)]
         /\ IF Announces(g, m, obs)
            THEN /\ buf' = [buf EXCEPT ![g] = Append(@, [mod |-> m, st |-> obs, again |-> forgot[m]])]
                 /\ forgot' = [forgot EXCEPT ![m] = FALSE]
            ELSE /\ forgot' = [forgot EXCEPT ![m] = @ \/ obs = "maint"]
                 /\ UNCHANGED buf
         /\ \/ /\ stored' = [stored EXCEPT ![m] = Result(obs)]
               /\ unsaved' = [unsaved EXCEPT ![g] = @ \ {m}]
               /\ UNCHANGED faults
            \/ /\ Fault /\ ("monitors" \in Excluded => g = cur)
               /\ unsaved' = [unsaved EXCEPT ![g] = @ \cup {m}]
               /\ UNCHANGED stored
         /\ owed' = [owed EXCEPT ![m] = IF obs = "maint" THEN @ ELSE @ + 1]
    /\ run' = [run EXCEPT ![g][m].pc = "saved"]
    /\ UNCHANGED <<real, cur, open, tail, cycle, snap, clearing, histbuf, outbox, heard, changes>>

\* Mutants of Record: a straggler's samples go to the buffer nobody flushes any
\* more; or are written and buffered as well.
RecordBuffered(g, m) ==
    /\ run[g][m].pc = "saved"
    /\ histbuf' = IF run[g][m].obs = "maint" THEN histbuf ELSE histbuf \cup {m}
    /\ Finish(g, m)
    /\ UNCHANGED <<real, status, cur, open, alerts, cycle, snap, clearing, owed, changes, faults>>
RecordTwice(g, m) ==
    /\ run[g][m].pc = "saved"
    /\ run[g][m].obs # "maint"
    /\ owed' = [owed EXCEPT ![m] = @ - 1]
    /\ histbuf' = histbuf \cup {m}
    /\ Finish(g, m)
    /\ UNCHANGED <<real, status, cur, open, alerts, cycle, snap, clearing, changes, faults>>

\* Then its samples: buffered, or written by itself once the buffer was flushed.
Record(g, m) ==
    /\ run[g][m].pc = "saved"
    /\ IF run[g][m].obs = "maint" THEN UNCHANGED <<owed, histbuf>>
       ELSE IF run[g][m].late
       THEN owed' = [owed EXCEPT ![m] = @ - 1] /\ UNCHANGED histbuf
       ELSE histbuf' = histbuf \cup {m} /\ UNCHANGED owed
    /\ Finish(g, m)
    /\ UNCHANGED <<real, status, cur, open, alerts, cycle, snap, clearing, changes, faults>>

\* The pool is empty or the deadline has passed: some of the futures not started
\* are cancelled, the runs still out are late from now on, and the buffered
\* samples are written.
Deadline ==
    /\ cycle.pc = "run"
    /\ LET g == cycle.mon IN
         \E cancelled \in SUBSET {m \in Module : run[g][m].pc = "waiting" /\ ~run[g][m].late} :
            run' = [run EXCEPT ![g] = [m \in Module |->
                      IF m \in cancelled \/ m \notin Inflight(g) THEN Idle
                      ELSE [run[g][m] EXCEPT !.late = TRUE]]]
    /\ owed' = [m \in Module |-> IF m \in histbuf THEN owed[m] - 1 ELSE owed[m]]
    /\ histbuf' = {}
    /\ cycle' = [cycle EXCEPT !.pc = "flush"]
    /\ UNCHANGED <<real, status, cur, open, tail, alerts, snap, clearing, changes, faults>>

\* MonitorNotifier.flush_later, where there is a notifier.
FlushLater(g) ==
    IF open[g]
    THEN /\ outbox' = outbox \o buf[g]
         /\ buf' = [buf EXCEPT ![g] = << >>]
    ELSE UNCHANGED <<outbox, buf>>

\* run_checks ends, and _check_lock is released.
EndCycle ==
    /\ cycle.pc = "flush"
    /\ FlushLater(cycle.mon)
    /\ cycle' = NoCycle
    /\ UNCHANGED <<real, status, cur, open, run, tail, snap, clearing, histbuf, heard, forgot, owed, changes, faults>>

\* _late, on the thread of a straggler that has landed.
Late(g, m) ==
    /\ m \in tail[g]
    /\ FlushLater(g)
    /\ tail' = [tail EXCEPT ![g] = @ \ {m}]
    /\ UNCHANGED <<real, status, cur, open, run, cycle, snap, clearing, histbuf, heard, forgot, owed, changes, faults>>

\* _sender_loop: the channels get the next alert.
Send ==
    /\ outbox # << >>
    /\ heard' = [heard EXCEPT ![Head(outbox).mod] = Head(outbox).st]
    /\ outbox' = Tail(outbox)
    /\ UNCHANGED <<real, status, cur, open, run, tail, buf, cycle, snap, clearing, histbuf, forgot, owed, changes, faults>>
-----------------------------------------------------------------------------
\* _monitoring_dispose_monitor: the scheduler ends, starts again or has met an
\* error.  A cycle of run_now may be using the monitor.
Dispose ==
    /\ cur # None
    /\ "monitors" \in Excluded => Quiet(cur) /\ cur # clearing.mon
    /\ "run_now" \in Excluded => cycle.mon # cur
    /\ cur' = None
    /\ open' = [open EXCEPT ![cur] = FALSE]
    /\ UNCHANGED <<real, status, run, tail, alerts, cycle, snap, clearing, histbuf, owed, changes, faults>>

\* The clear_status command empties the status of the monitor, which it builds where there is
\* none, and saves it.  It takes no lock, and is carried out on the heartbeat's thread.
ClearStatus(g) ==
    /\ Change
    /\ clearing = NoClear
    /\ IF cur # None THEN g = cur /\ UNCHANGED <<unsaved, open, buf>>
       ELSE /\ Unused(g) /\ Turn(g)
            /\ unsaved' = [unsaved EXCEPT ![g] = {}]
            /\ open' = [open EXCEPT ![g] = TRUE]
            /\ buf' = [buf EXCEPT ![g] = << >>]
    /\ cur' = g
    /\ mem' = [mem EXCEPT ![g] = Nothing]
    /\ forgot' = [m \in Module |-> TRUE]
    /\ clearing' = [NoClear EXCEPT !.mon = g, !.pc = "build"]
    /\ UNCHANGED <<real, stored, run, tail, cycle, snap, histbuf, outbox, heard, owed, faults>>

\* persist_status: the rows are those the status holds by now.
ClearBuild ==
    /\ clearing.pc = "build"
    /\ clearing' = [clearing EXCEPT !.pc = "write", !.rows = mem[clearing.mon]]
    /\ UNCHANGED <<real, status, cur, open, run, tail, alerts, cycle, snap, histbuf, owed, changes, faults>>

\* And replace the whole table, whatever was saved since; or that fails.
ClearWrite ==
    /\ clearing.pc = "write"
    /\ \/ /\ stored' = clearing.rows
          /\ forgot' = [m \in Module |-> forgot[m] \/ clearing.rows[m] = "none"]
          /\ UNCHANGED faults
       \/ Fault /\ UNCHANGED <<stored, forgot>>
    /\ clearing' = NoClear
    /\ UNCHANGED <<real, cur, mem, unsaved, open, run, tail, buf, cycle, snap, histbuf, outbox, heard, owed, changes>>

\* The panel clears the table.
ClearTable ==
    /\ Change
    /\ stored' = Nothing
    /\ forgot' = [m \in Module |-> TRUE]
    /\ UNCHANGED <<real, cur, mem, unsaved, open, run, tail, buf, cycle, snap, clearing, histbuf, outbox, heard, owed, faults>>

ModuleStep(g, m) == Land(g, m) \/ Record(g, m) \/ Late(g, m)
CycleStep == Purge \/ PurgeWrite \/ Read \/ Deadline \/ EndCycle
ClearStep == ClearBuild \/ ClearWrite

Next ==
    \/ \E m \in Module : World(m)
    \/ \E g \in Monitor : StartCycle(g) \/ RunChecks(g)
    \/ \E g \in Monitor, m \in Module : Probe(g, m) \/ Fail(g, m) \/ ModuleStep(g, m)
    \/ CycleStep
    \/ Send
    \/ Dispose
    \/ (\E g \in Monitor : ClearStatus(g)) \/ ClearStep \/ ClearTable

\* The scheduler keeps running cycles; a cycle ends at its deadline, a module
\* run lands or fails, and one that never gets a worker in a cycle gets one in
\* some later cycle; a clear goes on; the sender sends.
Fairness ==
    /\ WF_vars(\E g \in Monitor : StartCycle(g))
    /\ WF_vars(CycleStep) /\ WF_vars(ClearStep) /\ WF_vars(Send)
    /\ \A g \in Monitor, m \in Module : SF_vars(Probe(g, m)) /\ WF_vars(ModuleStep(g, m))

Spec     == Init /\ [][Next]_vars
FairSpec == Spec /\ Fairness
-----------------------------------------------------------------------------
\* The state of an item the service goes by: the table, unless the last save of
\* the module failed.
Known(m) ==
    IF cur # None /\ m \in unsaved[cur] /\ mem[cur][m] # "none"
    THEN mem[cur][m] ELSE stored[m]

\* The alerts not sent yet, in the order they will be: those still in a buffer
\* are the latest.
Unsent(m) ==
    LET full == {g \in Monitor : open[g] /\ \E k \in DOMAIN buf[g] : buf[g][k].mod = m}
    IN IF full = {} THEN outbox ELSE outbox \o buf[CHOOSE g \in full : TRUE]

\* What a queue of alerts leaves said about an item, where `last` was said before.
WordAfter(q, m, last) ==
    LET about == {k \in DOMAIN q : q[k].mod = m}
    IN IF about = {} THEN last
       ELSE q[CHOOSE k \in about : \A j \in about : j <= k].st

\* What was last said about an item, counting what is still on its way.
LastWord(m) == WordAfter(Unsent(m), m, heard[m])

\* An item recorded as failing has been, or is about to be, reported DOWN, and one
\* recorded as OK is not left reported DOWN: no transition is saved and its alert
\* lost (executor.py, _late: "What it found is sent now").  Where the baseline was
\* dropped (maintenance, clear) nothing is promised until the next alert.
StateIsTold ==
    \A m \in Module : ~forgot[m] =>
        /\ Known(m) = "down" => LastWord(m) = "down"
        /\ Known(m) = "up" => LastWord(m) # "down"

\* No alert repeats what was last said of its item, except after the baseline
\* was dropped: "an unchanged service sends nothing" (checks_mixin.py).
AlertsAreNews ==
    outbox # << >> => LET a == Head(outbox) IN a.again \/ heard[a.mod] # a.st

\* The samples of a run are written once, "by the flush or by itself, never by
\* neither" (executor.py): those still owed are in the buffer of a run_checks
\* that will flush it, or with the thread that took them.
HistoryOnce ==
    \A m \in Module :
        /\ owed[m] = (IF m \in histbuf THEN 1 ELSE 0)
                     + Cardinality({g \in Monitor : run[g][m].pc = "saved" /\ run[g][m].obs # "maint"})
        /\ m \in histbuf => cycle.pc = "run"

\* A service that stays down is reported, however often reads, saves, modules
\* and deadlines fail before.
DownIsHeard == \A m \in Module : <>[](real[m] = "down") => <>[](heard[m] = "down")
=============================================================================
