-------------------------- MODULE MonitoringProofs --------------------------
(***************************************************************************)
(* Proofs about Monitoring, for any modules, monitors and bounds: its type  *)
(* invariant, that samples are written once, and, clear of the races named  *)
(* in Excluded, that what is recorded is told and nothing is told twice.     *)
(***************************************************************************)
EXTENDS Monitoring, FiniteSetTheorems, SequenceTheorems, WellFoundedInduction, TLAPS

-----------------------------------------------------------------------------
(* Types.  A sample may only be taken off what is owed because HistoryOnce  *)
(* holds, so the two are proved together, with Runs.                        *)

\* A run that is not late is of the run_checks in progress, which has not
\* buffered a sample of that module yet; and one that has probed has a result.
RunOK(g, m) ==
    /\ run[g][m].pc # "idle" /\ ~run[g][m].late =>
           cycle.pc = "run" /\ cycle.mon = g /\ m \notin histbuf
    /\ run[g][m].pc \in {"probed", "saved"} => run[g][m].obs # "none"
Runs == \A g \in Monitor, m \in Module : RunOK(g, m)

CycleOK ==
    /\ cycle.mon = None <=> cycle.pc = "idle"
    /\ clearing.mon = None <=> clearing.pc = "idle"

Inv == TypeOK /\ CycleOK /\ Runs /\ HistoryOnce

\* The monitors that have taken a sample of m and not passed it on.
Holding(m) == {g \in Monitor : run[g][m].pc = "saved" /\ run[g][m].obs # "maint"}

LEMMA HoldingFinite ==
    ASSUME NEW m \in Module
    PROVE  /\ IsFiniteSet(Holding(m)) /\ Cardinality(Holding(m)) \in Nat
           /\ IsFiniteSet(Holding(m))' /\ (Cardinality(Holding(m)) \in Nat)'
<1>1. IsFiniteSet(Monitor)
  BY ModuleAssumption
<1>2. Holding(m) \subseteq Monitor /\ Holding(m)' \subseteq Monitor
  BY DEF Holding
<1>3. IsFiniteSet(Holding(m)) /\ IsFiniteSet(Holding(m)')
  BY <1>1, <1>2, FS_Subset
<1>4. Cardinality(Holding(m)) \in Nat /\ Cardinality(Holding(m)') \in Nat
  BY <1>3, FS_CardinalityType
<1>5. QED
  BY <1>3, <1>4

\* Where a sample is in hand, one is owed; and where one is buffered.
LEMMA SampleIsOwed ==
    ASSUME Inv, NEW m \in Module
    PROVE  /\ m \in histbuf => owed[m] > 0
           /\ \A g \in Holding(m) : owed[m] > 0
<1>1. owed[m] = (IF m \in histbuf THEN 1 ELSE 0) + Cardinality(Holding(m))
  BY DEF Inv, HistoryOnce, Holding
<1>2. Cardinality(Holding(m)) \in Nat
  BY HoldingFinite
<1>3. Holding(m) # {} => Cardinality(Holding(m)) # 0
  BY HoldingFinite, FS_EmptySet
<1>4. m \in histbuf => owed[m] > 0
  BY <1>1, <1>2
<1>5. Holding(m) # {} => owed[m] > 0
  BY <1>1, <1>2, <1>3
<1>6. QED
  BY <1>4, <1>5

\* Changing one run changes no other.
LEMMA RunUpdate ==
    ASSUME TypeOK, NEW g \in Monitor, NEW m \in Module, NEW r \in Run,
           run' = [run EXCEPT ![g][m] = r]
    PROVE  /\ run' \in [Monitor -> [Module -> Run]]
           /\ \A h \in Monitor, k \in Module :
                 run'[h][k] = IF h = g /\ k = m THEN r ELSE run[h][k]
BY DEF TypeOK

LEMMA IdleIsRun == Idle \in Run /\ Idle.pc = "idle" /\ Idle.late = FALSE
BY DEF Idle, Run, State

LEMMA ResultIsState ==
    ASSUME NEW o \in State \cup {"maint"}
    PROVE  Result(o) \in State
BY DEF Result, State

LEMMA RereadIsState ==
    ASSUME TypeOK, NEW g \in Monitor
    PROVE  Reread(g) \in [Module -> State]
BY DEF TypeOK, Reread, State

LEMMA BuildType ==
    ASSUME TypeOK, NEW g \in Monitor, Build(g)
    PROVE  /\ mem' \in [Monitor -> [Module -> State]]
           /\ unsaved' \in [Monitor -> SUBSET Module]
           /\ open' \in [Monitor -> BOOLEAN]
           /\ buf' \in [Monitor -> Seq(Alert)]
           /\ faults' \in 0 .. MaxFaults
           /\ UNCHANGED <<real, stored, run, tail, snap, clearing, histbuf, outbox, heard, forgot, owed, changes>>
<1>1. mem' \in [Monitor -> [Module -> State]]
  <2>1. Nothing \in [Module -> State]
    BY DEF Nothing, State
  <2>2. mem \in [Monitor -> [Module -> State]] /\ stored \in [Module -> State]
    BY DEF TypeOK
  <2>3. \E s \in [Module -> State] : mem' = [mem EXCEPT ![g] = s]
    BY <2>1, <2>2 DEF Build
  <2>4. QED
    BY <2>2, <2>3
<1>2. << >> \in Seq(Alert)
  OBVIOUS
<1>3. buf' \in [Monitor -> Seq(Alert)]
  BY <1>2 DEF TypeOK, Build
<1>4. faults' \in 0 .. MaxFaults
  BY BoundAssumption DEF TypeOK, Build, Fault
<1>5. QED
  BY <1>1, <1>3, <1>4 DEF TypeOK, Build

LEMMA FlushType ==
    ASSUME TypeOK, NEW g \in Monitor, FlushLater(g)
    PROVE  outbox' \in Seq(Alert) /\ buf' \in [Monitor -> Seq(Alert)]
<1>1. buf[g] \in Seq(Alert) /\ << >> \in Seq(Alert) /\ outbox \in Seq(Alert)
  BY DEF TypeOK
<1>2. outbox \o buf[g] \in Seq(Alert)
  BY <1>1, ConcatProperties
<1>3. CASE open[g]
  <2>1. outbox' = outbox \o buf[g] /\ buf' = [buf EXCEPT ![g] = << >>]
    BY <1>3 DEF FlushLater
  <2>2. outbox' \in Seq(Alert)
    BY <1>2, <2>1
  <2>3. buf' \in [Monitor -> Seq(Alert)]
    BY <1>1, <2>1 DEF TypeOK
  <2>4. QED
    BY <2>2, <2>3
<1>4. CASE ~open[g]
  BY <1>4 DEF TypeOK, FlushLater
<1>5. QED
  BY <1>3, <1>4

\* Each action keeps the types.
LEMMA WorldType ==
    ASSUME TypeOK, NEW m \in Module, World(m)
    PROVE  TypeOK'
<1>1. real' \in [Module -> {"up", "down", "maint"}]
  BY DEF TypeOK, World
<1>2. changes' \in 0 .. MaxChanges
  BY BoundAssumption DEF TypeOK, World, Change
<1>3. QED
  BY <1>1, <1>2 DEF TypeOK, World, status, alerts

LEMMA StartCycleType ==
    ASSUME TypeOK, NEW g \in Monitor, StartCycle(g)
    PROVE  TypeOK'
<1>1. cycle' \in [mon : Monitor \cup {None}, pc : {"idle", "purge", "write", "read", "run", "flush"}]
  BY DEF StartCycle
<1>2. CASE g = cur /\ UNCHANGED <<real, status, cur, open, run, tail, alerts, snap, clearing, histbuf, owed, changes, faults>>
  BY <1>1, <1>2 DEF TypeOK, status, alerts
<1>3. CASE Build(g) /\ cur' = g
  BY <1>1, <1>3, BuildType DEF TypeOK
<1>4. QED
  BY <1>2, <1>3 DEF StartCycle

LEMMA RunChecksType ==
    ASSUME TypeOK, NEW g \in Monitor, RunChecks(g)
    PROVE  TypeOK'
<1>1. cycle' \in [mon : Monitor \cup {None}, pc : {"idle", "purge", "write", "read", "run", "flush"}]
  BY DEF RunChecks
<1>2. Build(g) /\ cur' = cur
  BY DEF RunChecks
<1>3. QED
  BY <1>1, <1>2, BuildType DEF TypeOK

LEMMA ProbeType ==
    ASSUME TypeOK, NEW g \in Monitor, NEW m \in Module, Probe(g, m)
    PROVE  /\ TypeOK'
           /\ run'[g][m].pc = "probed" /\ run'[g][m].obs = real[m]
           /\ run'[g][m].late = run[g][m].late
           /\ \A h \in Monitor, k \in Module : h # g \/ k # m => run'[h][k] = run[h][k]
<1> DEFINE r == [run[g][m] EXCEPT !.pc = "probed", !.obs = real[m]]
<1>1. r \in Run
  <2>1. run[g][m] \in Run /\ real[m] \in State \cup {"maint"}
    BY DEF TypeOK, State
  <2>2. QED
    BY <2>1 DEF Run
<1>2. run' = [run EXCEPT ![g][m] = r]
  BY DEF Probe
<1> HIDE DEF r
<1>3. /\ run' \in [Monitor -> [Module -> Run]]
      /\ \A h \in Monitor, k \in Module : run'[h][k] = IF h = g /\ k = m THEN r ELSE run[h][k]
  BY <1>1, <1>2, RunUpdate
<1>4. TypeOK'
  BY <1>3 DEF TypeOK, Probe, status, alerts
<1>5. QED
  <2>1. run[g][m] \in Run
    BY DEF TypeOK
  <2>2. r.pc = "probed" /\ r.obs = real[m] /\ r.late = run[g][m].late
    BY <2>1 DEF r, Run
  <2>3. QED
    BY <1>3, <1>4, <2>2

LEMMA FinishType ==
    ASSUME TypeOK, NEW g \in Monitor, NEW m \in Module, Finish(g, m)
    PROVE  /\ run' \in [Monitor -> [Module -> Run]]
           /\ \A h \in Monitor, k \in Module :
                 run'[h][k] = IF h = g /\ k = m THEN Idle ELSE run[h][k]
           /\ tail' \in [Monitor -> SUBSET Module]
<1>1. /\ run' \in [Monitor -> [Module -> Run]]
      /\ \A h \in Monitor, k \in Module : run'[h][k] = IF h = g /\ k = m THEN Idle ELSE run[h][k]
  BY IdleIsRun, RunUpdate DEF Finish
<1>2. tail' \in [Monitor -> SUBSET Module]
  BY DEF TypeOK, Finish
<1>3. QED
  BY <1>1, <1>2

LEMMA FailType ==
    ASSUME TypeOK, NEW g \in Monitor, NEW m \in Module, Fail(g, m)
    PROVE  TypeOK'
<1>1. Finish(g, m)
  BY DEF Fail
<1>2. run' \in [Monitor -> [Module -> Run]] /\ tail' \in [Monitor -> SUBSET Module]
  BY <1>1, FinishType
<1>3. QED
  BY <1>2 DEF TypeOK, Fail, status, alerts

\* What landing does to a run, to the types and to what is owed.
LEMMA LandType ==
    ASSUME TypeOK, NEW g \in Monitor, NEW m \in Module, RunOK(g, m), Land(g, m)
    PROVE  /\ TypeOK'
           /\ \A h \in Monitor, k \in Module :
                 run'[h][k] = IF h = g /\ k = m THEN [run[g][m] EXCEPT !.pc = "saved"] ELSE run[h][k]
<1> DEFINE r == [run[g][m] EXCEPT !.pc = "saved"]
           obs == run[g][m].obs
<1>1. r \in Run /\ obs \in State \cup {"maint"}
  <2>1. run[g][m] \in Run
    BY DEF TypeOK
  <2>2. QED
    BY <2>1 DEF Run
<1>2. run' = [run EXCEPT ![g][m] = r]
  BY DEF Land
<1> HIDE DEF r
<1>3. /\ run' \in [Monitor -> [Module -> Run]]
      /\ \A h \in Monitor, k \in Module : run'[h][k] = IF h = g /\ k = m THEN r ELSE run[h][k]
  <2>1. r \in Run
    BY <1>1
  <2>2. QED
    BY <1>2, <2>1, RunUpdate
<1>4. Result(obs) \in State
  BY <1>1, ResultIsState
<1>5. mem' \in [Monitor -> [Module -> State]]
  BY <1>4 DEF TypeOK, Land
<1>6. buf' \in [Monitor -> Seq(Alert)] /\ forgot' \in [Module -> BOOLEAN]
  <2>1. CASE Announces(g, m, obs)
    <3>1. /\ buf' = [buf EXCEPT ![g] = Append(@, [mod |-> m, st |-> obs, again |-> forgot[m]])]
          /\ forgot' = [forgot EXCEPT ![m] = FALSE]
      BY <2>1 DEF Land
    <3>2. obs \in {"up", "down"}
      <4>1. obs # "maint"
        BY <2>1 DEF Announces
      <4>2. obs # "none"
        BY DEF RunOK, Land
      <4>3. QED
        BY <1>1, <4>1, <4>2 DEF State
    <3>3. [mod |-> m, st |-> obs, again |-> forgot[m]] \in Alert
      BY <3>2 DEF TypeOK, Alert
    <3>4. Append(buf[g], [mod |-> m, st |-> obs, again |-> forgot[m]]) \in Seq(Alert)
      BY <3>3 DEF TypeOK
    <3>5. QED
      BY <3>1, <3>4 DEF TypeOK
  <2>2. CASE ~Announces(g, m, obs)
    BY <2>2 DEF TypeOK, Land
  <2>3. QED
    BY <2>1, <2>2
<1>7. stored' \in [Module -> State] /\ unsaved' \in [Monitor -> SUBSET Module]
  <2>1. CASE /\ stored' = [stored EXCEPT ![m] = Result(obs)]
             /\ unsaved' = [unsaved EXCEPT ![g] = @ \ {m}]
    BY <1>4, <2>1 DEF TypeOK
  <2>2. CASE unsaved' = [unsaved EXCEPT ![g] = @ \cup {m}] /\ UNCHANGED stored
    BY <2>2 DEF TypeOK
  <2>3. QED
    BY <2>1, <2>2 DEF Land
<1>8. faults' \in 0 .. MaxFaults
  BY BoundAssumption DEF TypeOK, Land, Fault
<1>9. owed' \in [Module -> Nat]
  BY DEF TypeOK, Land
<1>10. TypeOK'
  BY <1>3, <1>5, <1>6, <1>7, <1>8, <1>9 DEF TypeOK, Land
<1>11. QED
  BY <1>3, <1>10 DEF r

LEMMA PurgeType ==
    ASSUME TypeOK, Purge, cycle.mon \in Monitor
    PROVE  TypeOK'
<1> DEFINE g == cycle.mon
           new == [m \in Module |-> IF m \in InMaintenance(g) THEN "none" ELSE mem[g][m]]
<1>1. cycle' \in [mon : Monitor \cup {None}, pc : {"idle", "purge", "write", "read", "run", "flush"}]
  <2>1. cycle' = [cycle EXCEPT !.pc = "read"] \/ cycle' = [cycle EXCEPT !.pc = "write"]
    BY DEF Purge
  <2>2. QED
    BY <2>1 DEF TypeOK
<1>2. CASE InMaintenance(g) = {}
  BY <1>1, <1>2 DEF TypeOK, Purge
<1>3. CASE InMaintenance(g) # {}
  <2>1. new \in [Module -> State]
    BY DEF TypeOK, State
  <2>2. /\ mem' = [mem EXCEPT ![g] = new] /\ snap' = new
        /\ forgot' = [m \in Module |-> forgot[m] \/ m \in InMaintenance(g)]
    BY <1>3 DEF Purge
  <2> HIDE DEF new
  <2>3. mem' \in [Monitor -> [Module -> State]] /\ snap' \in [Module -> State]
    BY <2>1, <2>2 DEF TypeOK
  <2>4. forgot' \in [Module -> BOOLEAN]
    BY <2>2 DEF TypeOK
  <2>5. QED
    BY <1>1, <2>3, <2>4 DEF TypeOK, Purge
<1>4. QED
  BY <1>2, <1>3

LEMMA PurgeWriteType ==
    ASSUME TypeOK, PurgeWrite
    PROVE  TypeOK'
<1>1. cycle' \in [mon : Monitor \cup {None}, pc : {"idle", "purge", "write", "read", "run", "flush"}]
  BY DEF TypeOK, PurgeWrite
<1>2. snap' \in [Module -> State] /\ stored' \in [Module -> State]
  BY DEF TypeOK, PurgeWrite, Nothing, State
<1>3. faults' \in 0 .. MaxFaults
  BY BoundAssumption DEF TypeOK, PurgeWrite, Fault
<1>4. QED
  BY <1>1, <1>2, <1>3 DEF TypeOK, PurgeWrite, alerts

\* The runs of a monitor when run_checks begins and when its deadline has passed.
LEMMA ReadType ==
    ASSUME TypeOK, Read, cycle.mon \in Monitor
    PROVE  /\ TypeOK'
           /\ \A h \in Monitor, k \in Module :
                 run'[h][k] = IF h = cycle.mon /\ run[h][k].pc = "idle" THEN [Idle EXCEPT !.pc = "waiting"]
                              ELSE run[h][k]
<1> DEFINE g == cycle.mon
           w == [Idle EXCEPT !.pc = "waiting"]
           new == [m \in Module |-> IF m \in Inflight(g) THEN run[g][m] ELSE w]
<1>1. cycle' \in [mon : Monitor \cup {None}, pc : {"idle", "purge", "write", "read", "run", "flush"}]
  BY DEF TypeOK, Read
<1>2. mem' \in [Monitor -> [Module -> State]]
  <2>1. Reread(g) \in [Module -> State]
    BY RereadIsState
  <2>2. mem' = [mem EXCEPT ![g] = Reread(g)] \/ mem' = mem
    BY DEF Read
  <2>3. QED
    BY <2>1, <2>2 DEF TypeOK
<1>3. w \in Run
  BY DEF Idle, Run, State
<1>4. run' = [run EXCEPT ![g] = new]
  BY DEF Read
<1> HIDE DEF w
<1>5. new \in [Module -> Run] /\ \A k \in Module : new[k] = IF run[g][k].pc = "idle" THEN w ELSE run[g][k]
  BY <1>3 DEF TypeOK, Inflight
<1> HIDE DEF new
<1>6. /\ run' \in [Monitor -> [Module -> Run]]
      /\ \A h \in Monitor, k \in Module : run'[h][k] = IF h = g THEN new[k] ELSE run[h][k]
  BY <1>4, <1>5 DEF TypeOK
<1>7. faults' \in 0 .. MaxFaults
  BY BoundAssumption DEF TypeOK, Read, Fault
<1>8. TypeOK'
  BY <1>1, <1>2, <1>6, <1>7 DEF TypeOK, Read, alerts
<1>9. QED
  BY <1>5, <1>6, <1>8 DEF w

LEMMA DeadlineRuns ==
    ASSUME TypeOK, Deadline, cycle.mon \in Monitor
    PROVE  /\ run' \in [Monitor -> [Module -> Run]]
           /\ \A h \in Monitor \ {cycle.mon}, k \in Module : run'[h][k] = run[h][k]
           /\ \A k \in Module :
                 \/ run'[cycle.mon][k] = Idle /\ run[cycle.mon][k].pc \in {"idle", "waiting"}
                 \/ run'[cycle.mon][k] = [run[cycle.mon][k] EXCEPT !.late = TRUE]
                    /\ run[cycle.mon][k].pc # "idle"
<1> DEFINE g == cycle.mon
<1>1. PICK cancelled \in SUBSET {m \in Module : run[g][m].pc = "waiting" /\ ~run[g][m].late} :
            run' = [run EXCEPT ![g] = [m \in Module |->
                      IF m \in cancelled \/ m \notin Inflight(g) THEN Idle
                      ELSE [run[g][m] EXCEPT !.late = TRUE]]]
  BY DEF Deadline
<1> DEFINE new == [m \in Module |-> IF m \in cancelled \/ m \notin Inflight(g) THEN Idle
                                    ELSE [run[g][m] EXCEPT !.late = TRUE]]
<1>2. ASSUME NEW k \in Module
      PROVE  /\ new[k] \in Run
             /\ \/ new[k] = Idle /\ run[g][k].pc \in {"idle", "waiting"}
                \/ new[k] = [run[g][k] EXCEPT !.late = TRUE] /\ run[g][k].pc # "idle"
  <2>1. run[g][k] \in Run
    BY DEF TypeOK
  <2>2. [run[g][k] EXCEPT !.late = TRUE] \in Run
    BY <2>1 DEF Run
  <2>3. CASE k \in cancelled \/ k \notin Inflight(g)
    <3>1. new[k] = Idle
      BY <2>3
    <3>2. run[g][k].pc \in {"idle", "waiting"}
      BY <1>1, <2>3 DEF Inflight
    <3>3. QED
      BY <3>1, <3>2, IdleIsRun
  <2>4. CASE ~ (k \in cancelled \/ k \notin Inflight(g))
    <3>1. new[k] = [run[g][k] EXCEPT !.late = TRUE]
      BY <2>4
    <3>2. run[g][k].pc # "idle"
      BY <2>4 DEF Inflight
    <3>3. QED
      BY <2>2, <3>1, <3>2
  <2>5. QED
    BY <2>3, <2>4
<1>3. run' = [run EXCEPT ![g] = new] /\ new = [k \in Module |-> new[k]]
  BY <1>1
<1> HIDE DEF new
<1>4. new \in [Module -> Run]
  BY <1>2, <1>3
<1>5. /\ run' \in [Monitor -> [Module -> Run]]
      /\ \A h \in Monitor, k \in Module : run'[h][k] = IF h = g THEN new[k] ELSE run[h][k]
  BY <1>3, <1>4 DEF TypeOK
<1>6. QED
  BY <1>2, <1>5

LEMMA DeadlineType ==
    ASSUME Inv, Deadline, cycle.mon \in Monitor
    PROVE  TypeOK'
<1>1. cycle' \in [mon : Monitor \cup {None}, pc : {"idle", "purge", "write", "read", "run", "flush"}]
  BY DEF Inv, TypeOK, Deadline
<1>2. owed' \in [Module -> Nat]
  <2>1. \A m \in Module : owed[m] \in Nat /\ (m \in histbuf => owed[m] - 1 \in Nat)
    BY SampleIsOwed DEF Inv, TypeOK
  <2>2. QED
    BY <2>1 DEF Deadline
<1>3. run' \in [Monitor -> [Module -> Run]]
  BY DeadlineRuns DEF Inv
<1>4. QED
  BY <1>1, <1>2, <1>3 DEF Inv, TypeOK, Deadline, status, alerts

LEMMA RecordType ==
    ASSUME Inv, NEW g \in Monitor, NEW m \in Module, Record(g, m)
    PROVE  TypeOK'
<1>1. run' \in [Monitor -> [Module -> Run]] /\ tail' \in [Monitor -> SUBSET Module]
  BY FinishType DEF Inv, Record
<1>2. owed' \in [Module -> Nat] /\ histbuf' \subseteq Module
  <2>1. CASE run[g][m].obs = "maint"
    BY <2>1 DEF Record, Inv, TypeOK
  <2>2. CASE run[g][m].obs # "maint" /\ run[g][m].late
    <3>1. owed[m] - 1 \in Nat
      BY <2>2, SampleIsOwed DEF Inv, TypeOK, Holding, Record
    <3>2. QED
      BY <2>2, <3>1 DEF Record, Inv, TypeOK
  <2>3. CASE run[g][m].obs # "maint" /\ ~run[g][m].late
    BY <2>3 DEF Record, Inv, TypeOK
  <2>4. QED
    BY <2>1, <2>2, <2>3
<1>3. QED
  BY <1>1, <1>2 DEF Inv, TypeOK, Record, status, alerts

LEMMA EndCycleType ==
    ASSUME TypeOK, EndCycle, cycle.mon \in Monitor
    PROVE  TypeOK'
<1>1. NoCycle \in [mon : Monitor \cup {None}, pc : {"idle", "purge", "write", "read", "run", "flush"}]
  BY DEF NoCycle
<1>2. FlushLater(cycle.mon)
  BY DEF EndCycle
<1>3. outbox' \in Seq(Alert) /\ buf' \in [Monitor -> Seq(Alert)]
  BY <1>2, FlushType
<1>4. QED
  BY <1>1, <1>3 DEF TypeOK, EndCycle, status

LEMMA LateType ==
    ASSUME TypeOK, NEW g \in Monitor, NEW m \in Module, Late(g, m)
    PROVE  TypeOK'
<1>1. FlushLater(g)
  BY DEF Late
<1>2. outbox' \in Seq(Alert) /\ buf' \in [Monitor -> Seq(Alert)]
  BY <1>1, FlushType
<1>3. tail' \in [Monitor -> SUBSET Module]
  BY DEF TypeOK, Late
<1>4. QED
  BY <1>2, <1>3 DEF TypeOK, Late, status

LEMMA SendType ==
    ASSUME TypeOK, Send
    PROVE  TypeOK'
<1>1. outbox \in Seq(Alert) /\ outbox # << >>
  BY DEF TypeOK, Send
<1>2. Head(outbox) \in Alert /\ Tail(outbox) \in Seq(Alert)
  BY <1>1, HeadTailProperties
<1>3. Head(outbox).mod \in Module /\ Head(outbox).st \in State
  BY <1>2 DEF Alert, State
<1>4. heard' \in [Module -> State] /\ outbox' \in Seq(Alert)
  BY <1>2, <1>3 DEF TypeOK, Send
<1>5. QED
  BY <1>4 DEF TypeOK, Send, status

LEMMA DisposeType ==
    ASSUME TypeOK, Dispose
    PROVE  TypeOK'
BY DEF TypeOK, Dispose, status, alerts

\* The steps of a clear.
Clears == (\E g \in Monitor : ClearStatus(g)) \/ ClearStep \/ ClearTable

LEMMA ClearFrame ==
    ASSUME Clears
    PROVE  UNCHANGED <<real, run, tail, cycle, snap, histbuf, outbox, heard, owed>>
BY DEF Clears, ClearStep, ClearStatus, ClearBuild, ClearWrite, ClearTable, status, alerts

\* Every other step leaves the clear under way alone, and the persistent monitor too, but
\* where run_checks begins or it is disposed of.
LEMMA PersistentKept ==
    ASSUME [Next]_vars, ~Clears
    PROVE  /\ clearing' = clearing
           /\ cur' = cur \/ Dispose \/ \E g \in Monitor : StartCycle(g) \/ RunChecks(g)
<1>1. CASE \E m \in Module : World(m)
  BY <1>1 DEF World
<1>2. CASE \E g \in Monitor : StartCycle(g) \/ RunChecks(g)
  BY <1>2 DEF StartCycle, RunChecks, Build
<1>3. ASSUME NEW g \in Monitor, NEW m \in Module, Probe(g, m) \/ Fail(g, m) \/ ModuleStep(g, m)
      PROVE  clearing' = clearing /\ cur' = cur
  BY <1>3 DEF Probe, Fail, ModuleStep, Land, Record, Late
<1>4. CASE CycleStep
  BY <1>4 DEF CycleStep, Purge, PurgeWrite, Read, Deadline, EndCycle
<1>5. CASE Send \/ UNCHANGED vars
  BY <1>5 DEF Send, vars
<1>6. CASE Dispose
  BY <1>6 DEF Dispose
<1>7. QED
  BY <1>1, <1>2, <1>3, <1>4, <1>5, <1>6 DEF Next, Clears

LEMMA NoClearType ==
    /\ Nothing \in [Module -> State]
    /\ NoClear \in [mon : Monitor \cup {None}, pc : {"idle", "build", "write"}, rows : [Module -> State]]
BY DEF Nothing, NoClear, State

LEMMA ClearStatusType ==
    ASSUME TypeOK, NEW g \in Monitor, ClearStatus(g)
    PROVE  TypeOK'
<1>0. /\ mem \in [Monitor -> [Module -> State]] /\ unsaved \in [Monitor -> SUBSET Module]
      /\ open \in [Monitor -> BOOLEAN] /\ buf \in [Monitor -> Seq(Alert)] /\ << >> \in Seq(Alert)
  BY DEF TypeOK
<1>1. changes' \in 0 .. MaxChanges /\ forgot' \in [Module -> BOOLEAN] /\ cur' \in Monitor
  BY BoundAssumption DEF TypeOK, ClearStatus, Change
<1>2. mem' \in [Monitor -> [Module -> State]]
  BY <1>0, NoClearType DEF ClearStatus
<1>3. clearing' \in [mon : Monitor \cup {None}, pc : {"idle", "build", "write"}, rows : [Module -> State]]
  BY NoClearType DEF ClearStatus
<1>4. unsaved' \in [Monitor -> SUBSET Module] /\ open' \in [Monitor -> BOOLEAN]
      /\ buf' \in [Monitor -> Seq(Alert)]
  <2>1. CASE UNCHANGED <<unsaved, open, buf>>
    BY <1>0, <2>1
  <2>2. CASE /\ unsaved' = [unsaved EXCEPT ![g] = {}]
             /\ open' = [open EXCEPT ![g] = TRUE]
             /\ buf' = [buf EXCEPT ![g] = << >>]
    BY <1>0, <2>2
  <2>3. QED
    BY <2>1, <2>2 DEF ClearStatus
<1>5. UNCHANGED <<real, stored, run, tail, cycle, snap, histbuf, outbox, heard, owed, faults>>
  BY DEF ClearStatus
<1>6. QED
  BY <1>1, <1>2, <1>3, <1>4, <1>5 DEF TypeOK

LEMMA ClearStepType ==
    ASSUME TypeOK, ClearBuild \/ ClearWrite \/ ClearTable, clearing.pc = "build" => clearing.mon \in Monitor
    PROVE  TypeOK'
<1>1. CASE ClearBuild
  <2>1. mem[clearing.mon] \in [Module -> State]
    BY <1>1 DEF TypeOK, ClearBuild
  <2>2. clearing' \in [mon : Monitor \cup {None}, pc : {"idle", "build", "write"}, rows : [Module -> State]]
    BY <1>1, <2>1 DEF TypeOK, ClearBuild
  <2>3. QED
    BY <1>1, <2>2 DEF TypeOK, ClearBuild, status, alerts
<1>2. CASE ClearWrite
  <2>1. stored' \in [Module -> State] /\ forgot' \in [Module -> BOOLEAN]
    BY <1>2 DEF TypeOK, ClearWrite
  <2>2. faults' \in 0 .. MaxFaults
    BY <1>2, BoundAssumption DEF TypeOK, ClearWrite, Fault
  <2>3. clearing' = NoClear /\ UNCHANGED <<real, cur, mem, unsaved, open, run, tail, buf, cycle, snap,
                                           histbuf, outbox, heard, owed, changes>>
    BY <1>2 DEF ClearWrite
  <2>4. QED
    BY <2>1, <2>2, <2>3, NoClearType DEF TypeOK
<1>3. CASE ClearTable
  <2>1. changes' \in 0 .. MaxChanges /\ forgot' \in [Module -> BOOLEAN]
    BY <1>3, BoundAssumption DEF TypeOK, ClearTable, Change
  <2>2. stored' = Nothing
    BY <1>3 DEF ClearTable
  <2>3. QED
    BY <1>3, <2>1, <2>2, NoClearType DEF TypeOK, ClearTable
<1>4. QED
  BY <1>1, <1>2, <1>3

LEMMA CycleHasMonitor ==
    ASSUME TypeOK, CycleOK
    PROVE  /\ cycle.pc # "idle" => cycle.mon \in Monitor
           /\ clearing.pc # "idle" => clearing.mon \in Monitor
BY DEF TypeOK, CycleOK

LEMMA TypeStep ==
    ASSUME Inv, [Next]_vars
    PROVE  TypeOK'
<1>0. TypeOK /\ Runs /\ (cycle.pc # "idle" => cycle.mon \in Monitor)
  BY CycleHasMonitor DEF Inv
<1>1. CASE \E m \in Module : World(m)
  BY <1>0, <1>1, WorldType
<1>2. CASE \E g \in Monitor : StartCycle(g) \/ RunChecks(g)
  BY <1>0, <1>2, StartCycleType, RunChecksType
<1>3. ASSUME NEW g \in Monitor, NEW m \in Module, Probe(g, m) \/ Fail(g, m) \/ Late(g, m)
      PROVE  TypeOK'
  BY <1>0, <1>3, ProbeType, FailType, LateType
<1>4. ASSUME NEW g \in Monitor, NEW m \in Module, Land(g, m)
      PROVE  TypeOK'
  BY <1>0, <1>4, LandType DEF Runs
<1>5. ASSUME NEW g \in Monitor, NEW m \in Module, Record(g, m)
      PROVE  TypeOK'
  BY <1>5, RecordType
<1>6. CASE CycleStep
  <2>1. cycle.mon \in Monitor
    BY <1>0, <1>6 DEF CycleStep, Purge, PurgeWrite, Read, Deadline, EndCycle
  <2>2. QED
    BY <1>0, <1>6, <2>1, PurgeType, PurgeWriteType, ReadType, DeadlineType, EndCycleType DEF CycleStep
<1>7. CASE Send \/ Dispose
  BY <1>0, <1>7, SendType, DisposeType
<1>8. CASE Clears
  <2>1. clearing.pc = "build" => clearing.mon \in Monitor
    BY CycleHasMonitor DEF Inv
  <2>2. QED
    BY <1>0, <1>8, <2>1, ClearStatusType, ClearStepType DEF Clears, ClearStep
<1>9. CASE UNCHANGED vars
  BY <1>0, <1>9 DEF TypeOK, vars
<1>10. QED
  BY <1>1, <1>2, <1>3, <1>4, <1>5, <1>6, <1>7, <1>8, <1>9 DEF Next, ModuleStep, Clears

LEMMA CycleStepOK ==
    ASSUME Inv, [Next]_vars
    PROVE  CycleOK'
<1>0. TypeOK /\ CycleOK /\ None \notin Monitor
  BY MonitorAssumption DEF Inv
<1>1. ASSUME ~Clears
      PROVE  clearing' = clearing
  BY <1>1, PersistentKept
<1>2. clearing'.mon = None <=> clearing'.pc = "idle"
  <2>1. CASE \E g \in Monitor : ClearStatus(g)
    BY <1>0, <2>1 DEF ClearStatus, NoClear
  <2>2. CASE ClearBuild
    <3>1. clearing'.mon = clearing.mon /\ clearing'.pc = "write" /\ clearing.pc = "build"
      BY <1>0, <2>2 DEF ClearBuild, TypeOK
    <3>2. QED
      BY <1>0, <3>1 DEF CycleOK
  <2>3. CASE ClearWrite
    BY <2>3 DEF ClearWrite, NoClear
  <2>4. CASE ClearTable \/ ~Clears
    BY <1>0, <1>1, <2>4 DEF ClearTable, CycleOK
  <2>5. QED
    BY <2>1, <2>2, <2>3, <2>4 DEF Clears, ClearStep
<1>3. ASSUME UNCHANGED cycle
      PROVE  CycleOK'
  BY <1>0, <1>2, <1>3 DEF CycleOK
<1>4. CASE \E g \in Monitor : StartCycle(g) \/ RunChecks(g)
  BY <1>0, <1>2, <1>4 DEF StartCycle, RunChecks, CycleOK
<1>5. CASE EndCycle
  BY <1>2, <1>5 DEF EndCycle, NoCycle, CycleOK
<1>6. CASE Purge
  <2>1. cycle' = [cycle EXCEPT !.pc = "read"] \/ cycle' = [cycle EXCEPT !.pc = "write"]
    BY <1>6 DEF Purge
  <2>2. QED
    BY <1>0, <1>2, <1>6, <2>1 DEF Purge, CycleOK, TypeOK
<1>7. CASE PurgeWrite \/ Read \/ Deadline
  BY <1>0, <1>2, <1>7 DEF PurgeWrite, Read, Deadline, CycleOK, TypeOK
<1>8. CASE \/ \E m \in Module : World(m)
           \/ Send \/ Dispose \/ Clears \/ UNCHANGED vars
  <2>1. UNCHANGED cycle
    BY <1>8, ClearFrame DEF World, Send, Dispose, vars
  <2>2. QED
    BY <1>3, <2>1
<1>9. ASSUME NEW g \in Monitor, NEW m \in Module,
             Probe(g, m) \/ Fail(g, m) \/ Land(g, m) \/ Record(g, m) \/ Late(g, m)
      PROVE  CycleOK'
  <2>1. UNCHANGED cycle
    BY <1>9 DEF Probe, Fail, Land, Record, Late
  <2>2. QED
    BY <1>3, <2>1
<1>10. QED
  BY <1>4, <1>5, <1>6, <1>7, <1>8, <1>9 DEF Next, CycleStep, ModuleStep, Clears

\* Where no run_checks is under way, every run is late.
LEMMA AllLate ==
    ASSUME Inv, cycle.pc # "run"
    PROVE  \A g \in Monitor, m \in Module : run[g][m].pc # "idle" => run[g][m].late
BY DEF Inv, Runs, RunOK

LEMMA LateRunsAreOK ==
    ASSUME Inv, UNCHANGED run, cycle.pc # "run"
    PROVE  Runs'
BY AllLate DEF Inv, Runs, RunOK

LEMMA RunsStep ==
    ASSUME Inv, [Next]_vars
    PROVE  Runs'
<1>0. TypeOK /\ CycleOK /\ Runs /\ (cycle.pc # "idle" => cycle.mon \in Monitor)
  BY CycleHasMonitor DEF Inv
<1>1. CASE \E g \in Monitor : StartCycle(g) \/ RunChecks(g)
  <2>1. PICK g \in Monitor : StartCycle(g) \/ RunChecks(g)
    BY <1>1
  <2>2. UNCHANGED run
    BY <2>1 DEF StartCycle, RunChecks, Build
  <2>3. cycle.pc # "run"
    BY <2>1 DEF StartCycle, RunChecks, NoCycle
  <2>4. QED
    BY <2>2, <2>3, LateRunsAreOK
<1>2. CASE Purge \/ PurgeWrite \/ EndCycle
  BY <1>2, LateRunsAreOK DEF Purge, PurgeWrite, EndCycle
<1>3. CASE Read
  <2>1. cycle.pc = "read" /\ cycle.mon \in Monitor /\ cycle' = [cycle EXCEPT !.pc = "run"] /\ histbuf' = histbuf
    BY <1>0, <1>3 DEF Read
  <2>2. histbuf = {}
    BY <2>1 DEF Inv, HistoryOnce, TypeOK
  <2>3. cycle'.pc = "run" /\ cycle'.mon = cycle.mon
    BY <1>0, <2>1 DEF TypeOK
  <2> SUFFICES ASSUME NEW h \in Monitor, NEW k \in Module
               PROVE  RunOK(h, k)'
    BY DEF Runs
  <2>4. CASE h = cycle.mon /\ run[h][k].pc = "idle"
    <3>1. run'[h][k] = [Idle EXCEPT !.pc = "waiting"]
      BY <1>0, <1>3, <2>1, <2>4, ReadType
    <3>2. QED
      BY <2>1, <2>2, <2>3, <2>4, <3>1 DEF RunOK, Idle
  <2>5. CASE ~ (h = cycle.mon /\ run[h][k].pc = "idle")
    <3>1. run'[h][k] = run[h][k]
      BY <1>0, <1>3, <2>1, <2>5, ReadType
    <3>2. QED
      BY <1>0, <2>1, <3>1, AllLate DEF RunOK, Runs
  <2>6. QED
    BY <2>4, <2>5
<1>4. ASSUME NEW g \in Monitor, NEW m \in Module, Probe(g, m)
      PROVE  Runs'
  <2>0. run[g][m] \in Run /\ real[m] \in {"up", "down", "maint"}
    BY <1>0 DEF TypeOK
  <2>1. run[g][m] \in Run /\ real[m] # "none" /\ UNCHANGED <<cycle, histbuf>>
    BY <1>4, <2>0 DEF Probe
  <2> SUFFICES ASSUME NEW h \in Monitor, NEW k \in Module
               PROVE  RunOK(h, k)'
    BY DEF Runs
  <2>2. CASE h = g /\ k = m
    <3>1. /\ run'[h][k].pc = "probed" /\ run'[h][k].obs = real[m]
          /\ run'[h][k].late = run[g][m].late
      BY <1>0, <1>4, <2>2, ProbeType
    <3>2. run[g][m].pc = "waiting" /\ RunOK(g, m)
      BY <1>0, <1>4 DEF Probe, Runs
    <3>3. QED
      BY <2>1, <2>2, <3>1, <3>2 DEF RunOK
  <2>3. CASE ~ (h = g /\ k = m)
    <3>1. run'[h][k] = run[h][k] /\ RunOK(h, k)
      BY <1>0, <1>4, <2>3, ProbeType DEF Runs
    <3>2. QED
      BY <2>1, <3>1 DEF RunOK
  <2>4. QED
    BY <2>2, <2>3
<1>5. ASSUME NEW g \in Monitor, NEW m \in Module, Land(g, m)
      PROVE  Runs'
  <2>1. run[g][m] \in Run /\ RunOK(g, m) /\ UNCHANGED <<cycle, histbuf>>
    BY <1>0, <1>5 DEF TypeOK, Land, Runs
  <2> SUFFICES ASSUME NEW h \in Monitor, NEW k \in Module
               PROVE  RunOK(h, k)'
    BY DEF Runs
  <2>2. CASE h = g /\ k = m
    <3>1. run'[h][k] = [run[g][m] EXCEPT !.pc = "saved"]
      BY <1>0, <1>5, <2>1, <2>2, LandType
    <3>2. run[g][m].pc = "probed"
      BY <1>5 DEF Land
    <3>3. QED
      BY <2>1, <2>2, <3>1, <3>2 DEF RunOK, Run
  <2>3. CASE ~ (h = g /\ k = m)
    <3>0. \A i \in Monitor, j \in Module :
             run'[i][j] = IF i = g /\ j = m THEN [run[g][m] EXCEPT !.pc = "saved"] ELSE run[i][j]
      BY <1>0, <1>5, <2>1, LandType
    <3>1. run'[h][k] = run[h][k]
      BY <2>3, <3>0
    <3>2. QED
      BY <1>0, <2>1, <3>1 DEF RunOK, Runs
  <2>4. QED
    BY <2>2, <2>3
<1>6. ASSUME NEW g \in Monitor, NEW m \in Module, Fail(g, m)
      PROVE  Runs'
  <2>1. Finish(g, m) /\ UNCHANGED <<cycle, histbuf>>
    BY <1>6 DEF Fail
  <2>2. \A h \in Monitor, k \in Module : run'[h][k] = IF h = g /\ k = m THEN Idle ELSE run[h][k]
    BY <1>0, <2>1, FinishType
  <2>3. QED
    BY <1>0, <2>1, <2>2, IdleIsRun DEF RunOK, Runs
<1>7. ASSUME NEW g \in Monitor, NEW m \in Module, Record(g, m)
      PROVE  Runs'
  <2>1. Finish(g, m) /\ cycle' = cycle /\ (histbuf' = histbuf \/ (~run[g][m].late /\ histbuf' = histbuf \cup {m}))
    BY <1>7 DEF Record
  <2>2. \A h \in Monitor, k \in Module : run'[h][k] = IF h = g /\ k = m THEN Idle ELSE run[h][k]
    BY <1>0, <2>1, FinishType
  <2>3. ~run[g][m].late => cycle.mon = g
    BY <1>0, <1>7 DEF Record, Runs, RunOK
  <2> SUFFICES ASSUME NEW h \in Monitor, NEW k \in Module
               PROVE  RunOK(h, k)'
    BY DEF Runs
  <2>4. CASE h = g /\ k = m
    BY <2>2, <2>4, IdleIsRun DEF RunOK
  <2>5. CASE ~ (h = g /\ k = m)
    <3>1. run'[h][k] = run[h][k] /\ RunOK(h, k)
      BY <1>0, <2>2, <2>5 DEF Runs
    <3>2. QED
      BY <2>1, <2>3, <2>5, <3>1 DEF RunOK
  <2>6. QED
    BY <2>4, <2>5
<1>8. CASE Deadline
  <2>1. cycle.mon \in Monitor /\ cycle.pc = "run"
    BY <1>0, <1>8 DEF Deadline
  <2> SUFFICES ASSUME NEW h \in Monitor, NEW k \in Module
               PROVE  RunOK(h, k)'
    BY DEF Runs
  <2>2. CASE h = cycle.mon
    <3>1. run[h][k] \in Run /\ RunOK(h, k)
      BY <1>0 DEF TypeOK, Runs
    <3>2. CASE run'[h][k] = Idle
      BY <3>2, IdleIsRun DEF RunOK
    <3>3. CASE run'[h][k] = [run[h][k] EXCEPT !.late = TRUE]
      BY <3>1, <3>3 DEF RunOK, Run
    <3>4. QED
      BY <1>0, <1>8, <2>1, <2>2, <3>2, <3>3, DeadlineRuns
  <2>3. CASE h # cycle.mon
    <3>1. run'[h][k] = run[h][k]
      BY <1>0, <1>8, <2>1, <2>3, DeadlineRuns
    <3>2. run[h][k].pc # "idle" => run[h][k].late
      BY <1>0, <2>3 DEF Runs, RunOK
    <3>3. QED
      BY <1>0, <3>1, <3>2 DEF Runs, RunOK
  <2>4. QED
    BY <2>2, <2>3
<1>9. CASE UNCHANGED <<run, cycle, histbuf>>
  BY <1>0, <1>9 DEF Runs, RunOK
<1>10. CASE Clears
  BY <1>9, <1>10, ClearFrame
<1>11. QED
  BY <1>1, <1>2, <1>3, <1>4, <1>5, <1>6, <1>7, <1>8, <1>9, <1>10
  DEF Next, CycleStep, ModuleStep, World, Late, Send, Dispose, Clears, vars

\* A step that leaves the samples in hand, buffered and owed alone.
LEMMA SamplesKept ==
    ASSUME HistoryOnce, NEW m \in Module, UNCHANGED owed, UNCHANGED histbuf,
           \A g \in Monitor : g \in Holding(m)' <=> g \in Holding(m)
    PROVE  owed'[m] = (IF m \in histbuf' THEN 1 ELSE 0) + Cardinality(Holding(m)')
<1>1. Holding(m)' = Holding(m)
  BY DEF Holding
<1>2. owed[m] = (IF m \in histbuf THEN 1 ELSE 0) + Cardinality(Holding(m))
  BY DEF HistoryOnce, Holding
<1>3. QED
  BY <1>1, <1>2

LEMMA HistoryStep ==
    ASSUME Inv, [Next]_vars
    PROVE  HistoryOnce'
<1>0. TypeOK /\ TypeOK' /\ Runs /\ HistoryOnce /\ (cycle.pc # "idle" => cycle.mon \in Monitor)
  BY CycleHasMonitor, TypeStep DEF Inv
<1> DEFINE Owes(m) == owed[m] = (IF m \in histbuf THEN 1 ELSE 0) + Cardinality(Holding(m))
<1>a. \A m \in Module : Owes(m) /\ (m \in histbuf => cycle.pc = "run")
  BY <1>0 DEF HistoryOnce, Holding
<1>b. (\A m \in Module : Owes(m)' /\ (m \in histbuf' => cycle'.pc = "run")) => HistoryOnce'
  BY DEF HistoryOnce, Holding
<1>c. \A m \in Module, g \in Monitor : g \in Holding(m) <=> run[g][m].pc = "saved" /\ run[g][m].obs # "maint"
  BY DEF Holding
<1>d. \A m \in Module, g \in Monitor : g \in Holding(m)' <=> run'[g][m].pc = "saved" /\ run'[g][m].obs # "maint"
  BY DEF Holding
<1>1. CASE UNCHANGED <<run, owed, histbuf>> /\ (cycle' = cycle \/ cycle.pc # "run")
  BY <1>1, <1>0 DEF HistoryOnce
<1>2. CASE Read
  <2>1. cycle.pc = "read" /\ cycle.mon \in Monitor /\ UNCHANGED <<owed, histbuf>>
    BY <1>0, <1>2 DEF Read
  <2>2. histbuf = {}
    BY <1>0, <2>1 DEF HistoryOnce, TypeOK
  <2> SUFFICES ASSUME NEW m \in Module
               PROVE  Owes(m)'
    BY <1>b, <2>1, <2>2
  <2>3. ASSUME NEW h \in Monitor
        PROVE  h \in Holding(m)' <=> h \in Holding(m)
    <3>1. \/ run'[h][m] = [Idle EXCEPT !.pc = "waiting"] /\ run[h][m].pc = "idle"
          \/ run'[h][m] = run[h][m]
      BY <1>0, <1>2, <2>1, ReadType
    <3>2. QED
      BY <1>c, <1>d, <3>1 DEF Idle
  <2>4. QED
    BY <1>0, <2>1, <2>3, SamplesKept
<1>3. ASSUME NEW g \in Monitor, NEW k \in Module, Probe(g, k)
      PROVE  HistoryOnce'
  <2>1. UNCHANGED <<owed, histbuf, cycle>> /\ run[g][k] \in Run /\ run[g][k].pc = "waiting"
    BY <1>0, <1>3 DEF Probe, TypeOK
  <2> SUFFICES ASSUME NEW m \in Module
               PROVE  Owes(m)'
    BY <1>a, <1>b, <2>1
  <2>2. ASSUME NEW h \in Monitor
        PROVE  h \in Holding(m)' <=> h \in Holding(m)
    <3>1. CASE h = g /\ m = k
      <4>1. run'[h][m].pc = "probed"
        BY <1>0, <1>3, <3>1, ProbeType
      <4>2. QED
        BY <1>c, <1>d, <2>1, <3>1, <4>1
    <3>2. CASE ~ (h = g /\ m = k)
      <4>1. run'[h][m] = run[h][m]
        BY <1>0, <1>3, <3>2, ProbeType
      <4>2. QED
        BY <1>c, <1>d, <4>1
    <3>3. QED
      BY <3>1, <3>2
  <2>3. QED
    BY <1>0, <2>1, <2>2, SamplesKept
<1>4. ASSUME NEW g \in Monitor, NEW k \in Module, Fail(g, k)
      PROVE  HistoryOnce'
  <2>1. UNCHANGED <<owed, histbuf, cycle>> /\ Finish(g, k) /\ run[g][k].pc = "waiting"
    BY <1>4 DEF Fail
  <2> SUFFICES ASSUME NEW m \in Module
               PROVE  Owes(m)'
    BY <1>a, <1>b, <2>1
  <2>2. ASSUME NEW h \in Monitor
        PROVE  h \in Holding(m)' <=> h \in Holding(m)
    <3>1. \A i \in Monitor, j \in Module : run'[i][j] = IF i = g /\ j = k THEN Idle ELSE run[i][j]
      BY <1>0, <2>1, FinishType
    <3>2. CASE h = g /\ m = k
      BY <1>c, <1>d, <2>1, <3>1, <3>2, IdleIsRun
    <3>3. CASE ~ (h = g /\ m = k)
      <4>1. run'[h][m] = run[h][m]
        BY <3>1, <3>3
      <4>2. QED
        BY <1>c, <1>d, <4>1
    <3>4. QED
      BY <3>2, <3>3
  <2>3. QED
    BY <1>0, <2>1, <2>2, SamplesKept
<1>5. ASSUME NEW g \in Monitor, NEW k \in Module, Land(g, k)
      PROVE  HistoryOnce'
  <2>1. /\ UNCHANGED <<histbuf, cycle>> /\ run[g][k] \in Run /\ run[g][k].pc = "probed"
        /\ owed' = [owed EXCEPT ![k] = IF run[g][k].obs = "maint" THEN @ ELSE @ + 1]
    BY <1>0, <1>5 DEF Land, TypeOK
  <2>2. \A i \in Monitor, j \in Module :
           run'[i][j] = IF i = g /\ j = k THEN [run[g][k] EXCEPT !.pc = "saved"] ELSE run[i][j]
    BY <1>0, <1>5, LandType DEF Runs
  <2> SUFFICES ASSUME NEW m \in Module
               PROVE  Owes(m)'
    BY <1>a, <1>b, <2>1
  <2>3. ASSUME NEW h \in Monitor, h # g \/ m # k
        PROVE  h \in Holding(m)' <=> h \in Holding(m)
    <3>1. run'[h][m] = run[h][m]
      BY <2>2, <2>3
    <3>2. QED
      BY <1>c, <1>d, <3>1
  <2>4. run'[g][k].pc = "saved" /\ run'[g][k].obs = run[g][k].obs
    <3>1. run'[g][k] = [run[g][k] EXCEPT !.pc = "saved"]
      BY <2>2
    <3>2. QED
      BY <2>1, <3>1 DEF Run
  <2>5. CASE m = k /\ run[g][k].obs # "maint"
    <3>1. Holding(m)' = Holding(m) \cup {g} /\ g \notin Holding(m)
      <4>1. g \in Holding(m)' /\ g \notin Holding(m)
        BY <1>c, <1>d, <2>1, <2>4, <2>5
      <4>2. Holding(m) \subseteq Monitor /\ Holding(m)' \subseteq Monitor
        BY DEF Holding
      <4>3. QED
        BY <2>3, <4>1, <4>2
    <3>2. Cardinality(Holding(m) \cup {g}) = Cardinality(Holding(m)) + 1
      BY <3>1, HoldingFinite, FS_AddElement
    <3>3. owed'[m] = owed[m] + 1
      BY <1>0, <2>1, <2>5 DEF TypeOK
    <3>4. Cardinality(Holding(m)) \in Nat
      BY HoldingFinite
    <3>5. QED
      BY <1>a, <2>1, <3>1, <3>2, <3>3, <3>4
  <2>6. CASE ~ (m = k /\ run[g][k].obs # "maint")
    <3>1. owed'[m] = owed[m]
      BY <1>0, <2>1, <2>6 DEF TypeOK
    <3>2. \A h \in Monitor : h \in Holding(m)' <=> h \in Holding(m)
      BY <1>c, <1>d, <2>1, <2>3, <2>4, <2>6
    <3>3. Holding(m)' = Holding(m)
      BY <3>2 DEF Holding
    <3>4. QED
      BY <1>a, <2>1, <3>1, <3>3
  <2>7. QED
    BY <2>5, <2>6
<1>6. ASSUME NEW g \in Monitor, NEW k \in Module, Record(g, k)
      PROVE  HistoryOnce'
  <2>1. Finish(g, k) /\ cycle' = cycle /\ run[g][k].pc = "saved" /\ RunOK(g, k)
    BY <1>0, <1>6 DEF Record, Runs
  <2>2. \A i \in Monitor, j \in Module : run'[i][j] = IF i = g /\ j = k THEN Idle ELSE run[i][j]
    BY <1>0, <2>1, FinishType
  <2>3. CASE run[g][k].obs = "maint"
    <3>1. UNCHANGED <<owed, histbuf>>
      BY <1>6, <2>3 DEF Record
    <3> SUFFICES ASSUME NEW m \in Module
                 PROVE  Owes(m)'
      BY <1>a, <1>b, <2>1, <3>1
    <3>2. ASSUME NEW h \in Monitor
          PROVE  h \in Holding(m)' <=> h \in Holding(m)
      <4>1. CASE h = g /\ m = k
        BY <1>c, <1>d, <2>2, <2>3, <4>1, IdleIsRun
      <4>2. CASE ~ (h = g /\ m = k)
        <5>1. run'[h][m] = run[h][m]
          BY <2>2, <4>2
        <5>2. QED
          BY <1>c, <1>d, <5>1
      <4>3. QED
        BY <4>1, <4>2
    <3>3. QED
      BY <1>0, <3>1, <3>2, SamplesKept
  <2>4. CASE run[g][k].obs # "maint"
    <3>1. \/ run[g][k].late /\ owed' = [owed EXCEPT ![k] = @ - 1] /\ histbuf' = histbuf
          \/ ~run[g][k].late /\ owed' = owed /\ histbuf' = histbuf \cup {k}
      BY <1>6, <2>4 DEF Record
    <3>2. (k \notin histbuf /\ cycle.pc = "run") \/ run[g][k].late
      BY <2>1 DEF RunOK
    <3>3. \A m \in Module : m \in histbuf' => cycle'.pc = "run"
      BY <1>a, <2>1, <3>1, <3>2
    <3> SUFFICES ASSUME NEW m \in Module
                 PROVE  Owes(m)'
      BY <1>b, <3>3
    <3>4. ASSUME NEW h \in Monitor, h # g \/ m # k
          PROVE  h \in Holding(m)' <=> h \in Holding(m)
      <4>1. run'[h][m] = run[h][m]
        BY <2>2, <3>4
      <4>2. QED
        BY <1>c, <1>d, <4>1
    <3>5. CASE m = k
      <4>1. Holding(m)' = Holding(m) \ {g} /\ g \in Holding(m)
        <5>1. g \notin Holding(m)' /\ g \in Holding(m)
          BY <1>c, <1>d, <2>1, <2>2, <2>4, <3>5, IdleIsRun
        <5>2. Holding(m) \subseteq Monitor /\ Holding(m)' \subseteq Monitor
          BY DEF Holding
        <5>3. QED
          BY <3>4, <5>1, <5>2
      <4>2. Cardinality(Holding(m) \ {g}) = Cardinality(Holding(m)) - 1
        BY <4>1, HoldingFinite, FS_RemoveElement
      <4>3. Cardinality(Holding(m)) \in Nat
        BY HoldingFinite
      <4>4. \/ owed'[m] = owed[m] - 1 /\ histbuf' = histbuf
            \/ owed'[m] = owed[m] /\ m \notin histbuf /\ m \in histbuf'
        BY <1>0, <3>1, <3>2, <3>5 DEF TypeOK
      <4>5. owed[m] \in Nat
        BY <1>0 DEF TypeOK
      <4>6. QED
        BY <1>a, <4>1, <4>2, <4>3, <4>4, <4>5
    <3>6. CASE m # k
      <4>1. owed'[m] = owed[m] /\ (m \in histbuf' <=> m \in histbuf)
        BY <1>0, <3>1, <3>6 DEF TypeOK
      <4>2. Holding(m)' = Holding(m)
        BY <3>4, <3>6 DEF Holding
      <4>3. QED
        BY <1>a, <4>1, <4>2
    <3>7. QED
      BY <3>5, <3>6
  <2>5. QED
    BY <2>3, <2>4
<1>7. CASE Deadline
  <2>1. /\ cycle.mon \in Monitor /\ histbuf' = {}
        /\ owed' = [m \in Module |-> IF m \in histbuf THEN owed[m] - 1 ELSE owed[m]]
    BY <1>0, <1>7 DEF Deadline
  <2> SUFFICES ASSUME NEW m \in Module
               PROVE  Owes(m)'
    BY <1>b, <2>1
  <2>2. ASSUME NEW h \in Monitor
        PROVE  h \in Holding(m)' <=> h \in Holding(m)
    <3>1. \/ run'[h][m] = run[h][m]
          \/ run'[h][m] = Idle /\ run[h][m].pc \in {"idle", "waiting"}
          \/ run'[h][m] = [run[h][m] EXCEPT !.late = TRUE] /\ run[h][m] \in Run
      <4>1. run[h][m] \in Run
        BY <1>0 DEF TypeOK
      <4>2. CASE h = cycle.mon
        BY <1>0, <1>7, <2>1, <4>1, <4>2, DeadlineRuns
      <4>3. CASE h # cycle.mon
        BY <1>0, <1>7, <2>1, <4>3, DeadlineRuns
      <4>4. QED
        BY <4>2, <4>3
    <3>2. CASE run'[h][m] = Idle /\ run[h][m].pc \in {"idle", "waiting"}
      BY <1>c, <1>d, <3>2, IdleIsRun
    <3>3. CASE run'[h][m] = [run[h][m] EXCEPT !.late = TRUE] /\ run[h][m] \in Run
      BY <1>c, <1>d, <3>3 DEF Run
    <3>4. CASE run'[h][m] = run[h][m]
      BY <1>c, <1>d, <3>4
    <3>5. QED
      BY <3>1, <3>2, <3>3, <3>4
  <2>3. Holding(m)' = Holding(m)
    BY <2>2 DEF Holding
  <2>4. Cardinality(Holding(m)) \in Nat /\ owed[m] \in Nat
    BY <1>0, HoldingFinite DEF TypeOK
  <2>5. owed'[m] = IF m \in histbuf THEN owed[m] - 1 ELSE owed[m]
    BY <2>1
  <2>6. QED
    BY <1>a, <2>1, <2>3, <2>4, <2>5
<1>8. CASE \E g \in Monitor : StartCycle(g) \/ RunChecks(g)
  <2>1. PICK g \in Monitor : StartCycle(g) \/ RunChecks(g)
    BY <1>8
  <2>2. UNCHANGED <<run, owed, histbuf>> /\ cycle.pc # "run"
    BY <2>1 DEF StartCycle, RunChecks, Build, NoCycle
  <2>3. QED
    BY <1>1, <2>2
<1>9. CASE Clears
  BY <1>1, <1>9, ClearFrame
<1>10. QED
  BY <1>1, <1>2, <1>3, <1>4, <1>5, <1>6, <1>7, <1>8, <1>9
  DEF Next, CycleStep, ModuleStep, Purge, PurgeWrite, EndCycle, World, Late, Send, Dispose, Clears, vars

LEMMA InvInit ==
    ASSUME Init
    PROVE  Inv
<1>1. TypeOK
  <2>1. Nothing \in [Module -> State] /\ << >> \in Seq(Alert)
    BY DEF Nothing, State
  <2>2. run \in [Monitor -> [Module -> Run]]
    BY IdleIsRun DEF Init
  <2>3. cycle \in [mon : Monitor \cup {None}, pc : {"idle", "purge", "write", "read", "run", "flush"}]
    BY DEF Init, NoCycle
  <2>4. changes \in 0 .. MaxChanges /\ faults \in 0 .. MaxFaults
    BY BoundAssumption DEF Init
  <2>5. real \in [Module -> {"up", "down", "maint"}]
    BY DEF Init
  <2>6. QED
    BY <2>1, <2>2, <2>3, <2>4, <2>5, NoClearType DEF TypeOK, Init
<1>2. CycleOK
  BY DEF Init, NoCycle, NoClear, CycleOK
<1>3. \A g \in Monitor, m \in Module : run[g][m].pc = "idle"
  BY IdleIsRun DEF Init
<1>4. Runs
  BY <1>3 DEF Runs, RunOK
<1>5. HistoryOnce
  <2>1. \A m \in Module : Holding(m) = {}
    BY <1>3 DEF Holding
  <2>2. \A m \in Module : owed[m] = 0 /\ m \notin histbuf
    BY DEF Init
  <2>3. \A m \in Module : owed[m] = (IF m \in histbuf THEN 1 ELSE 0) + Cardinality(Holding(m))
    BY <2>1, <2>2, FS_EmptySet
  <2>4. QED
    BY <2>2, <2>3 DEF HistoryOnce, Holding
<1>6. QED
  BY <1>1, <1>2, <1>4, <1>5 DEF Inv

LEMMA InvStep ==
    ASSUME Inv, [Next]_vars
    PROVE  Inv'
<1>1. TypeOK'
  BY TypeStep
<1>2. CycleOK'
  BY CycleStepOK
<1>3. Runs'
  BY RunsStep
<1>4. HistoryOnce'
  BY HistoryStep
<1>5. QED
  BY <1>1, <1>2, <1>3, <1>4 DEF Inv

\* Every variable of the pipeline keeps its type; no sample is taken off that is not owed.
THEOREM TypeCorrect == Spec => []TypeOK
<1>1. Inv => TypeOK
  BY DEF Inv
<1>2. QED
  BY <1>1, InvInit, InvStep, PTL DEF Spec

\* The samples of every run are written exactly once, by the flush of its run_checks or
\* by its own thread, whatever races and faults there are (executor.py, _record and _flush).
THEOREM SamplesWrittenOnce == Spec => []HistoryOnce
<1>1. Inv => HistoryOnce
  BY DEF Inv
<1>2. QED
  BY <1>1, InvInit, InvStep, PTL DEF Spec
-----------------------------------------------------------------------------
(* Queues of alerts: what they leave said, and when none of them repeats    *)
(* what was said before.                                                    *)

\* In q, where `said` was said before, no alert repeats the one before it about
\* the same item.
News(q, said) ==
    \A k \in DOMAIN q : q[k].again \/
        /\ \A j \in 1 .. k - 1 :
              q[j].mod = q[k].mod /\ (\A i \in j + 1 .. k - 1 : q[i].mod # q[k].mod) => q[j].st # q[k].st
        /\ (\A j \in 1 .. k - 1 : q[j].mod # q[k].mod) => said[q[k].mod] # q[k].st

\* k is the place of the last alert of q about m.
IsLast(q, m, k) ==
    k \in DOMAIN q /\ q[k].mod = m /\ \A j \in DOMAIN q : j > k => q[j].mod # m

LEMMA LastExists ==
    ASSUME NEW q \in Seq(Alert), NEW m, NEW n \in DOMAIN q, q[n].mod = m
    PROVE  \E k \in DOMAIN q : IsLast(q, m, k)
<1> DEFINE about == {k \in DOMAIN q : q[k].mod = m}
           D == {Len(q) - k : k \in about}
<1>1. DOMAIN q = 1 .. Len(q) /\ Len(q) \in Nat
  OBVIOUS
<1>2. D \in SUBSET Nat /\ D # {}
  BY <1>1
<1>3. \E d \in D : \A e \in D : ~ (<<e, d>> \in OpToRel(<, Nat))
  BY <1>2, NatLessThanWellFounded, WFMin
<1>4. \A k, j \in Nat : <<k, j>> \in OpToRel(<, Nat) <=> k < j
  BY DEF OpToRel
<1>5. PICK d \in D : \A e \in D : ~ (e < d)
  <2> HIDE DEF D
  <2>1. PICK d \in D : \A e \in D : ~ (<<e, d>> \in OpToRel(<, Nat))
    BY <1>3
  <2>2. \A e \in D : ~ (e < d)
    BY <1>2, <1>4, <2>1
  <2>3. QED
    BY <2>2
<1>6. PICK k \in about : d = Len(q) - k
  BY <1>5
<1>7. \A j \in about : ~ (Len(q) - j < Len(q) - k)
  BY <1>5, <1>6
<1>8. \A j \in about : ~ (j > k)
  BY <1>1, <1>6, <1>7
<1>9. QED
  BY <1>6, <1>8 DEF IsLast

LEMMA WordIs ==
    ASSUME NEW q \in Seq(Alert), NEW m, NEW last, NEW k, IsLast(q, m, k)
    PROVE  WordAfter(q, m, last) = q[k].st
<1> DEFINE about == {j \in DOMAIN q : q[j].mod = m}
<1>1. DOMAIN q = 1 .. Len(q) /\ Len(q) \in Nat
  OBVIOUS
<1>2. k \in about /\ \A j \in about : j <= k
  BY <1>1 DEF IsLast
<1>3. \A i \in about : (\A j \in about : j <= i) => i = k
  BY <1>1, <1>2
<1> HIDE DEF about
<1>4. (CHOOSE i \in about : \A j \in about : j <= i) = k
  BY <1>2, <1>3
<1>5. QED
  BY <1>2, <1>4 DEF WordAfter, about

LEMMA WordIsOld ==
    ASSUME NEW q, NEW m, NEW last, \A j \in DOMAIN q : q[j].mod # m
    PROVE  WordAfter(q, m, last) = last
BY DEF WordAfter

LEMMA WordAppend ==
    ASSUME NEW q \in Seq(Alert), NEW a \in Alert, NEW m, NEW last
    PROVE  WordAfter(Append(q, a), m, last) = IF a.mod = m THEN a.st ELSE WordAfter(q, m, last)
<1> DEFINE r == Append(q, a)
<1>1. /\ r \in Seq(Alert) /\ Len(r) = Len(q) + 1 /\ r[Len(q) + 1] = a
      /\ \A i \in 1 .. Len(q) : r[i] = q[i]
      /\ DOMAIN q = 1 .. Len(q) /\ DOMAIN r = 1 .. Len(q) + 1 /\ Len(q) \in Nat
  BY AppendProperties
<1> HIDE DEF r
<1>2. ASSUME a.mod = m
      PROVE  WordAfter(r, m, last) = a.st
  <2>1. IsLast(r, m, Len(q) + 1)
    BY <1>1, <1>2 DEF IsLast
  <2>2. QED
    BY <1>1, <1>2, <2>1, WordIs
<1>3. ASSUME a.mod # m, \E n \in DOMAIN q : q[n].mod = m
      PROVE  WordAfter(r, m, last) = WordAfter(q, m, last)
  <2>1. PICK k \in DOMAIN q : IsLast(q, m, k)
    BY <1>3, LastExists
  <2>2. IsLast(r, m, k)
    BY <1>1, <1>3, <2>1 DEF IsLast
  <2>3. WordAfter(q, m, last) = q[k].st /\ WordAfter(r, m, last) = r[k].st
    BY <1>1, <2>1, <2>2, WordIs
  <2>4. k \in 1 .. Len(q) /\ r[k] = q[k]
    BY <1>1, <2>1
  <2>5. QED
    BY <1>3, <2>3, <2>4
<1>4. ASSUME a.mod # m, \A n \in DOMAIN q : q[n].mod # m
      PROVE  WordAfter(r, m, last) = WordAfter(q, m, last)
  <2>1. \A n \in DOMAIN r : r[n].mod # m
    BY <1>1, <1>4
  <2>2. QED
    BY <1>4, <2>1, WordIsOld
<1>5. WordAfter(r, m, last) = IF a.mod = m THEN a.st ELSE WordAfter(q, m, last)
  BY <1>2, <1>3, <1>4
<1>6. QED
  BY <1>5 DEF r

LEMMA WordTail ==
    ASSUME NEW q \in Seq(Alert), q # << >>, NEW m, NEW last
    PROVE  WordAfter(Tail(q), m, IF Head(q).mod = m THEN Head(q).st ELSE last) = WordAfter(q, m, last)
<1> DEFINE r == Tail(q)
           old == IF Head(q).mod = m THEN Head(q).st ELSE last
<1>1. /\ r \in Seq(Alert) /\ Len(r) = Len(q) - 1 /\ \A i \in 1 .. Len(r) : r[i] = q[i + 1]
      /\ DOMAIN q = 1 .. Len(q) /\ DOMAIN r = 1 .. Len(r) /\ Len(q) \in Nat /\ Len(q) > 0
  BY HeadTailProperties
<1>2. Head(q) = q[1]
  OBVIOUS
<1> HIDE DEF r, old
<1>3. CASE \E n \in DOMAIN r : r[n].mod = m
  <2>1. PICK k \in DOMAIN r : IsLast(r, m, k)
    BY <1>1, <1>3, LastExists
  <2>2. IsLast(q, m, k + 1)
    <3>1. k + 1 \in DOMAIN q /\ q[k + 1].mod = m
      BY <1>1, <2>1 DEF IsLast
    <3>2. ASSUME NEW j \in DOMAIN q, j > k + 1
          PROVE  q[j].mod # m
      <4>1. j - 1 \in DOMAIN r /\ j - 1 > k /\ r[j - 1] = q[j]
        BY <1>1, <2>1, <3>2
      <4>2. QED
        BY <2>1, <4>1 DEF IsLast
    <3>3. QED
      BY <3>1, <3>2 DEF IsLast
  <2>3. WordAfter(q, m, last) = q[k + 1].st /\ WordAfter(r, m, old) = r[k].st
    BY <1>1, <2>1, <2>2, WordIs
  <2>4. QED
    BY <1>1, <2>1, <2>3 DEF r, old
<1>4. CASE \A n \in DOMAIN r : r[n].mod # m
  <2>1. WordAfter(r, m, old) = old
    BY <1>4, WordIsOld
  <2>2. \A j \in DOMAIN q : j > 1 => q[j].mod # m
    <3> SUFFICES ASSUME NEW j \in DOMAIN q, j > 1
                 PROVE  q[j].mod # m
      OBVIOUS
    <3>1. j - 1 \in DOMAIN r /\ r[j - 1] = q[j]
      BY <1>1
    <3>2. QED
      BY <1>4, <3>1
  <2>3. CASE Head(q).mod = m
    <3>1. IsLast(q, m, 1)
      BY <1>1, <1>2, <2>2, <2>3 DEF IsLast
    <3>2. QED
      BY <1>2, <2>1, <2>3, <3>1, WordIs DEF r, old
  <2>4. CASE Head(q).mod # m
    <3>1. \A j \in DOMAIN q : q[j].mod # m
      BY <1>1, <1>2, <2>2, <2>4
    <3>2. QED
      BY <2>1, <2>4, <3>1, WordIsOld DEF r, old
  <2>5. QED
    BY <2>3, <2>4
<1>5. QED
  BY <1>3, <1>4

LEMMA WordConcat ==
    ASSUME NEW q \in Seq(Alert), NEW p \in Seq(Alert), NEW m, NEW last, \A n \in DOMAIN p : p[n].mod # m
    PROVE  WordAfter(q \o p, m, last) = WordAfter(q, m, last)
<1> DEFINE r == q \o p
<1>1. /\ r \in Seq(Alert) /\ Len(r) = Len(q) + Len(p)
      /\ \A i \in 1 .. Len(q) + Len(p) : r[i] = IF i <= Len(q) THEN q[i] ELSE p[i - Len(q)]
      /\ DOMAIN q = 1 .. Len(q) /\ DOMAIN p = 1 .. Len(p) /\ DOMAIN r = 1 .. Len(r)
      /\ Len(q) \in Nat /\ Len(p) \in Nat
  BY ConcatProperties
<1> HIDE DEF r
<1>2. \A j \in DOMAIN r : j > Len(q) => r[j].mod # m
  <2> SUFFICES ASSUME NEW j \in DOMAIN r, j > Len(q)
               PROVE  r[j].mod # m
    OBVIOUS
  <2>1. j - Len(q) \in DOMAIN p /\ r[j] = p[j - Len(q)]
    BY <1>1
  <2>2. QED
    BY <2>1
<1>3. \A j \in DOMAIN q : j \in DOMAIN r /\ r[j] = q[j]
  BY <1>1
<1>4. ASSUME \E n \in DOMAIN q : q[n].mod = m
      PROVE  WordAfter(r, m, last) = WordAfter(q, m, last)
  <2>1. PICK k \in DOMAIN q : IsLast(q, m, k)
    BY <1>4, LastExists
  <2>2. IsLast(r, m, k)
    BY <1>1, <1>2, <1>3, <2>1 DEF IsLast
  <2>3. WordAfter(q, m, last) = q[k].st /\ WordAfter(r, m, last) = r[k].st
    BY <1>1, <2>1, <2>2, WordIs
  <2>4. QED
    BY <1>3, <2>1, <2>3
<1>5. ASSUME \A n \in DOMAIN q : q[n].mod # m
      PROVE  WordAfter(r, m, last) = WordAfter(q, m, last)
  <2>1. \A n \in DOMAIN r : r[n].mod # m
    BY <1>1, <1>2, <1>3, <1>5
  <2>2. QED
    BY <1>5, <2>1, WordIsOld
<1>6. WordAfter(r, m, last) = WordAfter(q, m, last)
  BY <1>4, <1>5
<1>7. QED
  BY <1>6 DEF r

LEMMA NewsAppend ==
    ASSUME NEW q \in Seq(Alert), NEW a \in Alert, NEW said, News(q, said),
           a.again \/ a.st # WordAfter(q, a.mod, said[a.mod])
    PROVE  News(Append(q, a), said)
<1> DEFINE r == Append(q, a)
           n == Len(q) + 1
<1>1. /\ r \in Seq(Alert) /\ r[n] = a
      /\ \A i \in 1 .. Len(q) : r[i] = q[i]
      /\ DOMAIN q = 1 .. Len(q) /\ DOMAIN r = 1 .. n /\ Len(q) \in Nat
  BY AppendProperties
<1> HIDE DEF r
<1>2. ASSUME NEW k \in 1 .. Len(q)
      PROVE  r[k].again \/
             /\ \A j \in 1 .. k - 1 :
                   r[j].mod = r[k].mod /\ (\A i \in j + 1 .. k - 1 : r[i].mod # r[k].mod) => r[j].st # r[k].st
             /\ (\A j \in 1 .. k - 1 : r[j].mod # r[k].mod) => said[r[k].mod] # r[k].st
  <2>1. r[k] = q[k] /\ \A i \in 1 .. k - 1 : r[i] = q[i]
    BY <1>1
  <2>2. q[k].again \/
             /\ \A j \in 1 .. k - 1 :
                   q[j].mod = q[k].mod /\ (\A i \in j + 1 .. k - 1 : q[i].mod # q[k].mod) => q[j].st # q[k].st
             /\ (\A j \in 1 .. k - 1 : q[j].mod # q[k].mod) => said[q[k].mod] # q[k].st
    BY <1>1 DEF News
  <2>3. \A j \in 1 .. k - 1 : j + 1 .. k - 1 \subseteq 1 .. k - 1
    BY <1>1
  <2>4. QED
    BY <2>1, <2>2, <2>3
<1>3. ASSUME NEW j \in 1 .. n - 1, r[j].mod = a.mod, \A i \in j + 1 .. n - 1 : r[i].mod # a.mod
      PROVE  WordAfter(q, a.mod, said[a.mod]) = r[j].st
  <2>1. IsLast(q, a.mod, j)
    BY <1>1, <1>3 DEF IsLast
  <2>2. QED
    BY <1>1, <2>1, WordIs
<1>4. ASSUME \A j \in 1 .. n - 1 : r[j].mod # a.mod
      PROVE  WordAfter(q, a.mod, said[a.mod]) = said[a.mod]
  BY <1>1, <1>4, WordIsOld
<1>5. \A k \in DOMAIN r : k \in 1 .. Len(q) \/ k = n
  BY <1>1
<1>6. r[n].again \/
             /\ \A j \in 1 .. n - 1 :
                   r[j].mod = r[n].mod /\ (\A i \in j + 1 .. n - 1 : r[i].mod # r[n].mod) => r[j].st # r[n].st
             /\ (\A j \in 1 .. n - 1 : r[j].mod # r[n].mod) => said[r[n].mod] # r[n].st
  <2> HIDE DEF n
  <2>1. r[n] = a
    BY <1>1
  <2>2. QED
    BY <1>3, <1>4, <2>1
<1>7. News(r, said)
  <2> HIDE DEF n
  <2>1. QED
    BY <1>2, <1>5, <1>6 DEF News
<1>8. QED
  BY <1>7 DEF r

LEMMA NewsHead ==
    ASSUME NEW q \in Seq(Alert), q # << >>, NEW said, News(q, said)
    PROVE  Head(q).again \/ said[Head(q).mod] # Head(q).st
<1>1. 1 \in DOMAIN q /\ Head(q) = q[1] /\ 1 .. 1 - 1 = {}
  OBVIOUS
<1>2. QED
  BY <1>1 DEF News

LEMMA NewsTail ==
    ASSUME NEW q \in Seq(Alert), q # << >>, NEW said \in [Module -> State], News(q, said)
    PROVE  News(Tail(q), [said EXCEPT ![Head(q).mod] = Head(q).st])
<1> DEFINE r == Tail(q)
           new == [said EXCEPT ![Head(q).mod] = Head(q).st]
<1>1. /\ r \in Seq(Alert) /\ Len(r) = Len(q) - 1 /\ \A i \in 1 .. Len(r) : r[i] = q[i + 1]
      /\ DOMAIN q = 1 .. Len(q) /\ DOMAIN r = 1 .. Len(r) /\ Len(q) \in Nat /\ Len(q) > 0
  BY HeadTailProperties
<1>2. Head(q) = q[1] /\ Head(q) \in Alert
  BY HeadTailProperties
<1>3. \A m \in Module : new[m] = IF m = q[1].mod THEN q[1].st ELSE said[m]
  BY <1>2 DEF Alert
<1>4. \A k \in DOMAIN r : r[k].mod \in Module
  <2>1. \A k \in DOMAIN r : r[k] \in Alert
    BY <1>1
  <2>2. QED
    BY <2>1 DEF Alert
<1> HIDE DEF r, new
<1> SUFFICES ASSUME NEW k \in DOMAIN r, ~r[k].again
             PROVE  /\ \A j \in 1 .. k - 1 :
                          r[j].mod = r[k].mod /\ (\A i \in j + 1 .. k - 1 : r[i].mod # r[k].mod)
                          => r[j].st # r[k].st
                    /\ (\A j \in 1 .. k - 1 : r[j].mod # r[k].mod) => new[r[k].mod] # r[k].st
  BY DEF News, r, new
<1>5. r[k] = q[k + 1] /\ k + 1 \in DOMAIN q /\ \A i \in 1 .. k - 1 : r[i] = q[i + 1]
  BY <1>1
<1>6. /\ \A j \in 1 .. k :
            q[j].mod = q[k + 1].mod /\ (\A i \in j + 1 .. k : q[i].mod # q[k + 1].mod)
            => q[j].st # q[k + 1].st
      /\ (\A j \in 1 .. k : q[j].mod # q[k + 1].mod) => said[q[k + 1].mod] # q[k + 1].st
  <2>1. (k + 1) - 1 = k
    BY <1>1
  <2>2. QED
    BY <1>5, <2>1 DEF News
<1>7. ASSUME NEW j \in 1 .. k - 1, r[j].mod = r[k].mod, \A i \in j + 1 .. k - 1 : r[i].mod # r[k].mod
      PROVE  r[j].st # r[k].st
  <2>1. j + 1 \in 1 .. k
    BY <1>1
  <2>2. \A i \in (j + 1) + 1 .. k : q[i].mod # q[k + 1].mod
    <3> SUFFICES ASSUME NEW i \in (j + 1) + 1 .. k
                 PROVE  q[i].mod # q[k + 1].mod
      OBVIOUS
    <3>1. i - 1 \in j + 1 .. k - 1 /\ i - 1 \in 1 .. k - 1 /\ (i - 1) + 1 = i
      BY <1>1
    <3>2. QED
      BY <1>5, <1>7, <3>1
  <2>3. q[j + 1].st # q[k + 1].st
    BY <1>5, <1>6, <1>7, <2>1, <2>2
  <2>4. QED
    BY <1>5, <2>3
<1>8. ASSUME \A j \in 1 .. k - 1 : r[j].mod # r[k].mod
      PROVE  new[r[k].mod] # r[k].st
  <2>1. \A i \in 2 .. k : q[i].mod # q[k + 1].mod
    <3> SUFFICES ASSUME NEW i \in 2 .. k
                 PROVE  q[i].mod # q[k + 1].mod
      OBVIOUS
    <3>1. i - 1 \in 1 .. k - 1 /\ (i - 1) + 1 = i
      BY <1>1
    <3>2. QED
      BY <1>5, <1>8, <3>1
  <2>2. CASE q[1].mod = r[k].mod
    <3>1. 1 \in 1 .. k /\ 1 + 1 .. k = 2 .. k
      BY <1>1
    <3>2. q[1].st # q[k + 1].st
      BY <1>5, <1>6, <2>1, <2>2, <3>1
    <3>3. QED
      BY <1>3, <1>4, <1>5, <2>2, <3>2
  <2>3. CASE q[1].mod # r[k].mod
    <3>1. \A j \in 1 .. k : q[j].mod # q[k + 1].mod
      BY <1>1, <1>5, <2>1, <2>3
    <3>2. QED
      BY <1>3, <1>4, <1>5, <1>6, <2>3, <3>1
  <2>4. QED
    BY <2>2, <2>3
<1>9. QED
  BY <1>7, <1>8
-----------------------------------------------------------------------------
(* Who is at work.  Clear of the races, one monitor at a time is; what is   *)
(* unsaved is the persistent monitor's, and what is unsent will be sent.     *)

Clear == {"monitors", "run_now", "purge", "reads", "clear", "stale"} \subseteq Excluded

Busy(g) == ~Quiet(g) \/ cycle.mon = g

Alone == \A g, h \in Monitor : Busy(g) /\ Busy(h) => g = h

\* A monitor at work has its notifier; only the persistent one has something
\* unsaved; buffered alerts have a run_checks or a straggler that will flush them.
TidyOK(g) ==
    /\ Busy(g) \/ g = cur => open[g]
    /\ unsaved[g] # {} => g = cur
    /\ buf[g] # << >> => g = cycle.mon \/ Inflight(g) # {} \/ tail[g] # {}
Tidy == \A g \in Monitor : TidyOK(g)

\* Only the persistent monitor purges, and while it writes nothing of it runs.
PurgeOK ==
    /\ cycle.pc \in {"purge", "write"} => cycle.mon = cur
    /\ cycle.pc = "write" => Inflight(cycle.mon) = {}

\* A clear is of the persistent monitor, which is there until it has written.
Pinned == clearing.mon \in {None, cur}

Order == Alone /\ Tidy /\ PurgeOK /\ Pinned

LEMMA BusyOnly ==
    ASSUME Alone, \A h \in Monitor : Busy(h)' => Busy(h)
    PROVE  Alone'
BY DEF Alone

\* A run under way makes its monitor busy.
LEMMA RunIsBusy ==
    ASSUME NEW g \in Monitor, NEW m \in Module, run[g][m].pc # "idle"
    PROVE  Busy(g) /\ m \in Inflight(g)
BY DEF Busy, Quiet, Inflight

\* Where a monitor may begin, no other is at work.
LEMMA TurnIsAlone ==
    ASSUME Clear, NEW g \in Monitor, Turn(g), cycle.mon \in {None, g}
    PROVE  \A h \in Monitor \ {g} : ~Busy(h)
BY MonitorAssumption DEF Clear, Turn, Busy

\* What a step on one run leaves in flight.
LEMMA InflightAfter ==
    ASSUME NEW g \in Monitor, NEW m \in Module, run[g][m].pc # "idle",
           \A h \in Monitor, k \in Module : h # g \/ k # m => run'[h][k] = run[h][k]
    PROVE  /\ \A h \in Monitor \ {g} : Inflight(h)' = Inflight(h)
           /\ Inflight(g)' \cup {m} = Inflight(g)
BY DEF Inflight

LEMMA BuildBusy ==
    ASSUME TypeOK, Tidy, NEW g \in Monitor, Unused(g), UNCHANGED <<run, tail>>,
           unsaved' = [unsaved EXCEPT ![g] = {}], buf' = [buf EXCEPT ![g] = << >>]
    PROVE  /\ Quiet(g) /\ Quiet(g)' /\ buf' = buf /\ unsaved' = unsaved
           /\ \A h \in Monitor : Quiet(h)' <=> Quiet(h)
<1>1. unsaved[g] = {} /\ buf[g] = << >> /\ Inflight(g) = {} /\ tail[g] = {}
  BY DEF Tidy, TidyOK, Unused
<1>2. buf' = buf /\ unsaved' = unsaved
  BY <1>1 DEF TypeOK
<1>3. \A h \in Monitor : Inflight(h)' = Inflight(h)
  BY DEF Inflight
<1>4. QED
  BY <1>1, <1>2, <1>3 DEF Quiet

\* A clear leaves what is unsaved and unsent, whatever monitor it builds.
LEMMA ClearKeeps ==
    ASSUME TypeOK, Tidy, Clears
    PROVE  UNCHANGED <<run, tail, cycle, unsaved, buf>>
<1>1. UNCHANGED <<run, tail, cycle>>
  BY ClearFrame
<1>2. CASE UNCHANGED <<unsaved, buf>>
  BY <1>1, <1>2
<1>3. ASSUME NEW g \in Monitor, Unused(g), unsaved' = [unsaved EXCEPT ![g] = {}],
             buf' = [buf EXCEPT ![g] = << >>]
      PROVE  UNCHANGED <<unsaved, buf>>
  BY <1>1, <1>3, BuildBusy
<1>4. UNCHANGED <<unsaved, buf>>
  BY <1>2, <1>3 DEF Clears, ClearStep, ClearStatus, ClearBuild, ClearWrite, ClearTable, status, alerts
<1>5. QED
  BY <1>1, <1>4

\* A run goes on, or is over.
LEMMA RunGoesOn ==
    ASSUME Inv, NEW g \in Monitor, NEW m \in Module, Probe(g, m) \/ Land(g, m)
    PROVE  /\ run[g][m].pc # "idle" /\ run'[g][m].pc # "idle"
           /\ \A h \in Monitor, k \in Module : h # g \/ k # m => run'[h][k] = run[h][k]
<1>0. TypeOK /\ RunOK(g, m) /\ run[g][m] \in Run
  BY DEF Inv, TypeOK, Runs
<1>1. CASE Probe(g, m)
  <2>1. run'[g][m].pc = "probed" /\ \A h \in Monitor, k \in Module : h # g \/ k # m => run'[h][k] = run[h][k]
    BY <1>0, <1>1, ProbeType
  <2>2. run[g][m].pc = "waiting"
    BY <1>1 DEF Probe
  <2>3. QED
    BY <2>1, <2>2
<1>2. CASE Land(g, m)
  <2>1. \A h \in Monitor, k \in Module :
           run'[h][k] = IF h = g /\ k = m THEN [run[g][m] EXCEPT !.pc = "saved"] ELSE run[h][k]
    BY <1>0, <1>2, LandType
  <2>2. run'[g][m] = [run[g][m] EXCEPT !.pc = "saved"]
    BY <2>1
  <2>3. run'[g][m].pc = "saved"
    BY <1>0, <2>2 DEF Run
  <2>4. run[g][m].pc = "probed"
    BY <1>2 DEF Land
  <2>5. QED
    BY <2>1, <2>3, <2>4
<1>3. QED
  BY <1>1, <1>2

LEMMA RunEnds ==
    ASSUME Inv, NEW g \in Monitor, NEW m \in Module, Fail(g, m) \/ Record(g, m)
    PROVE  /\ run[g][m].pc # "idle" /\ run'[g][m].pc = "idle"
           /\ \A h \in Monitor, k \in Module : h # g \/ k # m => run'[h][k] = run[h][k]
           /\ run[g][m].late => m \in tail'[g]
           /\ ~run[g][m].late => cycle.mon = g
           /\ \A h \in Monitor : tail[h] \subseteq tail'[h] /\ (h # g => tail'[h] = tail[h])
<1>1. Finish(g, m) /\ run[g][m].pc \in {"waiting", "saved"} /\ TypeOK /\ RunOK(g, m)
  BY DEF Fail, Record, Inv, Runs
<1>2. \A h \in Monitor, k \in Module : run'[h][k] = IF h = g /\ k = m THEN Idle ELSE run[h][k]
  BY <1>1, FinishType
<1>3. run'[g][m].pc = "idle"
  BY <1>2, IdleIsRun
<1>4. \A h \in Monitor : tail'[h] = IF h = g /\ run[g][m].late THEN tail[h] \cup {m} ELSE tail[h]
  BY <1>1 DEF Finish, TypeOK
<1>5. ~run[g][m].late => cycle.mon = g
  BY <1>1 DEF RunOK
<1>6. QED
  BY <1>1, <1>2, <1>3, <1>4, <1>5

LEMMA ReadInflight ==
    ASSUME Inv, Read
    PROVE  /\ cycle.mon \in Monitor
           /\ \A h \in Monitor : h # cycle.mon => Inflight(h)' = Inflight(h)
           /\ \A h \in Monitor : Inflight(h) \subseteq Inflight(h)'
<1>1. TypeOK /\ cycle.mon \in Monitor
  BY CycleHasMonitor DEF Inv, Read
<1>2. \A h \in Monitor, k \in Module :
                 run'[h][k] = IF h = cycle.mon /\ run[h][k].pc = "idle" THEN [Idle EXCEPT !.pc = "waiting"]
                              ELSE run[h][k]
  BY <1>1, ReadType
<1>3. QED
  BY <1>1, <1>2 DEF Inflight

LEMMA DeadlineInflight ==
    ASSUME Inv, Deadline
    PROVE  /\ cycle.mon \in Monitor
           /\ \A h \in Monitor : h # cycle.mon => Inflight(h)' = Inflight(h)
           /\ \A h \in Monitor : Inflight(h)' \subseteq Inflight(h)
<1>1. TypeOK /\ cycle.mon \in Monitor
  BY CycleHasMonitor DEF Inv, Deadline
<1>2. \A h \in Monitor \ {cycle.mon}, k \in Module : run'[h][k] = run[h][k]
  BY <1>1, DeadlineRuns
<1>3. \A k \in Module : run'[cycle.mon][k] = Idle \/ run[cycle.mon][k].pc # "idle"
  BY <1>1, DeadlineRuns
<1>4. QED
  BY <1>1, <1>2, <1>3, IdleIsRun DEF Inflight

\* No step makes a monitor busy but the start of a run_checks.
LEMMA BusyStep ==
    ASSUME Inv, Tidy, [Next]_vars, ~ \E g \in Monitor : StartCycle(g) \/ RunChecks(g)
    PROVE  \A h \in Monitor : Busy(h)' => Busy(h)
<1>0. TypeOK /\ TypeOK' /\ CycleOK
  BY TypeStep DEF Inv
<1>1. ASSUME NEW g \in Monitor, NEW m \in Module, Probe(g, m) \/ Land(g, m) \/ Fail(g, m) \/ Record(g, m),
             NEW h \in Monitor, Busy(h)'
      PROVE  Busy(h)
  <2>1. CASE h = g
    BY <1>1, <2>1, RunGoesOn, RunEnds, RunIsBusy
  <2>2. CASE h # g
    <3>1. run[g][m].pc # "idle" /\ \A k \in Module : run'[h][k] = run[h][k]
      BY <1>1, <2>2, RunGoesOn, RunEnds
    <3>2. Inflight(h)' = Inflight(h)
      BY <3>1 DEF Inflight
    <3>3. UNCHANGED <<cycle, tail[h], unsaved[h], buf[h]>>
      <4>1. CASE Probe(g, m)
        BY <4>1 DEF Probe, status, alerts
      <4>2. CASE Land(g, m)
        <5>1. UNCHANGED <<cycle, tail>>
          BY <4>2 DEF Land
        <5>2. unsaved'[h] = unsaved[h]
          BY <1>0, <2>2, <4>2 DEF Land, TypeOK
        <5>3. buf'[h] = buf[h]
          BY <1>0, <2>2, <4>2 DEF Land, TypeOK
        <5>4. QED
          BY <5>1, <5>2, <5>3
      <4>3. CASE Fail(g, m) \/ Record(g, m)
        BY <2>2, <4>3, RunEnds DEF Fail, Record, status, alerts
      <4>4. QED
        BY <1>1, <4>1, <4>2, <4>3
    <3>4. QED
      BY <1>1, <3>2, <3>3 DEF Busy, Quiet
  <2>3. QED
    BY <2>1, <2>2
<1>2. ASSUME NEW g \in Monitor, NEW m \in Module, Late(g, m), NEW h \in Monitor, Busy(h)'
      PROVE  Busy(h)
  <2>1. Inflight(h)' = Inflight(h) /\ UNCHANGED <<cycle, unsaved>>
    BY <1>2 DEF Late, Inflight, status
  <2>2. CASE h = g
    BY <1>2, <2>2 DEF Late, Busy, Quiet
  <2>3. CASE h # g
    <3>1. tail'[h] = tail[h] /\ buf'[h] = buf[h]
      BY <1>0, <1>2, <2>3 DEF Late, FlushLater, TypeOK
    <3>2. QED
      BY <1>2, <2>1, <3>1 DEF Busy, Quiet
  <2>4. QED
    BY <2>2, <2>3
<1>3. ASSUME EndCycle, NEW h \in Monitor, Busy(h)'
      PROVE  Busy(h)
  <2>1. Inflight(h)' = Inflight(h) /\ UNCHANGED <<tail, unsaved>> /\ cycle'.mon = None
    BY <1>3 DEF EndCycle, Inflight, status, NoCycle
  <2>2. h # cycle.mon => buf'[h] = buf[h]
    BY <1>0, <1>3 DEF EndCycle, FlushLater, TypeOK
  <2>3. QED
    BY <1>3, <2>1, <2>2, MonitorAssumption DEF Busy, Quiet
<1>4. ASSUME Read, NEW h \in Monitor, Busy(h)'
      PROVE  Busy(h)
  <2>1. h # cycle.mon => Inflight(h)' = Inflight(h)
    BY <1>4, ReadInflight
  <2>2. UNCHANGED <<tail, unsaved, buf>> /\ cycle'.mon = cycle.mon
    BY <1>0, <1>4 DEF Read, alerts, TypeOK
  <2>3. QED
    BY <1>4, <2>1, <2>2 DEF Busy, Quiet
<1>5. ASSUME Deadline, NEW h \in Monitor, Busy(h)'
      PROVE  Busy(h)
  <2>1. Inflight(h)' \subseteq Inflight(h)
    BY <1>5, DeadlineInflight
  <2>2. UNCHANGED <<tail, unsaved, buf>> /\ cycle'.mon = cycle.mon
    BY <1>0, <1>5 DEF Deadline, alerts, status, TypeOK
  <2>3. QED
    BY <1>5, <2>1, <2>2 DEF Busy, Quiet
<1>6. ASSUME Purge \/ PurgeWrite, NEW h \in Monitor, Busy(h)'
      PROVE  Busy(h)
  <2>1. cycle' = [cycle EXCEPT !.pc = "read"] \/ cycle' = [cycle EXCEPT !.pc = "write"]
    BY <1>6 DEF Purge, PurgeWrite
  <2>2. UNCHANGED <<run, tail, unsaved, buf>> /\ cycle'.mon = cycle.mon
    BY <1>0, <1>6, <2>1 DEF Purge, PurgeWrite, alerts, TypeOK
  <2>3. QED
    BY <1>6, <2>2 DEF Busy, Quiet, Inflight
<1>7. ASSUME Clears, NEW h \in Monitor, Busy(h)'
      PROVE  Busy(h)
  <2>1. UNCHANGED <<run, tail, cycle, unsaved, buf>>
    BY <1>0, <1>7, ClearKeeps
  <2>2. QED
    BY <1>7, <2>1 DEF Busy, Quiet, Inflight
<1>8. ASSUME UNCHANGED <<run, tail, unsaved, buf, cycle>>, NEW h \in Monitor, Busy(h)'
      PROVE  Busy(h)
  BY <1>8 DEF Busy, Quiet, Inflight
<1>9. QED
  BY <1>1, <1>2, <1>3, <1>4, <1>5, <1>6, <1>7, <1>8
  DEF Next, CycleStep, ModuleStep, Clears, World, Send, Dispose, status, alerts, vars

\* run_checks begins on a monitor alone at work.
LEMMA StartAlone ==
    ASSUME Clear, Inv, Tidy, NEW g \in Monitor, StartCycle(g) \/ RunChecks(g)
    PROVE  /\ \A h \in Monitor \ {g} : ~Busy(h) /\ ~Busy(h)'
           /\ cycle'.mon = g /\ cycle = NoCycle
           /\ UNCHANGED <<run, tail, buf, unsaved, stored, snap, clearing, outbox, heard, forgot>>
<1>0. TypeOK /\ cycle = NoCycle /\ cycle'.mon = g
  BY DEF Inv, StartCycle, RunChecks
<1>1. Turn(g)
  BY DEF StartCycle, RunChecks, Build
<1>2. \A h \in Monitor \ {g} : ~Busy(h)
  BY <1>0, <1>1, TurnIsAlone DEF NoCycle
<1>3. CASE Build(g)
  <2>1. Unused(g) /\ UNCHANGED <<run, tail>> /\ unsaved' = [unsaved EXCEPT ![g] = {}]
        /\ buf' = [buf EXCEPT ![g] = << >>] /\ UNCHANGED <<stored, snap, clearing, outbox, heard, forgot>>
    BY <1>3 DEF Build
  <2>2. buf' = buf /\ unsaved' = unsaved /\ \A h \in Monitor : Quiet(h)' <=> Quiet(h)
    BY <1>0, <2>1, BuildBusy
  <2>3. QED
    BY <1>0, <1>2, <2>1, <2>2 DEF Busy
<1>4. CASE ~Build(g)
  <2>1. UNCHANGED <<run, tail, unsaved, buf, stored, snap, clearing, outbox, heard, forgot>>
    BY <1>4 DEF StartCycle, RunChecks, status, alerts
  <2>2. \A h \in Monitor : Quiet(h)' <=> Quiet(h)
    BY <2>1 DEF Quiet, Inflight
  <2>3. QED
    BY <1>0, <1>2, <2>1, <2>2 DEF Busy
<1>5. QED
  BY <1>3, <1>4

LEMMA AloneStep ==
    ASSUME Clear, Inv, Order, [Next]_vars
    PROVE  Alone'
<1>1. CASE \E g \in Monitor : StartCycle(g) \/ RunChecks(g)
  <2>1. PICK g \in Monitor : \A h \in Monitor \ {g} : ~Busy(h)'
    BY <1>1, StartAlone DEF Order
  <2>2. QED
    BY <2>1 DEF Alone
<1>2. CASE ~ \E g \in Monitor : StartCycle(g) \/ RunChecks(g)
  BY <1>2, BusyStep, BusyOnly DEF Order
<1>3. QED
  BY <1>1, <1>2

LEMMA TidyStep ==
    ASSUME Clear, Inv, Order, [Next]_vars
    PROVE  Tidy'
<1>0. TypeOK /\ TypeOK' /\ CycleOK /\ Tidy /\ None \notin Monitor
  BY TypeStep, MonitorAssumption DEF Inv, Order
<1> SUFFICES ASSUME NEW h \in Monitor
             PROVE  TidyOK(h)'
  BY DEF Tidy
<1>h. TidyOK(h)
  BY <1>0 DEF Tidy
<1>1. ASSUME NEW g \in Monitor, StartCycle(g) \/ RunChecks(g)
      PROVE  TidyOK(h)'
  <2>1. /\ \A i \in Monitor \ {g} : ~Busy(i) /\ ~Busy(i)'
        /\ cycle'.mon = g /\ cycle = NoCycle /\ UNCHANGED <<run, tail, buf, unsaved>>
    BY <1>0, <1>1, StartAlone
  <2>2. cur' = cur \/ (cur = None /\ cur' = g)
    BY <1>1 DEF StartCycle, RunChecks
  <2>3. Inflight(h)' = Inflight(h)
    BY <2>1 DEF Inflight
  <2>4. Busy(h)' \/ h = cur' => open'[h]
    <3>1. CASE Build(g)
      <4>1. open' = [open EXCEPT ![g] = TRUE]
        BY <3>1 DEF Build
      <4>2. QED
        BY <1>0, <1>h, <2>1, <2>2, <4>1 DEF TypeOK, TidyOK
    <3>2. CASE ~Build(g)
      <4>1. g = cur /\ UNCHANGED <<open, cur>>
        BY <1>1, <3>2 DEF StartCycle, RunChecks
      <4>2. QED
        BY <1>0, <1>h, <2>1, <4>1 DEF TidyOK
    <3>3. QED
      BY <3>1, <3>2
  <2>5. unsaved'[h] # {} => h = cur'
    BY <1>0, <1>h, <2>1, <2>2 DEF TidyOK
  <2>6. buf'[h] # << >> => h = cycle'.mon \/ Inflight(h)' # {} \/ tail'[h] # {}
    BY <1>0, <1>h, <2>1, <2>3 DEF TidyOK, NoCycle
  <2>7. QED
    BY <2>4, <2>5, <2>6 DEF TidyOK
<1>2. ASSUME NEW g \in Monitor, NEW m \in Module, Fail(g, m) \/ Record(g, m)
      PROVE  TidyOK(h)'
  <2>1. UNCHANGED <<cur, open, unsaved, buf, cycle>>
    BY <1>2 DEF Fail, Record, status, alerts
  <2>2. Busy(h)' => Busy(h)
    <3>1. ~ \E i \in Monitor : StartCycle(i) \/ RunChecks(i)
      BY <1>0, <2>1 DEF StartCycle, RunChecks, NoCycle
    <3>2. QED
      BY <1>0, <3>1, BusyStep
  <2>3. tail[h] \subseteq tail'[h]
    BY <1>2, RunEnds
  <2>4. Inflight(h) # {} => Inflight(h)' # {} \/ tail'[h] # {} \/ h = cycle.mon
    <3>1. CASE h = g
      <4>1. m \in tail'[g] \/ cycle.mon = g
        BY <1>2, RunEnds
      <4>2. QED
        BY <3>1, <4>1
    <3>2. CASE h # g
      <4>1. \A k \in Module : run'[h][k] = run[h][k]
        BY <1>2, <3>2, RunEnds
      <4>2. QED
        BY <4>1 DEF Inflight
    <3>3. QED
      BY <3>1, <3>2
  <2>5. QED
    BY <1>h, <2>1, <2>2, <2>3, <2>4 DEF TidyOK
<1>3. ASSUME NEW g \in Monitor, NEW m \in Module, Land(g, m)
      PROVE  TidyOK(h)'
  <2>1. UNCHANGED <<cur, open, tail, cycle>>
    BY <1>3 DEF Land
  <2>2. /\ run[g][m].pc # "idle" /\ run'[g][m].pc # "idle"
        /\ \A i \in Monitor, k \in Module : i # g \/ k # m => run'[i][k] = run[i][k]
    BY <1>3, RunGoesOn
  <2>3. Inflight(h)' = Inflight(h)
    BY <2>2 DEF Inflight
  <2>4. CASE h = g
    <3>1. Busy(g) /\ open[g]
      BY <1>h, <2>2, <2>4, RunIsBusy DEF TidyOK
    <3>2. Inflight(g) # {}
      BY <2>2 DEF Inflight
    <3>3. unsaved'[g] # {} => g = cur
      <4>1. unsaved'[g] \subseteq unsaved[g] \/ g = cur
        BY <1>0, <1>3 DEF Land, Clear, TypeOK
      <4>2. QED
        BY <1>h, <2>4, <4>1 DEF TidyOK
    <3>4. QED
      BY <2>1, <2>3, <2>4, <3>1, <3>2, <3>3 DEF TidyOK
  <2>5. CASE h # g
    <3>1. unsaved'[h] = unsaved[h] /\ buf'[h] = buf[h]
      BY <1>0, <1>3, <2>5 DEF Land, TypeOK
    <3>2. QED
      BY <1>h, <2>1, <2>3, <3>1 DEF TidyOK, Busy, Quiet
  <2>6. QED
    BY <2>4, <2>5
<1>4. ASSUME NEW g \in Monitor, NEW m \in Module, Late(g, m)
      PROVE  TidyOK(h)'
  <2>1. UNCHANGED <<cur, open, unsaved, cycle, run>> /\ FlushLater(g) /\ tail' = [tail EXCEPT ![g] = @ \ {m}]
    BY <1>4 DEF Late, status
  <2>2. Busy(h)' => Busy(h)
    <3>1. ~ \E i \in Monitor : StartCycle(i) \/ RunChecks(i)
      BY <1>0, <2>1 DEF StartCycle, RunChecks, NoCycle
    <3>2. QED
      BY <1>0, <3>1, BusyStep
  <2>3. Inflight(h)' = Inflight(h)
    BY <2>1 DEF Inflight
  <2>4. CASE h = g
    <3>1. Busy(g)
      BY <1>4 DEF Late, Busy, Quiet
    <3>2. open[g]
      BY <1>h, <2>4, <3>1 DEF TidyOK
    <3>3. buf'[g] = << >>
      BY <1>0, <2>1, <3>2 DEF FlushLater, TypeOK
    <3>4. QED
      BY <1>h, <2>1, <2>2, <2>4, <3>3 DEF TidyOK
  <2>5. CASE h # g
    <3>1. buf'[h] = buf[h] /\ tail'[h] = tail[h]
      BY <1>0, <2>1, <2>5 DEF FlushLater, TypeOK
    <3>2. QED
      BY <1>h, <2>1, <2>2, <2>3, <3>1 DEF TidyOK
  <2>6. QED
    BY <2>4, <2>5
<1>5. ASSUME EndCycle
      PROVE  TidyOK(h)'
  <2>1. UNCHANGED <<cur, open, unsaved, run, tail>> /\ FlushLater(cycle.mon) /\ cycle' = NoCycle
    BY <1>5 DEF EndCycle, status
  <2>2. Busy(h)' => Busy(h)
    <3>1. cycle # NoCycle
      BY <1>5 DEF EndCycle, NoCycle
    <3>2. QED
      BY <1>0, <1>5, <3>1, BusyStep DEF Next, CycleStep, StartCycle, RunChecks, Order
  <2>3. Inflight(h)' = Inflight(h)
    BY <2>1 DEF Inflight
  <2>4. CASE h = cycle.mon
    <3>1. open[h]
      BY <1>h, <2>4 DEF TidyOK, Busy
    <3>2. buf'[h] = << >>
      BY <1>0, <2>1, <2>4, <3>1 DEF FlushLater, TypeOK
    <3>3. QED
      BY <1>h, <2>1, <2>2, <3>2 DEF TidyOK
  <2>5. CASE h # cycle.mon
    <3>1. buf'[h] = buf[h]
      BY <1>0, <2>1, <2>5 DEF FlushLater, TypeOK
    <3>2. QED
      BY <1>h, <2>1, <2>2, <2>3, <2>5, <3>1 DEF TidyOK
  <2>6. QED
    BY <2>4, <2>5
<1>6. ASSUME Purge \/ PurgeWrite \/ Read \/ Deadline
      PROVE  TidyOK(h)'
  <2>1. UNCHANGED <<cur, open, unsaved, tail, buf>>
    BY <1>6 DEF Purge, PurgeWrite, Read, Deadline, alerts, status
  <2>2. cycle'.mon = cycle.mon
    <3>1. \E p \in {"read", "write", "run", "flush"} : cycle' = [cycle EXCEPT !.pc = p]
      BY <1>6 DEF Purge, PurgeWrite, Read, Deadline
    <3>2. QED
      BY <1>0, <3>1 DEF TypeOK
  <2>3. Busy(h)' => Busy(h)
    <3>1. cycle # NoCycle
      BY <1>6 DEF Purge, PurgeWrite, Read, Deadline, NoCycle
    <3>2. QED
      BY <1>0, <1>6, <3>1, BusyStep DEF Next, CycleStep, StartCycle, RunChecks, Order
  <2>4. Inflight(h)' = Inflight(h) \/ h = cycle.mon
    <3>1. CASE Read
      BY <3>1, ReadInflight
    <3>2. CASE Deadline
      BY <3>2, DeadlineInflight
    <3>3. CASE Purge \/ PurgeWrite
      BY <3>3 DEF Purge, PurgeWrite, Inflight
    <3>4. QED
      BY <1>6, <3>1, <3>2, <3>3
  <2>5. QED
    BY <1>h, <2>1, <2>2, <2>3, <2>4 DEF TidyOK
<1>7. ASSUME Dispose
      PROVE  TidyOK(h)'
  <2>1. /\ cur # None /\ Quiet(cur) /\ cycle.mon # cur /\ cur' = None /\ open' = [open EXCEPT ![cur] = FALSE]
        /\ UNCHANGED <<unsaved, run, tail, buf, cycle>>
    BY <1>7 DEF Dispose, Clear, status, alerts
  <2>2. Busy(h)' = Busy(h) /\ Inflight(h)' = Inflight(h)
    BY <2>1 DEF Busy, Quiet, Inflight
  <2>3. CASE h = cur
    <3>1. ~Busy(h) /\ unsaved[h] = {} /\ buf[h] = << >>
      BY <2>1, <2>3 DEF Busy, Quiet
    <3>2. QED
      BY <1>0, <2>1, <2>2, <3>1 DEF TidyOK
  <2>4. CASE h # cur
    <3>1. open'[h] = open[h]
      BY <1>0, <2>1, <2>4 DEF TypeOK
    <3>2. QED
      BY <1>0, <1>h, <2>1, <2>2, <2>4, <3>1 DEF TidyOK
  <2>5. QED
    BY <2>3, <2>4
<1>8. ASSUME Clears
      PROVE  TidyOK(h)'
  <2>1. UNCHANGED <<run, tail, cycle, unsaved, buf>>
    BY <1>0, <1>8, ClearKeeps
  <2>2. Inflight(h)' = Inflight(h) /\ (Busy(h)' <=> Busy(h))
    BY <2>1 DEF Inflight, Busy, Quiet
  <2>3. \/ UNCHANGED <<cur, open>>
        \/ \E g \in Monitor : cur = None /\ cur' = g /\ open' = [open EXCEPT ![g] = TRUE]
    BY <1>8 DEF Clears, ClearStep, ClearStatus, ClearBuild, ClearWrite, ClearTable
  <2>4. QED
    BY <1>0, <1>h, <2>1, <2>2, <2>3 DEF TidyOK, TypeOK
<1>9. ASSUME UNCHANGED <<cur, open, unsaved, buf, tail, cycle>>, Inflight(h)' = Inflight(h)
      PROVE  TidyOK(h)'
  BY <1>9, <1>h DEF TidyOK, Busy, Quiet
<1>10. ASSUME NEW g \in Monitor, NEW m \in Module, Probe(g, m)
       PROVE  TidyOK(h)'
  <2>1. UNCHANGED <<cur, open, unsaved, buf, tail, cycle>>
    BY <1>10 DEF Probe, alerts, status
  <2>2. Inflight(h)' = Inflight(h)
    BY <1>10, RunGoesOn DEF Inflight
  <2>3. QED
    BY <1>9, <2>1, <2>2
<1>11. CASE (\E m \in Module : World(m)) \/ Send \/ UNCHANGED vars
  <2>1. UNCHANGED <<cur, open, unsaved, buf, tail, cycle, run>>
    BY <1>11 DEF World, Send, vars, status, alerts
  <2>2. QED
    BY <1>9, <2>1 DEF Inflight
<1>12. QED
  BY <1>1, <1>2, <1>3, <1>4, <1>5, <1>6, <1>7, <1>8, <1>10, <1>11 DEF Next, CycleStep, ModuleStep, Clears

LEMMA PurgeOKStep ==
    ASSUME Clear, Inv, Order, [Next]_vars
    PROVE  PurgeOK'
<1>0. TypeOK /\ CycleOK /\ PurgeOK /\ Tidy /\ None \notin Monitor
  BY MonitorAssumption DEF Inv, Order
<1>1. CASE \E g \in Monitor : StartCycle(g) \/ RunChecks(g)
  BY <1>1 DEF StartCycle, RunChecks, PurgeOK
<1>2. CASE Purge
  <2>1. cycle.mon = cur /\ UNCHANGED <<cur, run>>
    BY <1>0, <1>2 DEF Purge, PurgeOK
  <2>2. \/ cycle' = [cycle EXCEPT !.pc = "read"]
        \/ cycle' = [cycle EXCEPT !.pc = "write"] /\ Inflight(cycle.mon) = {}
    BY <1>2 DEF Purge, Clear
  <2>3. QED
    BY <1>0, <2>1, <2>2 DEF PurgeOK, TypeOK, Inflight
<1>3. CASE PurgeWrite \/ Read \/ Deadline \/ EndCycle
  <2>1. \/ \E p \in {"read", "run", "flush"} : cycle' = [cycle EXCEPT !.pc = p]
        \/ cycle' = NoCycle
    BY <1>3 DEF PurgeWrite, Read, Deadline, EndCycle
  <2>2. cycle'.pc \notin {"purge", "write"}
    BY <1>0, <2>1 DEF TypeOK, NoCycle
  <2>3. QED
    BY <2>2 DEF PurgeOK
<1>4. ASSUME cycle' = cycle, cur' = cur, \A g \in Monitor : Inflight(g)' \subseteq Inflight(g)
      PROVE  PurgeOK'
  BY <1>0, <1>4, CycleHasMonitor DEF PurgeOK
<1>5. ASSUME NEW g \in Monitor, NEW m \in Module, Probe(g, m) \/ Land(g, m) \/ Fail(g, m) \/ Record(g, m)
      PROVE  PurgeOK'
  <2>1. UNCHANGED <<cycle, cur>>
    BY <1>5 DEF Probe, Land, Fail, Record
  <2>2. \A h \in Monitor : Inflight(h)' \subseteq Inflight(h)
    <3>1. /\ run[g][m].pc # "idle"
          /\ \A h \in Monitor, k \in Module : h # g \/ k # m => run'[h][k] = run[h][k]
      BY <1>5, RunGoesOn, RunEnds
    <3>2. QED
      BY <3>1 DEF Inflight
  <2>3. QED
    BY <1>4, <2>1, <2>2
<1>6. CASE Dispose
  <2>1. cycle.mon # cur /\ UNCHANGED cycle
    BY <1>6 DEF Dispose, Clear
  <2>2. QED
    BY <1>0, <2>1 DEF PurgeOK
<1>7. CASE Clears
  <2>1. UNCHANGED <<cycle, run>> /\ (cur' = cur \/ cur = None)
    BY <1>7, ClearFrame DEF Clears, ClearStep, ClearStatus, ClearBuild, ClearWrite, ClearTable
  <2>2. CASE cur' = cur
    BY <1>4, <2>1, <2>2 DEF Inflight
  <2>3. CASE cur = None
    <3>1. cycle.pc \notin {"purge", "write"}
      BY <1>0, <2>3 DEF PurgeOK, CycleOK
    <3>2. QED
      BY <2>1, <3>1 DEF PurgeOK
  <2>4. QED
    BY <2>1, <2>2, <2>3
<1>8. CASE UNCHANGED <<cycle, cur, run>>
  BY <1>4, <1>8 DEF Inflight
<1>9. QED
  BY <1>1, <1>2, <1>3, <1>5, <1>6, <1>7, <1>8
  DEF Next, CycleStep, ModuleStep, Clears, World, Late, Send, vars

LEMMA PinnedStep ==
    ASSUME Clear, Inv, Order, [Next]_vars
    PROVE  Pinned'
<1>0. TypeOK /\ Pinned /\ None \notin Monitor
  BY MonitorAssumption DEF Inv, Order
<1>1. CASE \E g \in Monitor : StartCycle(g) \/ RunChecks(g)
  <2>1. clearing' = clearing /\ (cur' = cur \/ cur = None)
    BY <1>1 DEF StartCycle, RunChecks, Build
  <2>2. QED
    BY <1>0, <2>1 DEF Pinned
<1>2. CASE Dispose
  <2>1. clearing' = clearing /\ clearing.mon # cur
    BY <1>2 DEF Dispose, Clear
  <2>2. QED
    BY <1>0, <2>1 DEF Pinned
<1>3. CASE \E g \in Monitor : ClearStatus(g)
  BY <1>3 DEF ClearStatus, Pinned, NoClear
<1>4. CASE ClearBuild
  <2>1. clearing'.mon = clearing.mon /\ cur' = cur
    BY <1>0, <1>4 DEF ClearBuild, TypeOK
  <2>2. QED
    BY <1>0, <2>1 DEF Pinned
<1>5. CASE ClearWrite
  BY <1>5 DEF ClearWrite, Pinned, NoClear
<1>6. CASE UNCHANGED <<cur, clearing>>
  BY <1>0, <1>6 DEF Pinned
<1>7. CASE ClearTable
  BY <1>6, <1>7 DEF ClearTable
<1>8. QED
  BY <1>1, <1>2, <1>3, <1>4, <1>5, <1>6, <1>7, PersistentKept DEF Clears, ClearStep

LEMMA OrderStep ==
    ASSUME Clear, Inv, Order, [Next]_vars
    PROVE  Order'
BY AloneStep, TidyStep, PurgeOKStep, PinnedStep DEF Order
-----------------------------------------------------------------------------
(* What is known, and what has been said of it.                             *)

\* A monitor goes by what is known of m, or the baseline of m was dropped.
InSync(g, m) == forgot[m] \/ mem[g][m] = Known(m)

\* A monitor with runs under way is in step with what is known.
Synced == \A g \in Monitor : Inflight(g) # {} => \A m \in Module : InSync(g, m)

\* So is what a purge is about to write over the table.
Written ==
    cycle.pc = "write" => \A m \in Module : forgot[m] \/ (snap[m] = mem[cur][m] /\ snap[m] = Known(m))

\* So are the rows a clear is about to write over the table and what they are built from,
\* but for those that are empty; and unless all are, no other monitor is at work.
Cleared ==
    clearing.mon # None =>
        /\ \A m \in Module : mem[cur][m] # "none" => InSync(cur, m)
        /\ \A m \in Module : clearing.rows[m] # "none" =>
              forgot[m] \/ (clearing.rows[m] = mem[cur][m] /\ clearing.rows[m] = Known(m))
        /\ \/ \A m \in Module : mem[cur][m] = "none" /\ clearing.rows[m] = "none"
           \/ \A h \in Monitor \ {cur} : ~Busy(h)

\* And so is the persistent monitor wherever its next purge will save.
PurgeReady ==
    cur # None /\ InMaintenance(cur) # {} =>
        /\ \A m \in Module : InSync(cur, m)
        /\ \A h \in Monitor \ {cur} : ~Busy(h)

\* The alerts on their way, with b the buffers of the monitors.
QueueOf(q, b) ==
    LET full == {g \in Monitor : b[g] # << >>}
    IN IF full = {} THEN q ELSE q \o b[CHOOSE g \in full : TRUE]
Queue == QueueOf(outbox, buf)

\* What is known to fail was last said to, and nothing else was.
Told ==
    \A m \in Module : ~forgot[m] =>
        (Known(m) = "down" <=> WordAfter(Queue, m, heard[m]) = "down")

\* No alert on its way repeats the one before it.
Fresh == News(Queue, heard)

ToldInv == Inv /\ Order /\ Synced /\ Written /\ Cleared /\ PurgeReady /\ Told /\ Fresh

LEMMA QueueIs ==
    ASSUME NEW q \in Seq(Alert), NEW b \in [Monitor -> Seq(Alert)], NEW g \in Monitor,
           \A h \in Monitor \ {g} : b[h] = << >>
    PROVE  QueueOf(q, b) = q \o b[g] /\ QueueOf(q, b) \in Seq(Alert)
<1>1. b[g] \in Seq(Alert)
  OBVIOUS
<1>2. q \o b[g] \in Seq(Alert)
  BY <1>1, ConcatProperties
<1>3. CASE b[g] = << >>
  <2>1. q \o b[g] = q
    BY <1>3, ConcatEmptySeq
  <2>2. {h \in Monitor : b[h] # << >>} = {}
    BY <1>3
  <2>3. QueueOf(q, b) = q
    BY <2>2 DEF QueueOf
  <2>4. QED
    BY <2>1, <2>3
<1>4. CASE b[g] # << >>
  <2>1. {h \in Monitor : b[h] # << >>} = {g}
    BY <1>4
  <2>2. (CHOOSE h \in {g} : TRUE) = g
    OBVIOUS
  <2>3. QueueOf(q, b) = q \o b[g]
    BY <2>1, <2>2 DEF QueueOf
  <2>4. QED
    BY <1>2, <2>3
<1>5. QED
  BY <1>3, <1>4

\* The buffers of all monitors but one are empty.
LEMMA OneBuffer ==
    ASSUME Alone
    PROVE  /\ \E g \in Monitor : \A h \in Monitor \ {g} : buf[h] = << >>
           /\ \A g \in Monitor : Busy(g) => \A h \in Monitor \ {g} : buf[h] = << >>
BY MonitorAssumption DEF Alone, Busy, Quiet

LEMMA QueueType ==
    ASSUME TypeOK, Alone
    PROVE  Queue \in Seq(Alert)
<1>1. PICK g \in Monitor : \A h \in Monitor \ {g} : buf[h] = << >>
  BY OneBuffer
<1>2. outbox \in Seq(Alert) /\ buf \in [Monitor -> Seq(Alert)]
  BY DEF TypeOK
<1>3. QED
  BY <1>1, <1>2, QueueIs DEF Queue

\* Flushing a buffer leaves the alerts on their way as they were.
LEMMA FlushQueue ==
    ASSUME Inv, Order, NEW g \in Monitor, Busy(g), FlushLater(g)
    PROVE  QueueOf(outbox', buf') = Queue
<1>0. outbox \in Seq(Alert) /\ buf \in [Monitor -> Seq(Alert)] /\ << >> \in Seq(Alert)
  BY DEF Inv, TypeOK
<1>1. open[g] /\ \A h \in Monitor \ {g} : buf[h] = << >>
  BY OneBuffer DEF Order, Tidy, TidyOK
<1>2. outbox' = outbox \o buf[g] /\ buf' = [buf EXCEPT ![g] = << >>]
  BY <1>1 DEF FlushLater
<1>3. Queue = outbox \o buf[g] /\ outbox \o buf[g] \in Seq(Alert)
  BY <1>0, <1>1, QueueIs DEF Queue
<1>4. buf' \in [Monitor -> Seq(Alert)] /\ buf'[g] = << >> /\ \A h \in Monitor \ {g} : buf'[h] = << >>
  BY <1>0, <1>1, <1>2
<1>5. QueueOf(outbox', buf') = outbox' \o buf'[g]
  BY <1>2, <1>3, <1>4, QueueIs
<1>6. outbox' \o << >> = outbox'
  BY <1>2, <1>3, ConcatEmptySeq
<1>7. QED
  BY <1>2, <1>3, <1>4, <1>5, <1>6

\* The first of the alerts on their way is the one sent next.
LEMMA SendQueue ==
    ASSUME Inv, Order, Send
    PROVE  /\ Queue # << >> /\ Head(Queue) = Head(outbox)
           /\ QueueOf(outbox', buf') = Tail(Queue)
<1>0. outbox \in Seq(Alert) /\ buf \in [Monitor -> Seq(Alert)] /\ outbox # << >>
      /\ buf' = buf /\ outbox' = Tail(outbox)
  BY DEF Inv, TypeOK, Send, status
<1>1. PICK g \in Monitor : \A h \in Monitor \ {g} : buf[h] = << >>
  BY OneBuffer DEF Order
<1>2. Tail(outbox) \in Seq(Alert) /\ buf[g] \in Seq(Alert)
  BY <1>0, HeadTailProperties
<1>3. Queue = outbox \o buf[g] /\ QueueOf(outbox', buf') = Tail(outbox) \o buf[g]
  BY <1>0, <1>1, <1>2, QueueIs DEF Queue
<1>4. Head(outbox \o buf[g]) = Head(outbox) /\ outbox \o buf[g] # << >>
  BY <1>0, <1>2, ConcatProperties
<1>5. Tail(outbox \o buf[g]) = Tail(outbox) \o buf[g]
  <2> DEFINE p == buf[g]
             l == Tail(outbox \o p)
             r == Tail(outbox) \o p
  <2>1. /\ Len(outbox \o p) = Len(outbox) + Len(p) /\ outbox \o p \in Seq(Alert)
        /\ \A i \in 1 .. Len(outbox) + Len(p) : (outbox \o p)[i] = IF i <= Len(outbox) THEN outbox[i] ELSE p[i - Len(outbox)]
    BY <1>0, <1>2, ConcatProperties
  <2>2. /\ Len(Tail(outbox)) = Len(outbox) - 1
        /\ \A i \in 1 .. Len(Tail(outbox)) : Tail(outbox)[i] = outbox[i + 1]
    BY <1>0, HeadTailProperties
  <2>3. /\ Len(r) = Len(Tail(outbox)) + Len(p) /\ r \in Seq(Alert)
        /\ \A i \in 1 .. Len(Tail(outbox)) + Len(p) :
              r[i] = IF i <= Len(Tail(outbox)) THEN Tail(outbox)[i] ELSE p[i - Len(Tail(outbox))]
    BY <1>2, ConcatProperties
  <2>4. /\ l \in Seq(Alert) /\ Len(l) = Len(outbox \o p) - 1
        /\ \A i \in 1 .. Len(l) : l[i] = (outbox \o p)[i + 1]
    BY <1>4, <2>1, HeadTailProperties
  <2>5. Len(outbox) \in Nat /\ Len(outbox) > 0 /\ Len(p) \in Nat
    BY <1>0, <1>2
  <2> HIDE DEF l, r, p
  <2>6. Len(l) = Len(r)
    BY <2>1, <2>2, <2>3, <2>4, <2>5
  <2>7. ASSUME NEW i \in 1 .. Len(l) PROVE l[i] = r[i]
    <3>1. /\ i \in Nat /\ i \in 1 .. Len(outbox) - 1 + Len(p)
          /\ i + 1 \in 1 .. Len(outbox) + Len(p)
      BY <2>1, <2>4, <2>5
    <3>2. l[i] = IF i + 1 <= Len(outbox) THEN outbox[i + 1] ELSE p[i + 1 - Len(outbox)]
      BY <2>1, <2>4, <3>1
    <3>3. r[i] = IF i <= Len(outbox) - 1 THEN Tail(outbox)[i] ELSE p[i - (Len(outbox) - 1)]
      BY <2>2, <2>3, <3>1
    <3>4. CASE i <= Len(outbox) - 1
      <4>1. Tail(outbox)[i] = outbox[i + 1] /\ i + 1 <= Len(outbox)
        BY <2>2, <2>5, <3>1, <3>4
      <4>2. QED
        BY <3>2, <3>3, <3>4, <4>1
    <3>5. CASE ~ (i <= Len(outbox) - 1)
      <4>1. i - (Len(outbox) - 1) = i + 1 - Len(outbox) /\ ~ (i + 1 <= Len(outbox))
        BY <2>5, <3>1, <3>5
      <4>2. QED
        BY <3>2, <3>3, <3>5, <4>1
    <3>6. QED
      BY <3>4, <3>5
  <2>8. l = r
    BY <2>3, <2>4, <2>6, <2>7, SeqEqual
  <2>9. QED
    BY <2>8 DEF l, r, p
<1>6. QED
  BY <1>3, <1>4, <1>5

\* What landing adds to them.
LEMMA LandQueue ==
    ASSUME Inv, Order, NEW g \in Monitor, NEW m \in Module, Land(g, m)
    PROVE  IF Announces(g, m, run[g][m].obs)
           THEN QueueOf(outbox', buf') = Append(Queue, [mod |-> m, st |-> run[g][m].obs, again |-> forgot[m]])
           ELSE QueueOf(outbox', buf') = Queue
<1> DEFINE a == [mod |-> m, st |-> run[g][m].obs, again |-> forgot[m]]
<1>0. outbox \in Seq(Alert) /\ buf \in [Monitor -> Seq(Alert)] /\ outbox' = outbox
  BY DEF Inv, TypeOK, Land
<1>1. Busy(g)
  BY RunIsBusy DEF Land
<1>2. \A h \in Monitor \ {g} : buf[h] = << >>
  BY <1>1, OneBuffer DEF Order
<1>3. Queue = outbox \o buf[g]
  BY <1>0, <1>2, QueueIs DEF Queue
<1>4. CASE Announces(g, m, run[g][m].obs)
  <2>1. buf' = [buf EXCEPT ![g] = Append(@, a)]
    BY <1>4 DEF Land
  <2>2. buf' \in [Monitor -> Seq(Alert)]
    BY LandType DEF Inv, Runs, TypeOK
  <2>3. a \in Alert
    <3>1. run[g][m] \in Run /\ run[g][m].obs # "none" /\ run[g][m].obs # "maint"
      BY <1>4 DEF Inv, Runs, RunOK, TypeOK, Land, Announces
    <3>2. run[g][m].obs \in {"up", "down"}
      BY <3>1 DEF Run, State
    <3>3. QED
      BY <3>2 DEF Inv, TypeOK, Alert
  <2> HIDE DEF a
  <2>4. buf'[g] = Append(buf[g], a) /\ \A h \in Monitor \ {g} : buf'[h] = << >>
    BY <1>0, <1>2, <2>1
  <2>5. QueueOf(outbox', buf') = outbox \o Append(buf[g], a)
    BY <1>0, <2>2, <2>4, QueueIs
  <2>6. outbox \o Append(buf[g], a) = Append(outbox \o buf[g], a)
    <3>1. buf[g] \in Seq(Alert) /\ <<a>> \in Seq(Alert) /\ outbox \o buf[g] \in Seq(Alert)
      BY <1>0, <2>3, ConcatProperties
    <3>2. Append(buf[g], a) = buf[g] \o <<a>> /\ Append(outbox \o buf[g], a) = (outbox \o buf[g]) \o <<a>>
      BY <2>3, <3>1, AppendIsConcat
    <3>3. QED
      BY <1>0, <3>1, <3>2, ConcatAssociative
  <2>7. QED
    BY <1>3, <1>4, <2>5, <2>6 DEF a
<1>5. CASE ~Announces(g, m, run[g][m].obs)
  BY <1>0, <1>5 DEF Land, Queue
<1>6. QED
  BY <1>4, <1>5

Sync == Synced /\ Written /\ Cleared /\ PurgeReady /\ Told /\ Fresh

\* Where nothing is said, what was said fits what is known as long as that stays
\* or its baseline is dropped.
LEMMA WordsKept ==
    ASSUME ToldInv, heard' = heard, QueueOf(outbox', buf') = Queue,
           \A m \in Module : ~forgot'[m] => ~forgot[m] /\ Known(m)' = Known(m)
    PROVE  Told' /\ Fresh'
<1>1. Queue' = Queue
  BY DEF Queue
<1>2. Told'
  BY <1>1 DEF ToldInv, Told
<1>3. Fresh'
  BY <1>1 DEF ToldInv, Fresh
<1>4. QED
  BY <1>2, <1>3

\* What a clear has built stays good as long as the persistent monitor loses nothing but
\* what its baseline is dropped with, and no other begins.
LEMMA ClearedKept ==
    ASSUME ToldInv, UNCHANGED <<cur, clearing>>,
           \A m \in Module : ~forgot'[m] => ~forgot[m] /\ Known(m)' = Known(m),
           \A m \in Module : cur # None =>
               mem'[cur][m] = mem[cur][m] \/ (forgot'[m] /\ mem'[cur][m] = "none"),
           \A g \in Monitor \ {cur} : Busy(g)' => Busy(g)
    PROVE  Cleared'
<1> SUFFICES ASSUME clearing.mon # None
             PROVE  Cleared'
  BY DEF Cleared
<1>1. cur # None /\ Cleared
  BY DEF ToldInv, Order, Pinned
<1>2. \A m \in Module : mem'[cur][m] # "none" => InSync(cur, m)'
  BY <1>1 DEF Cleared, InSync
<1>3. \A m \in Module : clearing.rows[m] # "none" =>
          forgot'[m] \/ (clearing.rows[m] = mem'[cur][m] /\ clearing.rows[m] = Known(m)')
  BY <1>1 DEF Cleared
<1>4. \/ \A m \in Module : mem'[cur][m] = "none" /\ clearing.rows[m] = "none"
      \/ \A h \in Monitor \ {cur} : ~Busy(h)'
  BY <1>1 DEF Cleared
<1>5. QED
  BY <1>2, <1>3, <1>4 DEF Cleared

\* Steps that touch neither the table nor any monitor's status.
LEMMA StatusKept ==
    ASSUME ToldInv, UNCHANGED <<stored, cur, mem, unsaved, forgot, snap, clearing>>,
           \A g \in Monitor : Inflight(g)' \subseteq Inflight(g),
           \A g \in Monitor : Busy(g)' => Busy(g),
           cycle'.pc = "write" => cycle.pc = "write"
    PROVE  /\ Synced' /\ Written' /\ Cleared'
           /\ real' = real => PurgeReady'
           /\ \A m \in Module : Known(m)' = Known(m)
<1>1. \A m \in Module : Known(m)' = Known(m)
  BY DEF Known
<1>2. \A g \in Monitor, m \in Module : InSync(g, m)' <=> InSync(g, m)
  BY <1>1 DEF InSync
<1>3. Synced'
  BY <1>2 DEF ToldInv, Synced
<1>4. Written'
  BY <1>1 DEF ToldInv, Written
<1>5. ASSUME real' = real
      PROVE  PurgeReady'
  <2>1. cur # None => InMaintenance(cur)' = InMaintenance(cur)
    BY <1>5 DEF InMaintenance
  <2>2. cur # None => cur \in Monitor
    BY DEF ToldInv, Inv, TypeOK
  <2> SUFFICES ASSUME cur # None, InMaintenance(cur) # {}
               PROVE  (\A m \in Module : InSync(cur, m)') /\ \A h \in Monitor \ {cur} : ~Busy(h)'
    BY <2>1 DEF PurgeReady
  <2>3. QED
    BY <1>2, <2>2 DEF ToldInv, PurgeReady
<1>6. Cleared'
  BY <1>1, ClearedKept
<1>7. QED
  BY <1>1, <1>3, <1>4, <1>5, <1>6

LEMMA NoStart ==
    ASSUME cycle # NoCycle \/ cycle'.mon = cycle.mon \/ cycle'.mon = None, None \notin Monitor
    PROVE  ~ \E g \in Monitor : StartCycle(g) \/ RunChecks(g)
BY DEF StartCycle, RunChecks, NoCycle

\* A device enters maintenance where the persistent monitor is in step.
LEMMA WorldSync ==
    ASSUME Clear, ToldInv, [Next]_vars, NEW m \in Module, World(m)
    PROVE  Sync'
<1>0. TypeOK /\ None \notin Monitor /\ UNCHANGED <<status, cur, run, tail, alerts, cycle, snap, clearing>>
  BY MonitorAssumption DEF ToldInv, Inv, World
<1>1. \A h \in Monitor : Inflight(h)' = Inflight(h) /\ (Busy(h)' <=> Busy(h))
  BY <1>0 DEF Inflight, Busy, Quiet, status, alerts
<1>2. UNCHANGED <<stored, cur, mem, unsaved, forgot, snap, clearing, heard, outbox, buf>>
  BY <1>0 DEF status, alerts
<1>3. Synced' /\ Written' /\ Cleared' /\ \A k \in Module : Known(k)' = Known(k)
  BY <1>0, <1>1, <1>2, StatusKept
<1>4. Told' /\ Fresh'
  BY <1>2, <1>3, WordsKept DEF Queue
<1>5. PurgeReady'
  <2>1. CASE real'[m] = "maint"
    <3> SUFFICES ASSUME cur # None
                 PROVE  (\A k \in Module : InSync(cur, k)') /\ \A h \in Monitor \ {cur} : ~Busy(h)'
      BY <1>2 DEF PurgeReady
    <3>1. UpToDate
      BY <1>0, <2>1 DEF World, Clear, TypeOK
    <3>2. \A h \in Monitor \ {cur} : ~Busy(h)'
      BY <1>0, <1>1, <3>1 DEF UpToDate, Busy
    <3>3. \A k \in Module : mem[cur][k] = Known(k)
      <4>1. mem[cur] = Reread(cur)
        BY <3>1 DEF UpToDate
      <4>2. \A k \in Module : Reread(cur)[k] = Known(k)
        BY DEF Reread, Known
      <4>3. QED
        BY <4>1, <4>2
    <3>4. QED
      BY <1>2, <1>3, <3>2, <3>3 DEF InSync
  <2>2. CASE real'[m] # "maint"
    <3>1. cur # None => InMaintenance(cur)' \subseteq InMaintenance(cur)
      <4>1. \A k \in Module : k # m => real'[k] = real[k]
        BY <1>0 DEF World, TypeOK
      <4>2. QED
        BY <1>2, <2>2, <4>1 DEF InMaintenance
    <3> SUFFICES ASSUME cur # None, InMaintenance(cur) # {}
                 PROVE  (\A k \in Module : InSync(cur, k)') /\ \A h \in Monitor \ {cur} : ~Busy(h)'
      BY <1>2, <3>1 DEF PurgeReady
    <3>2. QED
      BY <1>1, <1>2, <1>3 DEF ToldInv, PurgeReady, InSync
  <2>3. QED
    BY <2>1, <2>2
<1>6. QED
  BY <1>3, <1>4, <1>5 DEF Sync

\* A run that probes or is over, the deadline, the end of run_checks, a straggler's end.
LEMMA RunSync ==
    ASSUME Clear, ToldInv, [Next]_vars, NEW g \in Monitor, NEW m \in Module,
           Probe(g, m) \/ Fail(g, m) \/ Record(g, m)
    PROVE  Sync'
<1>0. Inv /\ Tidy /\ None \notin Monitor /\ UNCHANGED <<status, real, cur, alerts, cycle, snap, clearing>>
  BY MonitorAssumption DEF ToldInv, Order, Probe, Fail, Record
<1>1. UNCHANGED <<stored, cur, mem, unsaved, forgot, snap, clearing, heard, outbox, buf>>
  BY <1>0 DEF status, alerts
<1>2. \A h \in Monitor : Busy(h)' => Busy(h)
  BY <1>0, NoStart, BusyStep
<1>3. \A h \in Monitor : Inflight(h)' \subseteq Inflight(h)
  <2>1. /\ run[g][m].pc # "idle"
        /\ \A h \in Monitor, k \in Module : h # g \/ k # m => run'[h][k] = run[h][k]
    BY <1>0, RunGoesOn, RunEnds
  <2>2. QED
    BY <2>1 DEF Inflight
<1>4. Synced' /\ Written' /\ Cleared' /\ PurgeReady' /\ \A k \in Module : Known(k)' = Known(k)
  BY <1>0, <1>1, <1>2, <1>3, StatusKept
<1>5. Told' /\ Fresh'
  BY <1>1, <1>4, WordsKept DEF Queue
<1>6. QED
  BY <1>4, <1>5 DEF Sync

LEMMA DeadlineSync ==
    ASSUME Clear, ToldInv, [Next]_vars, Deadline
    PROVE  Sync'
<1>0. Inv /\ Tidy /\ None \notin Monitor /\ UNCHANGED <<status, real, cur, alerts, snap, clearing>>
      /\ cycle' = [cycle EXCEPT !.pc = "flush"] /\ cycle.pc = "run"
  BY MonitorAssumption DEF ToldInv, Order, Deadline
<1>1. UNCHANGED <<stored, cur, mem, unsaved, forgot, snap, clearing, heard, outbox, buf>>
  BY <1>0 DEF status, alerts
<1>2. cycle # NoCycle /\ cycle'.pc # "write"
  BY <1>0 DEF NoCycle, Inv, TypeOK
<1>3. \A h \in Monitor : Busy(h)' => Busy(h)
  BY <1>0, <1>2, NoStart, BusyStep
<1>4. \A h \in Monitor : Inflight(h)' \subseteq Inflight(h)
  BY <1>0, DeadlineInflight
<1>5. Synced' /\ Written' /\ Cleared' /\ PurgeReady' /\ \A k \in Module : Known(k)' = Known(k)
  BY <1>0, <1>1, <1>2, <1>3, <1>4, StatusKept
<1>6. Told' /\ Fresh'
  BY <1>1, <1>5, WordsKept DEF Queue
<1>7. QED
  BY <1>5, <1>6 DEF Sync

LEMMA FlushSync ==
    ASSUME Clear, ToldInv, [Next]_vars,
           EndCycle \/ \E g \in Monitor, m \in Module : Late(g, m)
    PROVE  Sync'
<1>0. Inv /\ Order /\ Tidy /\ None \notin Monitor /\ UNCHANGED <<status, real, cur, run, heard, forgot, snap, clearing>>
  BY MonitorAssumption DEF ToldInv, Order, EndCycle, Late
<1>1. UNCHANGED <<stored, cur, mem, unsaved, forgot, snap, clearing, heard>>
  BY <1>0 DEF status
<1>2. (cycle # NoCycle \/ cycle' = cycle) /\ (cycle'.pc = "write" => cycle.pc = "write")
  BY DEF EndCycle, Late, NoCycle
<1>3. \A h \in Monitor : Busy(h)' => Busy(h)
  BY <1>0, <1>2, NoStart, BusyStep
<1>4. \A h \in Monitor : Inflight(h)' = Inflight(h)
  BY <1>0 DEF Inflight
<1>5. Synced' /\ Written' /\ Cleared' /\ PurgeReady' /\ \A k \in Module : Known(k)' = Known(k)
  BY <1>0, <1>1, <1>2, <1>3, <1>4, StatusKept
<1>6. QueueOf(outbox', buf') = Queue
  <2>1. CASE EndCycle
    <3>1. cycle.mon \in Monitor /\ Busy(cycle.mon) /\ FlushLater(cycle.mon)
      BY <1>0, <2>1, CycleHasMonitor DEF EndCycle, Busy, Inv
    <3>2. QED
      BY <1>0, <3>1, FlushQueue
  <2>2. ASSUME NEW g \in Monitor, NEW m \in Module, Late(g, m)
        PROVE  QueueOf(outbox', buf') = Queue
    <3>1. Busy(g) /\ FlushLater(g)
      BY <2>2 DEF Late, Busy, Quiet
    <3>2. QED
      BY <1>0, <3>1, FlushQueue
  <2>3. QED
    BY <2>1, <2>2
<1>7. Told' /\ Fresh'
  BY <1>1, <1>5, <1>6, WordsKept
<1>8. QED
  BY <1>5, <1>7 DEF Sync

\* An alert is sent: it was the next, and it was news.
LEMMA SendSync ==
    ASSUME Clear, ToldInv, [Next]_vars, Send
    PROVE  Sync'
<1>0. Inv /\ Order /\ TypeOK /\ Alone /\ UNCHANGED <<status, real, cur, run, tail, buf, cycle, forgot, snap, clearing>>
  BY DEF ToldInv, Inv, Order, Send
<1>1. UNCHANGED <<stored, cur, mem, unsaved, forgot, snap, clearing>>
  BY <1>0 DEF status
<1>2. \A h \in Monitor : Inflight(h)' = Inflight(h) /\ (Busy(h)' <=> Busy(h))
  BY <1>0, <1>1 DEF Inflight, Busy, Quiet
<1>3. Synced' /\ Written' /\ Cleared' /\ PurgeReady' /\ \A k \in Module : Known(k)' = Known(k)
  BY <1>0, <1>1, <1>2, StatusKept
<1>4. Queue # << >> /\ Head(Queue) = Head(outbox) /\ Queue' = Tail(Queue) /\ Queue \in Seq(Alert)
  BY <1>0, SendQueue, QueueType DEF Queue
<1>5. heard' = [heard EXCEPT ![Head(Queue).mod] = Head(Queue).st] /\ heard \in [Module -> State]
  BY <1>0, <1>4 DEF Send, TypeOK
<1>6. Told'
  <2>1. ASSUME NEW m \in Module
        PROVE  WordAfter(Queue', m, heard'[m]) = WordAfter(Queue, m, heard[m])
    <3>1. heard'[m] = IF Head(Queue).mod = m THEN Head(Queue).st ELSE heard[m]
      BY <1>5
    <3>2. QED
      BY <1>4, <3>1, WordTail
  <2>2. QED
    BY <1>1, <1>3, <2>1 DEF ToldInv, Told
<1>7. Fresh'
  <2>1. News(Tail(Queue), [heard EXCEPT ![Head(Queue).mod] = Head(Queue).st])
    BY <1>4, <1>5, NewsTail DEF ToldInv, Fresh
  <2>2. QED
    BY <1>4, <1>5, <2>1 DEF Fresh
<1>8. QED
  BY <1>3, <1>6, <1>7 DEF Sync

\* The persistent monitor is disposed of: nothing of it was unsaved.
LEMMA DisposeSync ==
    ASSUME Clear, ToldInv, [Next]_vars, Dispose
    PROVE  Sync'
<1>0. /\ Inv /\ Order /\ TypeOK /\ PurgeOK /\ cur # None /\ Quiet(cur) /\ cycle.mon # cur /\ cur' = None /\ clearing.mon = None
      /\ UNCHANGED <<real, stored, mem, unsaved, run, tail, buf, outbox, heard, forgot, cycle, snap, clearing>>
  BY DEF ToldInv, Inv, Order, Pinned, Dispose, Clear, status, alerts
<1>1. \A m \in Module : Known(m)' = Known(m)
  BY <1>0 DEF Known, Quiet
<1>2. \A h \in Monitor : Inflight(h)' = Inflight(h)
  BY <1>0 DEF Inflight
<1>3. Synced'
  BY <1>0, <1>1, <1>2 DEF ToldInv, Synced, InSync
<1>4. Written'
  BY <1>0 DEF Written, PurgeOK
<1>5. PurgeReady'
  BY <1>0 DEF PurgeReady
<1>6. Told' /\ Fresh'
  BY <1>0, <1>1, WordsKept DEF Queue
<1>7. Cleared'
  BY <1>0 DEF Cleared
<1>8. QED
  BY <1>3, <1>4, <1>5, <1>6, <1>7 DEF Sync

\* run_checks begins, on the persistent monitor, one built for it, or one of its own.
LEMMA StartSync ==
    ASSUME Clear, ToldInv, [Next]_vars, NEW g \in Monitor, StartCycle(g) \/ RunChecks(g)
    PROVE  Sync'
<1>0. /\ Inv /\ Order /\ TypeOK /\ Tidy /\ None \notin Monitor
      /\ \A h \in Monitor \ {g} : ~Busy(h) /\ ~Busy(h)'
      /\ cycle'.mon = g /\ cycle = NoCycle
      /\ UNCHANGED <<real, run, tail, buf, unsaved, stored, snap, clearing, outbox, heard, forgot>>
  BY StartAlone, MonitorAssumption DEF ToldInv, Inv, Order, StartCycle, RunChecks, Build
<1>1. cycle'.pc # "write"
  BY DEF StartCycle, RunChecks
<1>2. \A h \in Monitor : Inflight(h)' = Inflight(h)
  BY <1>0 DEF Inflight
<1>3. CASE ~Build(g)
  <2>1. UNCHANGED <<cur, mem>> /\ g = cur
    BY <1>3 DEF StartCycle, RunChecks, status
  <2>2. \A m \in Module : Known(m)' = Known(m)
    BY <1>0, <2>1 DEF Known
  <2>3. Synced' /\ Written'
    BY <1>0, <1>1, <1>2, <2>1, <2>2 DEF ToldInv, Synced, InSync, Written
  <2>4. PurgeReady'
    <3>1. InMaintenance(cur)' = InMaintenance(cur)
      BY <1>0, <2>1 DEF InMaintenance
    <3>2. QED
      BY <1>0, <2>1, <2>2, <3>1 DEF ToldInv, PurgeReady, InSync
  <2>5. Told' /\ Fresh'
    BY <1>0, <2>2, WordsKept DEF Queue
  <2>6. Cleared'
    BY <1>0, <2>1, <2>2, ClearedKept
  <2>7. QED
    BY <2>3, <2>4, <2>5, <2>6 DEF Sync
<1>4. CASE Build(g)
  <2>1. Unused(g) /\ (mem' = [mem EXCEPT ![g] = stored] \/ mem' = [mem EXCEPT ![g] = Nothing])
    BY <1>4 DEF Build
  <2>2. \A h \in Monitor : Inflight(h) = {}
    BY <1>0, <2>1 DEF Unused, Busy, Quiet
  <2>3. Synced'
    BY <1>2, <2>2 DEF Synced
  <2>4. Written' /\ Cleared'
    <3>1. clearing.mon = None
      <4>1. clearing.mon # g
        BY <2>1 DEF Unused
      <4>2. \A h \in Monitor \ {g} : h # clearing.mon
        BY <1>4 DEF Build, Turn, Clear
      <4>3. QED
        BY <1>0, <4>1, <4>2 DEF TypeOK
    <3>2. QED
      BY <1>0, <1>1, <3>1 DEF Written, Cleared
  <2>5. CASE RunChecks(g)
    <3>1. cur' = cur /\ (cur # None => InMaintenance(cur) = {}) /\ cur # g
      BY <2>1, <2>5 DEF RunChecks, Clear, Unused
    <3>2. cur # None => mem'[cur] = mem[cur] /\ cur \in Monitor
      BY <1>0, <2>1, <3>1 DEF TypeOK
    <3>3. \A m \in Module : Known(m)' = Known(m)
      BY <1>0, <3>1, <3>2 DEF Known
    <3>4. cur # None => InMaintenance(cur)' = InMaintenance(cur)
      BY <1>0, <3>1, <3>2 DEF InMaintenance
    <3>5. PurgeReady'
      BY <3>1, <3>4 DEF PurgeReady
    <3>6. Told' /\ Fresh'
      BY <1>0, <3>3, WordsKept DEF Queue
    <3>7. QED
      BY <2>3, <2>4, <3>5, <3>6 DEF Sync
  <2>6. CASE StartCycle(g) /\ cur = None
    <3>1. cur' = g
      BY <1>0, <2>6 DEF StartCycle
    <3>2. unsaved[g] = {}
      BY <1>0, <2>6 DEF Tidy, TidyOK
    <3>3. \A m \in Module : Known(m)' = stored[m] /\ Known(m) = stored[m]
      BY <1>0, <2>6, <3>1, <3>2 DEF Known
    <3>4. PurgeReady'
      <4>1. CASE mem' = [mem EXCEPT ![g] = stored]
        <5>1. \A m \in Module : InSync(g, m)'
          BY <1>0, <3>3, <4>1 DEF InSync, TypeOK
        <5>2. QED
          BY <1>0, <3>1, <5>1 DEF PurgeReady
      <4>2. CASE mem' = [mem EXCEPT ![g] = Nothing]
        <5>1. InMaintenance(g)' = {}
          BY <1>0, <4>2 DEF InMaintenance, Nothing, TypeOK
        <5>2. QED
          BY <3>1, <5>1 DEF PurgeReady
      <4>3. QED
        BY <2>1, <4>1, <4>2
    <3>5. Told' /\ Fresh'
      BY <1>0, <3>3, WordsKept DEF Queue
    <3>6. QED
      BY <2>3, <2>4, <3>4, <3>5 DEF Sync
  <2>7. g # cur
    BY <2>1 DEF Unused
  <2>8. QED
    BY <2>5, <2>6, <2>7 DEF StartCycle
<1>5. QED
  BY <1>3, <1>4

\* The purge drops what is in maintenance, baselines and all.
LEMMA PurgeSync ==
    ASSUME Clear, ToldInv, [Next]_vars, Purge
    PROVE  Sync'
<1> DEFINE g == cycle.mon
<1>0. /\ Inv /\ Order /\ TypeOK /\ TypeOK' /\ Tidy /\ None \notin Monitor /\ cycle.pc = "purge"
      /\ UNCHANGED <<real, stored, cur, unsaved, run, tail, buf, outbox, heard, clearing>>
  BY TypeStep, MonitorAssumption DEF ToldInv, Inv, Order, Purge
<1>1. g = cur /\ g \in Monitor
  BY <1>0, CycleHasMonitor DEF Order, PurgeOK, Inv
<1>2. cycle # NoCycle
  BY <1>0 DEF NoCycle
<1>3. \A h \in Monitor : Busy(h)' => Busy(h)
  BY <1>0, <1>2, NoStart, BusyStep
<1>4. \A h \in Monitor : Inflight(h)' = Inflight(h)
  BY <1>0 DEF Inflight
<1>5. CASE InMaintenance(g) = {}
  <2>1. UNCHANGED <<mem, snap, clearing, forgot>> /\ cycle' = [cycle EXCEPT !.pc = "read"]
    BY <1>5 DEF Purge
  <2>2. cycle'.pc # "write"
    BY <1>0, <2>1 DEF TypeOK
  <2>3. Synced' /\ Written' /\ Cleared' /\ PurgeReady' /\ \A m \in Module : Known(m)' = Known(m)
    BY <1>0, <1>3, <1>4, <2>1, <2>2, StatusKept
  <2>4. Told' /\ Fresh'
    BY <1>0, <2>1, <2>3, WordsKept DEF Queue
  <2>5. QED
    BY <2>3, <2>4 DEF Sync
<1>6. CASE InMaintenance(g) # {}
  <2> DEFINE new == [m \in Module |-> IF m \in InMaintenance(g) THEN "none" ELSE mem[g][m]]
  <2>1. /\ mem' = [mem EXCEPT ![g] = new] /\ snap' = new
        /\ forgot' = [m \in Module |-> forgot[m] \/ m \in InMaintenance(g)]
        /\ Inflight(g) = {}
    BY <1>6 DEF Purge, Clear
  <2>2. \A m \in Module : new[m] = IF m \in InMaintenance(g) THEN "none" ELSE mem[g][m]
    OBVIOUS
  <2> HIDE DEF new
  <2>3. mem'[g] = new
    BY <1>0, <1>1, <2>1 DEF TypeOK
  <2>4. \A m \in Module : ~forgot'[m] => ~forgot[m] /\ m \notin InMaintenance(g)
    BY <2>1
  <2>5. \A m \in Module : ~forgot'[m] => mem'[g][m] = mem[g][m] /\ snap'[m] = mem[g][m]
    BY <2>1, <2>2, <2>3, <2>4
  <2>6. \A m \in Module : ~forgot'[m] => ~forgot[m] /\ Known(m)' = Known(m)
    <3>1. \A m \in Module : ~forgot'[m] => Known(m)' = Known(m)
      BY <1>0, <1>1, <2>5 DEF Known
    <3>2. QED
      BY <2>4, <3>1
  <2>7. \A m \in Module : InSync(g, m)
    BY <1>1, <1>6, <1>0 DEF ToldInv, PurgeReady
  <2>8. Synced'
    <3>1. \A h \in Monitor \ {g} : Inflight(h) = {}
      BY <1>0, <1>1, <1>6 DEF ToldInv, PurgeReady, Busy, Quiet
    <3>2. QED
      BY <1>4, <2>1, <3>1 DEF Synced
  <2>9. Written'
    BY <1>0, <1>1, <2>5, <2>6, <2>7 DEF Written, InSync
  <2>10. PurgeReady'
    <3>1. InMaintenance(cur)' = {}
      BY <1>0, <1>1, <2>2, <2>3 DEF InMaintenance
    <3>2. QED
      BY <3>1 DEF PurgeReady
  <2>11. Told' /\ Fresh'
    BY <1>0, <2>6, WordsKept DEF Queue
  <2>12. Cleared'
    <3>1. \A m \in Module : mem'[cur][m] = mem[cur][m] \/ (forgot'[m] /\ mem'[cur][m] = "none")
      BY <1>0, <1>1, <2>1, <2>2, <2>3
    <3>2. QED
      BY <1>0, <1>3, <2>6, <3>1, ClearedKept
  <2>13. QED
    BY <2>8, <2>9, <2>10, <2>11, <2>12 DEF Sync
<1>7. QED
  BY <1>5, <1>6

\* Its save writes over the table what the table held, but for what was dropped.
LEMMA PurgeWriteSync ==
    ASSUME Clear, ToldInv, [Next]_vars, PurgeWrite
    PROVE  Sync'
<1>0. /\ Inv /\ Order /\ TypeOK /\ Tidy /\ None \notin Monitor /\ cycle.pc = "write"
      /\ UNCHANGED <<real, cur, mem, unsaved, run, tail, buf, outbox, heard, forgot, clearing>>
      /\ cycle' = [cycle EXCEPT !.pc = "read"] /\ (stored' = snap \/ stored' = stored)
  BY MonitorAssumption DEF ToldInv, Inv, Order, PurgeWrite, alerts
<1>1. cycle # NoCycle /\ cycle'.pc # "write"
  BY <1>0 DEF NoCycle, TypeOK
<1>2. \A h \in Monitor : Busy(h)' => Busy(h)
  BY <1>0, <1>1, NoStart, BusyStep
<1>3. \A h \in Monitor : Inflight(h)' = Inflight(h)
  BY <1>0 DEF Inflight
<1>4. \A m \in Module : ~forgot[m] => snap[m] = mem[cur][m] /\ snap[m] = Known(m)
  BY <1>0 DEF ToldInv, Written
<1>5. \A m \in Module : ~forgot[m] => Known(m)' = Known(m)
  BY <1>0, <1>4 DEF Known
<1>6. \A g \in Monitor, m \in Module : InSync(g, m) => InSync(g, m)'
  BY <1>0, <1>5 DEF InSync
<1>7. Synced'
  BY <1>3, <1>6 DEF ToldInv, Synced
<1>8. Written'
  BY <1>1 DEF Written
<1>9. PurgeReady'
  <2>1. cur # None => cur \in Monitor /\ InMaintenance(cur)' = InMaintenance(cur)
    BY <1>0 DEF InMaintenance, TypeOK
  <2> SUFFICES ASSUME cur # None, InMaintenance(cur) # {}
               PROVE  (\A k \in Module : InSync(cur, k)') /\ \A h \in Monitor \ {cur} : ~Busy(h)'
    BY <1>0, <2>1 DEF PurgeReady
  <2>2. \A k \in Module : InSync(cur, k) => InSync(cur, k)'
    BY <1>0, <1>5 DEF InSync
  <2>3. QED
    BY <1>2, <2>1, <2>2 DEF ToldInv, PurgeReady
<1>10. Told' /\ Fresh'
  BY <1>0, <1>5, WordsKept DEF Queue
<1>11. Cleared'
  BY <1>0, <1>2, <1>5, ClearedKept
<1>12. QED
  BY <1>7, <1>8, <1>9, <1>10, <1>11 DEF Sync

\* run_checks reads the table: its monitor is in step with what is known.
LEMMA ReadSync ==
    ASSUME Clear, ToldInv, [Next]_vars, Read
    PROVE  Sync'
<1> DEFINE g == cycle.mon
<1>0. /\ Inv /\ Order /\ Alone /\ TypeOK /\ Tidy /\ None \notin Monitor /\ cycle.pc = "read" /\ g \in Monitor
      /\ UNCHANGED <<real, stored, cur, unsaved, tail, buf, outbox, heard, forgot, snap, clearing>>
      /\ cycle' = [cycle EXCEPT !.pc = "run"]
  BY ReadInflight, MonitorAssumption DEF ToldInv, Inv, Order, Read, alerts
<1>1. cycle # NoCycle /\ cycle'.pc # "write" /\ Busy(g)
  BY <1>0 DEF NoCycle, TypeOK, Busy
<1>2. \A h \in Monitor \ {g} : ~Busy(h) /\ ~Busy(h)'
  <2>1. \A h \in Monitor : Busy(h)' => Busy(h)
    BY <1>0, <1>1, NoStart, BusyStep
  <2>2. QED
    BY <1>0, <1>1, <2>1 DEF Alone
<1>3. \A h \in Monitor \ {g} : Inflight(h)' = {}
  BY <1>0, <1>2, ReadInflight DEF Busy, Quiet
<1>4. mem' = [mem EXCEPT ![g] = Reread(g)] \/ (mem' = mem /\ mem[g] = Reread(g))
  BY DEF Read, Clear
<1> HIDE DEF g
<1>5. mem'[g] = Reread(g) /\ \A h \in Monitor \ {g} : mem'[h] = mem[h]
  BY <1>0, <1>4 DEF TypeOK
<1>6. \A m \in Module : Known(m)' = Known(m) /\ Reread(g)[m] = Known(m)
  <2> SUFFICES ASSUME NEW m \in Module
               PROVE  Known(m)' = Known(m) /\ Reread(g)[m] = Known(m)
    OBVIOUS
  <2>1. Reread(g)[m] = IF m \in unsaved[g] /\ mem[g][m] # "none" THEN mem[g][m] ELSE stored[m]
    BY DEF Reread
  <2>2. CASE cur = g
    <3>1. Reread(g)[m] = Known(m)
      BY <1>0, <2>1, <2>2 DEF Known
    <3>2. Known(m)' = IF m \in unsaved[g] /\ Reread(g)[m] # "none" THEN Reread(g)[m] ELSE stored[m]
      BY <1>0, <1>5, <2>2 DEF Known
    <3>3. QED
      BY <2>1, <3>1, <3>2
  <2>3. CASE cur # g
    <3>1. unsaved[g] = {}
      BY <1>0, <2>3 DEF Tidy, TidyOK
    <3>2. cur # None => cur \in Monitor /\ unsaved[cur] = {}
      BY <1>0, <1>2, <2>3 DEF Busy, Quiet, TypeOK
    <3>3. Known(m) = stored[m] /\ Known(m)' = stored[m]
      BY <1>0, <3>2 DEF Known
    <3>4. QED
      BY <2>1, <3>1, <3>3
  <2>4. QED
    BY <2>2, <2>3
<1>7. \A m \in Module : mem'[g][m] = Known(m)'
  BY <1>5, <1>6
<1>8. Synced'
  <2> SUFFICES ASSUME NEW h \in Monitor, Inflight(h)' # {}, NEW m \in Module
               PROVE  InSync(h, m)'
    BY DEF Synced
  <2>1. h = g
    BY <1>3
  <2>2. QED
    BY <1>7, <2>1 DEF InSync
<1>9. Written'
  BY <1>1 DEF Written
<1>10. PurgeReady'
  <2> SUFFICES ASSUME cur # None, InMaintenance(cur)' # {}
               PROVE  (\A m \in Module : InSync(cur, m)') /\ \A h \in Monitor \ {cur} : ~Busy(h)'
    BY <1>0 DEF PurgeReady
  <2>1. cur = g
    <3> SUFFICES ASSUME cur # g
                 PROVE  FALSE
      OBVIOUS
    <3>1. cur \in Monitor /\ mem'[cur] = mem[cur]
      BY <1>0, <1>5 DEF TypeOK
    <3>2. InMaintenance(cur)' = InMaintenance(cur)
      BY <1>0, <3>1 DEF InMaintenance
    <3>3. ~Busy(g)
      BY <1>0, <3>2 DEF ToldInv, PurgeReady
    <3>4. QED
      BY <1>1, <3>3 DEF g
  <2>2. \A m \in Module : InSync(cur, m)'
    BY <1>0, <1>7, <2>1 DEF InSync
  <2>3. QED
    BY <1>2, <2>1, <2>2
<1>11. Told' /\ Fresh'
  BY <1>0, <1>6, WordsKept DEF Queue
<1>12. Cleared'
  <2>1. CASE cur = g
    <3> SUFFICES ASSUME clearing.mon # None
                 PROVE  Cleared'
      BY <1>0 DEF Cleared
    <3>1. \A m \in Module : mem'[cur][m] # "none" => InSync(cur, m)'
      BY <1>0, <1>7, <2>1 DEF InSync
    <3>2. \A m \in Module : clearing.rows[m] # "none" =>
              forgot[m] \/ (clearing.rows[m] = mem'[cur][m] /\ clearing.rows[m] = Known(m)')
      BY <1>6, <1>7, <2>1 DEF ToldInv, Cleared
    <3>3. QED
      BY <1>0, <1>2, <2>1, <3>1, <3>2 DEF Cleared
  <2>2. CASE cur # g
    <3>1. cur # None => mem'[cur] = mem[cur]
      BY <1>0, <1>5, <2>2 DEF TypeOK
    <3>2. \A h \in Monitor \ {cur} : Busy(h)' => Busy(h)
      BY <1>1, <1>2 DEF g
    <3>3. QED
      BY <1>0, <1>6, <3>1, <3>2, ClearedKept
  <2>3. QED
    BY <2>1, <2>2
<1>13. QED
  BY <1>8, <1>9, <1>10, <1>11, <1>12 DEF Sync

\* A result lands: what it makes known, every monitor at work knows.
LEMMA LandKnown ==
    ASSUME Clear, ToldInv, NEW g \in Monitor, NEW m \in Module, Land(g, m)
    PROVE  /\ \A k \in Module : k # m => Known(k)' = Known(k) /\ mem'[g][k] = mem[g][k]
           /\ mem'[g][m] = Result(run[g][m].obs)
           /\ run[g][m].obs # "maint" => Known(m)' = run[g][m].obs
           /\ run[g][m].obs = "maint" => forgot'[m]
<1> DEFINE obs == run[g][m].obs
<1>0. TypeOK /\ Alone /\ Tidy /\ cur' = cur /\ Busy(g) /\ None \notin Monitor
  BY RunIsBusy, MonitorAssumption DEF ToldInv, Inv, Order, Land
<1>1. mem' = [mem EXCEPT ![g][m] = Result(obs)]
  BY DEF Land
<1>2. mem'[g][m] = Result(obs) /\ \A h \in Monitor, k \in Module : h # g \/ k # m => mem'[h][k] = mem[h][k]
  BY <1>0, <1>1 DEF TypeOK
<1>3. \/ stored' = [stored EXCEPT ![m] = Result(obs)] /\ unsaved' = [unsaved EXCEPT ![g] = @ \ {m}]
      \/ g = cur /\ unsaved' = [unsaved EXCEPT ![g] = @ \cup {m}] /\ stored' = stored
  BY DEF Land, Clear
<1>4. obs # "none"
  BY DEF ToldInv, Inv, Runs, RunOK, Land
<1>5. obs # "maint" => Result(obs) = obs
  BY DEF Result
<1>6. obs = "maint" => forgot'[m]
  <2>1. ASSUME obs = "maint"
        PROVE  forgot'[m]
    <3>1. ~Announces(g, m, obs)
      BY <2>1 DEF Announces
    <3>2. forgot' = [forgot EXCEPT ![m] = @ \/ obs = "maint"]
      BY <3>1 DEF Land
    <3>3. QED
      BY <1>0, <2>1, <3>2 DEF TypeOK
  <2>2. QED
    BY <2>1
<1> HIDE DEF obs
<1>7. \A k \in Module : k # m => stored'[k] = stored[k]
  BY <1>0, <1>3 DEF TypeOK
<1>8. CASE cur = g
  <2>1. \A k \in Module : k # m => (k \in unsaved'[g] <=> k \in unsaved[g])
    BY <1>0, <1>3 DEF TypeOK
  <2>2. \A k \in Module : k # m => Known(k)' = Known(k)
    BY <1>0, <1>2, <1>7, <1>8, <2>1 DEF Known
  <2>3. (stored'[m] = Result(obs) /\ m \notin unsaved'[g]) \/ m \in unsaved'[g]
    BY <1>0, <1>3 DEF TypeOK
  <2>4. obs # "maint" => Known(m)' = obs
    BY <1>0, <1>2, <1>4, <1>5, <1>8, <2>3 DEF Known
  <2>5. QED
    BY <1>2, <1>6, <2>2, <2>4 DEF obs
<1>9. CASE cur # g
  <2>1. stored' = [stored EXCEPT ![m] = Result(obs)] /\ unsaved' = [unsaved EXCEPT ![g] = @ \ {m}]
    BY <1>3, <1>9
  <2>2. cur # None => cur \in Monitor /\ unsaved[cur] = {} /\ unsaved'[cur] = {}
    BY <1>0, <1>9, <2>1 DEF Alone, Busy, Quiet, TypeOK
  <2>3. \A k \in Module : Known(k)' = stored'[k] /\ Known(k) = stored[k]
    BY <1>0, <2>2 DEF Known
  <2>4. stored'[m] = Result(obs)
    BY <1>0, <2>1 DEF TypeOK
  <2>5. QED
    BY <1>2, <1>5, <1>6, <1>7, <2>3, <2>4 DEF obs
<1>10. QED
  BY <1>8, <1>9

LEMMA LandSync ==
    ASSUME Clear, ToldInv, [Next]_vars, NEW g \in Monitor, NEW m \in Module, Land(g, m)
    PROVE  Sync'
<1> DEFINE obs == run[g][m].obs
           a == [mod |-> m, st |-> obs, again |-> forgot[m]]
<1>0. /\ Inv /\ Order /\ TypeOK /\ Alone /\ Tidy /\ PurgeOK /\ Busy(g) /\ open[g] /\ Inflight(g) # {}
      /\ None \notin Monitor /\ UNCHANGED <<real, cur, tail, cycle, snap, clearing, outbox, heard>>
  <2>1. Busy(g) /\ m \in Inflight(g)
    BY RunIsBusy DEF Land
  <2>2. Inv /\ Order /\ TypeOK /\ Alone /\ Tidy /\ PurgeOK /\ None \notin Monitor
    BY MonitorAssumption DEF ToldInv, Inv, Order
  <2>3. open[g]
    BY <2>1, <2>2 DEF Tidy, TidyOK
  <2>4. QED
    BY <2>1, <2>2, <2>3 DEF Land
<1>1. /\ \A k \in Module : k # m => Known(k)' = Known(k) /\ mem'[g][k] = mem[g][k]
      /\ mem'[g][m] = Result(obs)
      /\ obs # "maint" => Known(m)' = obs
      /\ obs = "maint" => forgot'[m]
  BY LandKnown
<1>2. obs # "none" /\ obs \in State \cup {"maint"}
  <2>1. run[g][m] \in Run /\ RunOK(g, m) /\ run[g][m].pc = "probed"
    BY <1>0 DEF TypeOK, Inv, Runs, Land
  <2>2. QED
    BY <2>1 DEF Run, RunOK
<1>3. \A k \in Module : k # m => forgot'[k] = forgot[k]
  BY <1>0 DEF Land, TypeOK
<1>4. /\ Announces(g, m, obs) => ~forgot'[m] /\ QueueOf(outbox', buf') = Append(Queue, a)
      /\ ~Announces(g, m, obs) => QueueOf(outbox', buf') = Queue /\ (~forgot'[m] => ~forgot[m])
  <2>1. ASSUME Announces(g, m, obs)
        PROVE  ~forgot'[m] /\ QueueOf(outbox', buf') = Append(Queue, a)
    BY <1>0, <2>1, LandQueue DEF Land, TypeOK
  <2>2. ASSUME ~Announces(g, m, obs)
        PROVE  QueueOf(outbox', buf') = Queue /\ (~forgot'[m] => ~forgot[m])
    <3>1. forgot' = [forgot EXCEPT ![m] = @ \/ obs = "maint"]
      BY <2>2 DEF Land
    <3>2. QueueOf(outbox', buf') = Queue
      BY <1>0, <2>2, LandQueue
    <3>3. QED
      BY <1>0, <3>1, <3>2 DEF TypeOK
  <2>3. QED
    BY <2>1, <2>2
<1>5. \A k \in Module : InSync(g, k)
  BY <1>0 DEF ToldInv, Synced
<1> HIDE DEF obs, a
<1>6. \A k \in Module : InSync(g, k)'
  <2> SUFFICES ASSUME NEW k \in Module
               PROVE  InSync(g, k)'
    OBVIOUS
  <2>1. CASE k = m
    <3>1. obs # "maint" => Result(obs) = obs
      BY DEF Result
    <3>2. QED
      BY <1>1, <2>1, <3>1 DEF InSync
  <2>2. CASE k # m
    BY <1>1, <1>3, <1>5, <2>2 DEF InSync
  <2>3. QED
    BY <2>1, <2>2
<1>7. cycle # NoCycle \/ cycle'.mon = cycle.mon
  BY <1>0
<1>8. \A h \in Monitor \ {g} : ~Busy(h) /\ ~Busy(h)'
  <2>1. \A h \in Monitor : Busy(h)' => Busy(h)
    BY <1>0, <1>7, NoStart, BusyStep
  <2>2. QED
    BY <1>0, <2>1 DEF Alone
<1>9. Synced'
  <2>1. \A h \in Monitor \ {g} : Inflight(h)' = {}
    BY <1>8 DEF Busy, Quiet
  <2>2. QED
    BY <1>6, <2>1 DEF Synced
<1>10. Written'
  <2>1. cycle.pc # "write"
    <3> SUFFICES ASSUME cycle.pc = "write"
                 PROVE  FALSE
      OBVIOUS
    <3>1. Inflight(cycle.mon) = {} /\ cycle.mon \in Monitor
      BY <1>0, CycleHasMonitor DEF PurgeOK, Inv
    <3>2. cycle.mon = g
      BY <1>8, <3>1 DEF Busy
    <3>3. QED
      BY <1>0, <3>1, <3>2
  <2>2. QED
    BY <1>0, <2>1 DEF Written
<1>11. PurgeReady'
  <2> SUFFICES ASSUME cur # None, InMaintenance(cur)' # {}
               PROVE  (\A k \in Module : InSync(cur, k)') /\ \A h \in Monitor \ {cur} : ~Busy(h)'
    BY <1>0 DEF PurgeReady
  <2>1. cur = g
    <3> SUFFICES ASSUME cur # g
                 PROVE  FALSE
      OBVIOUS
    <3>1. cur \in Monitor /\ mem'[cur] = mem[cur]
      BY <1>0 DEF TypeOK, Land
    <3>2. InMaintenance(cur)' = InMaintenance(cur)
      BY <1>0, <3>1 DEF InMaintenance
    <3>3. ~Busy(g)
      BY <1>0, <3>2 DEF ToldInv, PurgeReady
    <3>4. QED
      BY <1>0, <3>3
  <2>2. \A k \in Module : InSync(cur, k)'
    BY <1>0, <1>6, <2>1 DEF InSync
  <2>3. QED
    BY <1>8, <2>1, <2>2
<1>12. Queue \in Seq(Alert) /\ Queue' = QueueOf(outbox', buf')
  BY <1>0, QueueType DEF Queue
<1>13. Announces(g, m, obs) => a \in Alert /\ obs # "maint" /\ a.mod = m /\ a.st = obs
                               /\ (a.again <=> forgot[m])
  <2>1. ASSUME Announces(g, m, obs)
        PROVE  obs \in {"up", "down"}
    BY <1>2, <2>1 DEF Announces, State
  <2>2. ASSUME Announces(g, m, obs)
        PROVE  a \in Alert
    BY <1>0, <2>1, <2>2 DEF a, Alert, TypeOK
  <2>3. a.mod = m /\ a.st = obs /\ a.again = forgot[m]
    BY DEF a
  <2>4. QED
    BY <2>1, <2>2, <2>3
<1>14. Told'
  <2> SUFFICES ASSUME NEW k \in Module, ~forgot'[k]
               PROVE  Known(k)' = "down" <=> WordAfter(Queue', k, heard'[k]) = "down"
    BY DEF Told
  <2>1. CASE Announces(g, m, obs)
    <3>1. WordAfter(Queue', k, heard'[k]) = IF m = k THEN obs ELSE WordAfter(Queue, k, heard[k])
      <4>1. Queue' = Append(Queue, a) /\ heard'[k] = heard[k]
        BY <1>0, <1>4, <1>12, <2>1
      <4>2. a \in Alert /\ a.mod = m /\ a.st = obs
        BY <1>13, <2>1
      <4>3. WordAfter(Append(Queue, a), k, heard[k]) = IF a.mod = k THEN a.st ELSE WordAfter(Queue, k, heard[k])
        BY <1>12, <4>2, WordAppend
      <4>4. QED
        BY <4>1, <4>2, <4>3
    <3>2. CASE k = m
      BY <1>1, <1>13, <2>1, <3>1, <3>2
    <3>3. CASE k # m
      BY <1>1, <1>3, <3>1, <3>3 DEF ToldInv, Told
    <3>4. QED
      BY <3>2, <3>3
  <2>2. CASE ~Announces(g, m, obs)
    <3>1. Queue' = Queue /\ heard' = heard
      BY <1>0, <1>4, <1>12, <2>2
    <3>2. CASE k = m
      <4>1. obs # "maint" /\ ~forgot[m] /\ Known(m)' = obs
        BY <1>1, <1>4, <2>2, <3>2
      <4>2. mem[g][m] = Known(m)
        BY <1>5, <4>1 DEF InSync
      <4>3. obs = mem[g][m] \/ (obs = "up" /\ mem[g][m] = "none")
        BY <1>0, <2>2, <4>1 DEF Announces
      <4>4. Known(m)' = "down" <=> Known(m) = "down"
        BY <4>1, <4>2, <4>3
      <4>5. QED
        BY <3>1, <3>2, <4>1, <4>4 DEF ToldInv, Told
    <3>3. CASE k # m
      BY <1>1, <1>3, <3>1, <3>3 DEF ToldInv, Told
    <3>4. QED
      BY <3>2, <3>3
  <2>3. QED
    BY <2>1, <2>2
<1>15. Fresh'
  <2>1. CASE Announces(g, m, obs)
    <3>1. a.again \/ a.st # WordAfter(Queue, a.mod, heard[a.mod])
      <4> SUFFICES ASSUME ~forgot[m]
                   PROVE  obs # WordAfter(Queue, m, heard[m])
        BY <1>13, <2>1
      <4>1. mem[g][m] = Known(m)
        BY <1>5 DEF InSync
      <4>2. Known(m) = "down" <=> WordAfter(Queue, m, heard[m]) = "down"
        BY DEF ToldInv, Told
      <4>3. obs # mem[g][m] /\ (obs = "down" \/ (obs = "up" /\ mem[g][m] = "down"))
        <5>1. mem[g][m] \in State
          BY <1>0 DEF TypeOK
        <5>2. QED
          BY <1>2, <2>1, <5>1 DEF Announces, State
      <4>4. QED
        BY <4>1, <4>2, <4>3
    <3>2. News(Append(Queue, a), heard)
      BY <1>12, <1>13, <2>1, <3>1, NewsAppend DEF ToldInv, Fresh
    <3>3. QED
      BY <1>0, <1>4, <1>12, <2>1, <3>2 DEF Fresh
  <2>2. CASE ~Announces(g, m, obs)
    BY <1>0, <1>4, <1>12, <2>2 DEF ToldInv, Fresh
  <2>3. QED
    BY <2>1, <2>2
<1>16. Cleared'
  <2> SUFFICES ASSUME clearing.mon # None
               PROVE  Cleared'
    BY <1>0 DEF Cleared
  <2>0. cur \in Monitor /\ clearing.mon = cur
    BY <1>0 DEF ToldInv, Order, Pinned, TypeOK
  <2>1. CASE g = cur
    <3>1. \A k \in Module : mem'[cur][k] # "none" => InSync(cur, k)'
      BY <1>0, <1>6, <2>1 DEF InSync
    <3>2. clearing.rows[m] = "none"
      BY <2>0, <2>1 DEF Land, Clear
    <3>3. \A k \in Module : clearing.rows[k] # "none" =>
              forgot'[k] \/ (clearing.rows[k] = mem'[cur][k] /\ clearing.rows[k] = Known(k)')
      BY <1>1, <1>3, <2>0, <2>1, <3>2 DEF ToldInv, Cleared
    <3>4. QED
      BY <1>0, <1>8, <2>1, <3>1, <3>3 DEF Cleared
  <2>2. CASE g # cur
    <3>1. \A k \in Module : mem[cur][k] = "none" /\ clearing.rows[k] = "none"
      BY <1>0, <2>2 DEF ToldInv, Cleared
    <3>2. mem'[cur] = mem[cur]
      BY <1>0, <2>0, <2>2 DEF TypeOK, Land
    <3>3. QED
      BY <1>0, <3>1, <3>2 DEF Cleared
  <2>3. QED
    BY <2>1, <2>2
<1>17. QED
  BY <1>9, <1>10, <1>11, <1>14, <1>15, <1>16 DEF Sync

\* A clear begins: every baseline is dropped.
LEMMA ClearStatusSync ==
    ASSUME Clear, ToldInv, [Next]_vars, NEW g \in Monitor, ClearStatus(g)
    PROVE  Sync'
<1>0. /\ TypeOK /\ TypeOK' /\ Clears /\ cur' = g /\ mem' = [mem EXCEPT ![g] = Nothing]
      /\ clearing'.rows = Nothing /\ \A m \in Module : forgot'[m]
  BY TypeStep DEF ToldInv, Inv, Clears, ClearStatus, NoClear
<1>1. \A m \in Module : mem'[g][m] = "none" /\ clearing'.rows[m] = "none"
  BY <1>0 DEF TypeOK, Nothing
<1>2. Synced' /\ Written'
  BY <1>0 DEF Synced, Written, InSync
<1>3. Cleared'
  BY <1>0, <1>1 DEF Cleared
<1>4. PurgeReady'
  <2>1. InMaintenance(cur)' = {}
    BY <1>0, <1>1 DEF InMaintenance
  <2>2. QED
    BY <2>1 DEF PurgeReady
<1>5. Told' /\ Fresh'
  <2>1. UNCHANGED <<buf, outbox, heard>>
    BY <1>0, ClearKeeps, ClearFrame DEF ToldInv, Order
  <2>2. QED
    BY <1>0, <2>1, WordsKept DEF Queue
<1>6. QED
  BY <1>2, <1>3, <1>4, <1>5 DEF Sync

\* It builds its rows, of which those that are not empty are in step with what is known.
LEMMA ClearBuildSync ==
    ASSUME Clear, ToldInv, [Next]_vars, ClearBuild
    PROVE  Sync'
<1>0. /\ TypeOK /\ Clears /\ None \notin Monitor
      /\ UNCHANGED <<real, stored, cur, mem, unsaved, run, tail, buf, cycle, snap, outbox, heard, forgot>>
      /\ clearing.pc = "build" /\ clearing' = [clearing EXCEPT !.pc = "write", !.rows = mem[clearing.mon]]
  BY MonitorAssumption DEF ToldInv, Inv, Clears, ClearStep, ClearBuild, status, alerts
<1>1. \A m \in Module : Known(m)' = Known(m)
  BY <1>0 DEF Known
<1>2. \A h \in Monitor : (Busy(h)' <=> Busy(h)) /\ Inflight(h)' = Inflight(h)
  BY <1>0 DEF Busy, Quiet, Inflight
<1>3. \A h \in Monitor, m \in Module : InSync(h, m)' <=> InSync(h, m)
  BY <1>0, <1>1 DEF InSync
<1>4. Synced' /\ Written'
  BY <1>0, <1>1, <1>2, <1>3 DEF ToldInv, Synced, Written
<1>5. PurgeReady'
  <2>1. cur # None => InMaintenance(cur)' = InMaintenance(cur) /\ cur \in Monitor
    BY <1>0 DEF InMaintenance, TypeOK
  <2>2. QED
    BY <1>0, <1>2, <1>3, <2>1 DEF ToldInv, PurgeReady
<1>6. Cleared'
  <2>1. clearing.mon = cur /\ cur \in Monitor /\ clearing'.mon = cur /\ clearing'.rows = mem[cur]
    <3>1. clearing.mon # None
      BY <1>0 DEF ToldInv, Inv, CycleOK
    <3>2. QED
      BY <1>0, <3>1 DEF ToldInv, Order, Pinned, TypeOK
  <2>2. Cleared
    BY DEF ToldInv
  <2>3. \A m \in Module : mem[cur][m] # "none" => InSync(cur, m)
    BY <1>0, <2>1, <2>2 DEF Cleared
  <2>4. \A m \in Module : mem[cur][m] # "none" => forgot[m] \/ mem[cur][m] = Known(m)'
    BY <1>1, <2>3 DEF InSync
  <2>5. (\A m \in Module : mem[cur][m] = "none") \/ (\A h \in Monitor \ {cur} : ~Busy(h)')
    BY <1>0, <1>2, <2>1, <2>2 DEF Cleared
  <2>6. QED
    BY <1>0, <1>3, <2>1, <2>3, <2>4, <2>5 DEF Cleared
<1>7. Told' /\ Fresh'
  BY <1>0, <1>1, WordsKept DEF Queue
<1>8. QED
  BY <1>4, <1>5, <1>6, <1>7 DEF Sync

\* They replace the table: what was saved since is dropped, baseline and all, and the rest
\* is what was known.  Or the write fails.
LEMMA ClearWriteSync ==
    ASSUME Clear, ToldInv, [Next]_vars, ClearWrite
    PROVE  Sync'
<1>0. /\ TypeOK /\ None \notin Monitor /\ clearing.pc = "write" /\ clearing'.mon = None
      /\ UNCHANGED <<real, cur, mem, unsaved, run, tail, buf, cycle, snap, outbox, heard>>
      /\ \/ /\ stored' = clearing.rows
            /\ forgot' = [m \in Module |-> forgot[m] \/ clearing.rows[m] = "none"]
         \/ UNCHANGED <<stored, forgot>>
  BY MonitorAssumption DEF ToldInv, Inv, ClearWrite, NoClear
<1>1. \A h \in Monitor : (Busy(h)' <=> Busy(h)) /\ Inflight(h)' = Inflight(h)
  BY <1>0 DEF Busy, Quiet, Inflight
<1>2. clearing.mon = cur /\ cur # None /\ cur \in Monitor
  <2>1. clearing.mon # None
    BY <1>0 DEF ToldInv, Inv, CycleOK
  <2>2. QED
    BY <1>0, <2>1 DEF ToldInv, Order, Pinned, TypeOK
<1>3. \A m \in Module : clearing.rows[m] # "none" =>
          forgot[m] \/ (clearing.rows[m] = mem[cur][m] /\ clearing.rows[m] = Known(m))
  BY <1>2 DEF ToldInv, Cleared
<1>4. \A m \in Module : ~forgot'[m] => ~forgot[m] /\ Known(m)' = Known(m)
  <2>1. CASE /\ stored' = clearing.rows
             /\ forgot' = [m \in Module |-> forgot[m] \/ clearing.rows[m] = "none"]
    <3>1. \A m \in Module : ~forgot'[m] =>
              ~forgot[m] /\ stored'[m] = mem[cur][m] /\ stored'[m] = Known(m)
      BY <1>3, <2>1
    <3>2. QED
      BY <1>0, <3>1 DEF Known
  <2>2. CASE UNCHANGED <<stored, forgot>>
    BY <1>0, <2>2 DEF Known
  <2>3. QED
    BY <1>0, <2>1, <2>2
<1>5. \A h \in Monitor, m \in Module : InSync(h, m) => InSync(h, m)'
  BY <1>0, <1>4 DEF InSync
<1>6. Synced' /\ Written' /\ Cleared'
  <2>1. Synced'
    BY <1>1, <1>5 DEF ToldInv, Synced
  <2>2. Written'
    BY <1>0, <1>4 DEF ToldInv, Written
  <2>3. Cleared'
    BY <1>0 DEF Cleared
  <2>4. QED
    BY <2>1, <2>2, <2>3
<1>7. PurgeReady'
  <2>1. InMaintenance(cur)' = InMaintenance(cur)
    BY <1>0, <1>2 DEF InMaintenance
  <2>2. QED
    BY <1>0, <1>1, <1>2, <1>5, <2>1 DEF ToldInv, PurgeReady
<1>8. Told' /\ Fresh'
  BY <1>0, <1>4, WordsKept DEF Queue
<1>9. QED
  BY <1>6, <1>7, <1>8 DEF Sync

\* The table is emptied by the panel, and every baseline dropped.
LEMMA ClearTableSync ==
    ASSUME Clear, ToldInv, [Next]_vars, ClearTable
    PROVE  Sync'
<1>0. /\ TypeOK /\ None \notin Monitor /\ \A m \in Module : forgot'[m]
      /\ UNCHANGED <<real, cur, mem, unsaved, run, tail, buf, cycle, snap, clearing, outbox, heard>>
  BY MonitorAssumption DEF ToldInv, Inv, ClearTable
<1>1. \A h \in Monitor : Busy(h)' <=> Busy(h)
  BY <1>0 DEF Busy, Quiet, Inflight
<1>2. Synced' /\ Written'
  BY <1>0 DEF Synced, Written, InSync
<1>3. Cleared'
  BY <1>0, <1>1, ClearedKept
<1>4. PurgeReady'
  <2>1. cur # None => InMaintenance(cur)' = InMaintenance(cur) /\ cur \in Monitor
    BY <1>0 DEF InMaintenance, TypeOK
  <2>2. QED
    BY <1>0, <1>1, <2>1 DEF ToldInv, PurgeReady, InSync
<1>5. Told' /\ Fresh'
  BY <1>0, WordsKept DEF Queue
<1>6. QED
  BY <1>2, <1>3, <1>4, <1>5 DEF Sync

LEMMA ClearSync ==
    ASSUME Clear, ToldInv, [Next]_vars, Clears
    PROVE  Sync'
BY ClearStatusSync, ClearBuildSync, ClearWriteSync, ClearTableSync DEF Clears, ClearStep

LEMMA ToldStep ==
    ASSUME Clear, ToldInv, [Next]_vars
    PROVE  ToldInv'
<1>1. Inv' /\ Order'
  BY InvStep, OrderStep DEF ToldInv
<1>2. CASE UNCHANGED vars
  <2>1. UNCHANGED <<stored, cur, mem, unsaved, forgot, snap, clearing, real, run, tail, buf, cycle, outbox, heard>>
    BY <1>2 DEF vars
  <2>2. \A h \in Monitor : Inflight(h)' = Inflight(h) /\ (Busy(h)' <=> Busy(h))
    BY <2>1 DEF Inflight, Busy, Quiet
  <2>3. Synced' /\ Written' /\ Cleared' /\ PurgeReady' /\ \A m \in Module : Known(m)' = Known(m)
    BY <2>1, <2>2, StatusKept
  <2>4. Told' /\ Fresh'
    BY <2>1, <2>3, WordsKept DEF Queue
  <2>5. QED
    BY <1>1, <2>3, <2>4 DEF ToldInv
<1>3. CASE Next
  <2>1. Sync'
    BY <1>3, WorldSync, StartSync, RunSync, LandSync, FlushSync, PurgeSync, PurgeWriteSync, ReadSync,
       DeadlineSync, SendSync, DisposeSync, ClearSync DEF Next, CycleStep, ModuleStep, Clears
  <2>2. QED
    BY <1>1, <2>1 DEF ToldInv, Sync
<1>4. QED
  BY <1>2, <1>3

LEMMA ToldInit ==
    ASSUME Init
    PROVE  ToldInv
<1>1. Inv
  BY InvInit
<1>2. \A g \in Monitor : Inflight(g) = {} /\ Quiet(g) /\ ~Busy(g)
  BY MonitorAssumption, IdleIsRun DEF Init, Inflight, Quiet, Busy, NoCycle
<1>3. Order
  BY <1>2, MonitorAssumption DEF Order, Alone, Tidy, TidyOK, PurgeOK, Pinned, Init, NoCycle, NoClear, Quiet
<1>4. Synced /\ Written /\ Cleared /\ PurgeReady
  BY <1>2 DEF Synced, Written, Cleared, PurgeReady, Init, NoCycle, NoClear
<1>5. Queue = << >>
  BY DEF Queue, QueueOf, Init
<1>6. Told
  BY <1>5 DEF Told, WordAfter, Init, Nothing, Known
<1>7. Fresh
  BY <1>5 DEF Fresh, News
<1>8. QED
  BY <1>1, <1>3, <1>4, <1>6, <1>7 DEF ToldInv

\* The last word is the last of the alerts on their way.
LEMMA LastWordIs ==
    ASSUME Inv, Order, NEW m \in Module
    PROVE  LastWord(m) = WordAfter(Queue, m, heard[m])
<1>0. outbox \in Seq(Alert) /\ buf \in [Monitor -> Seq(Alert)]
  BY DEF Inv, TypeOK
<1> DEFINE full == {g \in Monitor : open[g] /\ \E k \in DOMAIN buf[g] : buf[g][k].mod = m}
<1>1. PICK g \in Monitor : \A h \in Monitor \ {g} : buf[h] = << >>
  BY OneBuffer DEF Order
<1>2. Queue = outbox \o buf[g] /\ buf[g] \in Seq(Alert)
  BY <1>0, <1>1, QueueIs DEF Queue
<1>3. \A h \in full : h = g
  BY <1>1
<1>4. CASE full = {}
  <2>1. buf[g] # << >> => open[g]
    BY DEF Order, Tidy, TidyOK, Busy, Quiet
  <2>2. \A k \in DOMAIN buf[g] : buf[g][k].mod # m
    BY <1>2, <1>4, <2>1
  <2>3. WordAfter(Queue, m, heard[m]) = WordAfter(outbox, m, heard[m])
    BY <1>0, <1>2, <2>2, WordConcat
  <2>4. Unsent(m) = outbox
    BY <1>4 DEF Unsent
  <2>5. QED
    BY <2>3, <2>4 DEF LastWord
<1>5. CASE full # {}
  <2>1. full = {g}
    BY <1>3, <1>5
  <2> HIDE DEF full
  <2>2. (CHOOSE h \in full : TRUE) = g
    BY <2>1
  <2>3. Unsent(m) = outbox \o buf[g]
    BY <1>5, <2>2 DEF Unsent, full
  <2>4. QED
    BY <1>2, <2>3 DEF LastWord
<1>6. QED
  BY <1>4, <1>5

\* Clear of the races named in Excluded, whatever faults, stragglers, purges and disposals
\* there are, and whatever is saved while a clear is under way: an item recorded as failing has
\* been or is about to be reported DOWN, and one recorded as OK is not left reported DOWN
\* (executor.py, monitor.py, monitor_notifier.py).
THEOREM StateAlwaysTold ==
    ASSUME Clear
    PROVE  Spec => []StateIsTold
<1>1. ToldInv => StateIsTold
  <2> SUFFICES ASSUME ToldInv, NEW m \in Module, ~forgot[m]
               PROVE  /\ Known(m) = "down" => LastWord(m) = "down"
                      /\ Known(m) = "up" => LastWord(m) # "down"
    BY DEF StateIsTold
  <2>1. LastWord(m) = WordAfter(Queue, m, heard[m])
    BY LastWordIs DEF ToldInv
  <2>2. QED
    BY <2>1 DEF ToldInv, Told
<1>2. QED
  BY <1>1, ToldInit, ToldStep, PTL DEF Spec

\* Under the same condition no alert that is sent repeats what was last said of its item,
\* except after its baseline was dropped (checks_mixin.py, send_message).
THEOREM AlertsAlwaysNews ==
    ASSUME Clear
    PROVE  Spec => []AlertsAreNews
<1>1. ToldInv => AlertsAreNews
  <2> SUFFICES ASSUME ToldInv, outbox # << >>
               PROVE  Head(outbox).again \/ heard[Head(outbox).mod] # Head(outbox).st
    BY DEF AlertsAreNews
  <2>0. outbox \in Seq(Alert) /\ buf \in [Monitor -> Seq(Alert)]
    BY DEF ToldInv, Inv, TypeOK
  <2>1. PICK g \in Monitor : \A h \in Monitor \ {g} : buf[h] = << >>
    BY OneBuffer DEF ToldInv, Order
  <2>2. Queue = outbox \o buf[g] /\ Queue \in Seq(Alert) /\ buf[g] \in Seq(Alert)
    BY <2>0, <2>1, QueueIs DEF Queue
  <2>3. Queue # << >> /\ Head(Queue) = Head(outbox)
    BY <2>0, <2>2, ConcatProperties
  <2>4. QED
    BY <2>2, <2>3, NewsHead DEF ToldInv, Fresh
<1>2. QED
  BY <1>1, ToldInit, ToldStep, PTL DEF Spec
=============================================================================
