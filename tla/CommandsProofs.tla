--------------------------- MODULE CommandsProofs ---------------------------
(***************************************************************************)
(* Proofs about Commands: however many instances drain a queue at once, and *)
(* whatever fails, a command is carried out at most once, one that expired  *)
(* never is, and the outcome of a row is that of its run.                   *)
(***************************************************************************)
EXTENDS Commands, TLAPS

(***************************************************************************)
(* The inductive invariant.  A row is claimed once: the thread whose UPDATE *)
(* matched is the only one that goes on with the command, it has not been   *)
(* carried out before that thread does so, and until the thread reports     *)
(* back the row can only have been closed as abandoned.                     *)
(***************************************************************************)
Busy(d) == drain[d].pc \in {"fetch", "apply", "ack"}

DrainOK(d) ==
    Busy(d) => /\ rows[drain[d].cmd].st \in {"claimed", "closed", "deleted"}
               /\ rows[drain[d].cmd].out \in {"none", "abandoned"}
               /\ runs[drain[d].cmd] = IF drain[d].pc = "ack" THEN 1 ELSE 0

OneClaimer ==
    \A d, e \in Drainer : Busy(d) /\ Busy(e) /\ drain[d].cmd = drain[e].cmd => d = e

RowOK(c) ==
    /\ runs[c] \in {0, 1}
    /\ rows[c].st \in {"absent", "pending"} => runs[c] = 0
    /\ rows[c].st \in {"absent", "pending", "claimed"} => rows[c].out = "none"
    /\ rows[c].out = "expired" => runs[c] = 0
    /\ rows[c].out \in {"ok", "failed"} => runs[c] = 1

Inv ==
    /\ TypeOK
    /\ \A d \in Drainer : DrainOK(d)
    /\ OneClaimer
    /\ \A c \in Cmd : RowOK(c)

-----------------------------------------------------------------------------
LEMMA IdleType == Idle \in Drain
BY DEF Drain

LEMMA ClaimedRow ==
    ASSUME NEW row \in Row PROVE Claimed(row) \in Row
BY CmdAssumption DEF Claimed, Row, MaxAge

\* Where a thread is, and what it then knows.
LEMMA DrainFields ==
    ASSUME TypeOK, NEW d \in Drainer
    PROVE  /\ drain[d].pc \in {"idle", "select", "update", "fetch", "apply", "ack"}
           /\ drain[d].pc = "idle" => drain[d] = Idle
           /\ drain[d].pc = "select" => drain[d] \in Search
           /\ drain[d].pc \in {"update", "fetch", "apply", "ack"} =>
                 drain[d] \in Work /\ drain[d].cmd \in Cmd /\ drain[d].left \in 1 .. DrainMax
<1>1. drain[d] \in {Idle} \cup Search \cup Work
  BY DEF TypeOK, Drain
<1>2. CASE drain[d] = Idle
  BY <1>2 DEF Idle
<1>3. CASE drain[d] \in Search
  BY <1>3 DEF Search
<1>4. CASE drain[d] \in Work
  BY <1>4 DEF Work
<1>5. QED
  BY <1>1, <1>2, <1>3, <1>4

LEMMA DrainType ==
    ASSUME TypeOK, NEW d \in Drainer, NEW x \in Drain, drain' = [drain EXCEPT ![d] = x]
    PROVE  drain' \in [Drainer -> Drain]
BY DEF TypeOK

LEMMA RowType ==
    ASSUME TypeOK, NEW c \in Cmd, NEW x \in Row, rows' = [rows EXCEPT ![c] = x]
    PROVE  rows' \in [Cmd -> Row]
BY DEF TypeOK

LEMMA PrunedType == ASSUME NEW row \in Row PROVE Pruned(row) \in Row
BY CmdAssumption DEF Pruned, Row, Outcome, MaxAge

LEMMA TypeStep == TypeOK /\ [Next]_vars => TypeOK'
<1> SUFFICES ASSUME TypeOK, [Next]_vars PROVE TypeOK'
  OBVIOUS
<1> USE CmdAssumption, IdleType
<1>1. ASSUME NEW c \in Cmd, Enqueue(c) PROVE TypeOK'
  BY <1>1 DEF Enqueue, TypeOK, Row
<1>2. ASSUME NEW r \in Replica, Renewed(r) PROVE TypeOK'
  BY <1>2 DEF Renewed, TypeOK
<1>3. ASSUME NEW d \in Drainer, StartDrain(d) PROVE TypeOK'
  <2>1. [pc |-> "select", cmd |-> 0, left |-> DrainMax, ok |-> FALSE] \in Drain
    BY DEF Search, Drain
  <2>2. drain' \in [Drainer -> Drain]
    BY <1>3, <2>1, DrainType DEF StartDrain
  <2>3. QED
    BY <1>3, <2>2 DEF StartDrain, TypeOK
<1>4. ASSUME NEW d \in Drainer, ClaimSelect(d) PROVE TypeOK'
  <2>1. drain' \in [Drainer -> Drain]
    <3>1. CASE Pending = {}
      BY <1>4, <3>1, DrainType DEF ClaimSelect
    <3>2. CASE Pending # {}
      <4>1. PICK c \in Pending : drain' = [drain EXCEPT ![d] = [@ EXCEPT !.pc = "update", !.cmd = c]]
        BY <1>4, <3>2 DEF ClaimSelect
      <4>2. QED
        <5>1. drain[d] \in Search /\ c \in Cmd
          BY <1>4, DrainFields DEF ClaimSelect, Pending
        <5>2. [drain[d] EXCEPT !.pc = "update", !.cmd = c] \in Work
          BY <5>1 DEF Search, Work
        <5>3. QED
          BY <4>1, <5>2, DrainType DEF Drain
    <3>3. QED
      BY <3>1, <3>2
  <2>2. QED
    BY <1>4, <2>1 DEF ClaimSelect, TypeOK
<1>5. ASSUME NEW d \in Drainer, ClaimUpdate(d) PROVE TypeOK'
  <2> DEFINE x == [drain[d] EXCEPT !.pc = "fetch"]
             y == Claimed(rows[drain[d].cmd])
  <2>0. drain[d].cmd \in Cmd
    BY <1>5, DrainFields DEF ClaimUpdate
  <2>1. drain' \in [Drainer -> Drain]
    <3>1. x \in Drain
      <4>1. drain[d] \in Work
        BY <1>5, DrainFields DEF ClaimUpdate
      <4>2. QED
        BY <4>1 DEF Work, Drain
    <3>2. drain' = [drain EXCEPT ![d] = x] \/ drain' = [drain EXCEPT ![d] = Idle]
      BY <1>5 DEF ClaimUpdate
    <3>3. QED
      BY <3>1, <3>2, DrainType
  <2>2. rows' \in [Cmd -> Row]
    <3>1. y \in Row
      <4>1. rows[drain[d].cmd] \in Row
        BY <2>0 DEF TypeOK
      <4>2. QED
        BY <4>1, ClaimedRow
    <3>2. rows' = rows \/ rows' = [rows EXCEPT ![drain[d].cmd] = y]
      BY <1>5 DEF ClaimUpdate
    <3>3. QED
      BY <2>0, <3>1, <3>2, RowType DEF TypeOK
  <2>3. QED
    BY <1>5, <2>1, <2>2 DEF ClaimUpdate, TypeOK
<1>6. ASSUME NEW d \in Drainer, ClaimFetch(d) PROVE TypeOK'
  <2>1. drain' \in [Drainer -> Drain]
    <3>1. [drain[d] EXCEPT !.pc = "apply"] \in Drain
      <4>1. drain[d] \in Work
        BY <1>6, DrainFields DEF ClaimFetch
      <4>2. QED
        BY <4>1 DEF Work, Drain
    <3>2. QED
      BY <1>6, <3>1, DrainType DEF ClaimFetch
  <2>2. QED
    BY <1>6, <2>1 DEF ClaimFetch, TypeOK
<1>7. ASSUME NEW d \in Drainer, ClaimError(d) PROVE TypeOK'
  <2>1. rows' \in [Cmd -> Row]
    <3>1. CASE UNCHANGED rows
      BY <3>1 DEF TypeOK
    <3>2. CASE rows' # rows
      <4> DEFINE y == Claimed(rows[drain[d].cmd])
      <4>1. drain[d].cmd \in Cmd /\ rows' = [rows EXCEPT ![drain[d].cmd] = y]
        BY <1>7, <3>2, DrainFields DEF ClaimError
      <4>2. y \in Row
        <5>1. rows[drain[d].cmd] \in Row
          BY <4>1 DEF TypeOK
        <5>2. QED
          BY <5>1, ClaimedRow
      <4>3. QED
        BY <4>1, <4>2, RowType
    <3>3. QED
      BY <3>1, <3>2
  <2>2. QED
    BY <1>7, <2>1 DEF ClaimError, Fault, TypeOK
<1>8. ASSUME NEW d \in Drainer, Apply(d) PROVE TypeOK'
  <2>1. drain' \in [Drainer -> Drain]
    <3>1. PICK ok \in BOOLEAN : drain' = [drain EXCEPT ![d] = [@ EXCEPT !.pc = "ack", !.ok = ok]]
      BY <1>8 DEF Apply
    <3>2. [drain[d] EXCEPT !.pc = "ack", !.ok = ok] \in Drain
      <4>1. drain[d] \in Work
        BY <1>8, DrainFields DEF Apply
      <4>2. QED
        BY <4>1 DEF Work, Drain
    <3>3. QED
      BY <3>1, <3>2, DrainType
  <2>2. runs' \in [Cmd -> Nat]
    <3>1. drain[d].cmd \in Cmd
      BY <1>8, DrainFields DEF Apply
    <3>2. QED
      BY <1>8, <3>1 DEF Apply, TypeOK
  <2>3. QED
    BY <1>8, <2>1, <2>2 DEF Apply, TypeOK
<1>9. ASSUME NEW d \in Drainer, Complete(d) PROVE TypeOK'
  <2>1. rows' \in [Cmd -> Row]
    BY <1>9 DEF Complete, TypeOK, Row, Outcome, MaxAge
  <2>2. drain' \in [Drainer -> Drain]
    <3> DEFINE x == [pc |-> "select", cmd |-> 0, left |-> drain[d].left - 1, ok |-> FALSE]
    <3>1. drain[d].left \in 1 .. DrainMax
      BY <1>9, DrainFields DEF Complete
    <3>2. drain[d].left # 1 => x \in Drain
      BY <3>1 DEF Search, Drain
    <3>3. \/ drain[d].left # 1 /\ drain' = [drain EXCEPT ![d] = x]
          \/ drain' = [drain EXCEPT ![d] = Idle]
      BY <1>9 DEF Complete
    <3>4. QED
      BY <3>2, <3>3, DrainType
  <2>3. QED
    BY <1>9, <2>1, <2>2 DEF Complete, Fault, TypeOK
<1>10. ASSUME Prune PROVE TypeOK'
  BY <1>10, PrunedType DEF Prune, TypeOK
<1>11. ASSUME NEW r \in Replica, Crash(r) PROVE TypeOK'
  BY <1>11 DEF Crash, Fault, TypeOK
<1>12. ASSUME Tick PROVE TypeOK'
  <2>1. rows' \in [Cmd -> Row]
    <3>1. ASSUME NEW c \in Cmd, rows[c].age # MaxAge PROVE [rows[c] EXCEPT !.age = @ + 1] \in Row
      BY <3>1 DEF TypeOK, Row, MaxAge
    <3>2. QED
      BY <1>12, <3>1 DEF Tick, TypeOK
  <2>2. QED
    BY <1>12, <2>1 DEF Tick, TypeOK
<1>13. CASE UNCHANGED vars
  BY <1>13 DEF vars, TypeOK
<1>14. QED
  BY <1>1, <1>2, <1>3, <1>4, <1>5, <1>6, <1>7, <1>8, <1>9, <1>10, <1>11, <1>12, <1>13
     DEF Next, DrainStep

\* The rows, the flags and the threads keep their types.
THEOREM TypeCorrect == Spec => []TypeOK
<1>1. Init => TypeOK
  BY CmdAssumption, IdleType DEF Init, TypeOK, Row, Outcome, MaxAge
<1>2. QED
  BY <1>1, TypeStep, PTL DEF Spec

-----------------------------------------------------------------------------
InvCore == (\A d \in Drainer : DrainOK(d)) /\ OneClaimer /\ (\A c \in Cmd : RowOK(c))

LEMMA InvInit == Init => InvCore
BY DEF Init, InvCore, DrainOK, Busy, OneClaimer, RowOK, Idle

\* A thread goes on with what it had claimed, whose row is not reopened.
Keeps(d) ==
    Busy(d)' =>
        /\ Busy(d) /\ drain'[d].cmd = drain[d].cmd
        /\ drain'[d].pc = "ack" <=> drain[d].pc = "ack"
        /\ rows'[drain[d].cmd].st \in {"claimed", "closed", "deleted"}
        /\ rows'[drain[d].cmd].out \in {"none", "abandoned"}

\* A step that neither claims nor carries out a command.
LEMMA Bystander ==
    ASSUME Inv, runs' = runs, \A c \in Cmd : RowOK(c)', \A d \in Drainer : Keeps(d)
    PROVE  InvCore'
<1>1. \A d \in Drainer : DrainOK(d)'
  BY DEF Inv, DrainOK, Keeps
<1>2. OneClaimer'
  BY DEF Inv, OneClaimer, Keeps
<1>3. QED
  BY <1>1, <1>2 DEF InvCore

\* The row of a claimed command, as Inv has it.
LEMMA BusyRow ==
    ASSUME Inv, NEW d \in Drainer, Busy(d)
    PROVE  /\ drain[d].cmd \in Cmd
           /\ rows[drain[d].cmd].st \in {"claimed", "closed", "deleted"}
           /\ rows[drain[d].cmd].out \in {"none", "abandoned"}
BY DrainFields DEF Inv, DrainOK, Busy

LEMMA InvNext == Inv /\ [Next]_vars => InvCore'
<1> SUFFICES ASSUME Inv, [Next]_vars PROVE InvCore'
  OBVIOUS
<1>0. TypeOK /\ TypeOK'
  BY TypeStep DEF Inv
<1>1. ASSUME NEW c \in Cmd, Enqueue(c) PROVE InvCore'
  <2>1. rows[c].st = "absent" /\ rows' = [rows EXCEPT ![c].st = "pending"]
        /\ UNCHANGED <<drain, runs>>
    BY <1>1 DEF Enqueue
  <2>2. rows'[c].st = "pending" /\ rows'[c].out = rows[c].out
        /\ \A e \in Cmd : e # c => rows'[e] = rows[e]
    BY <1>0, <2>1 DEF TypeOK, Row
  <2>3. \A e \in Cmd : RowOK(e)'
    BY <2>1, <2>2 DEF Inv, RowOK
  <2>4. QED
    <3>1. \A d \in Drainer : Keeps(d)
      BY <2>1, <2>2, BusyRow DEF Keeps, Busy
    <3>2. QED
      BY <2>1, <2>3, <3>1, Bystander
<1>2. ASSUME NEW r \in Replica, Renewed(r) PROVE InvCore'
  BY <1>2 DEF Renewed, Inv, InvCore, DrainOK, Busy, OneClaimer, RowOK
<1>3. ASSUME NEW d \in Drainer, StartDrain(d) \/ ClaimSelect(d) PROVE InvCore'
  <2>1. UNCHANGED <<rows, runs>>
    BY <1>3 DEF StartDrain, ClaimSelect
  <2>2. ~Busy(d)' /\ \A e \in Drainer : e # d => drain'[e] = drain[e]
    <3>1. CASE StartDrain(d)
      BY <1>0, <3>1 DEF StartDrain, Busy, TypeOK
    <3>2. CASE ClaimSelect(d)
      <4>1. drain[d] \in Search
        BY <1>0, <3>2, DrainFields DEF ClaimSelect
      <4>2. \E c : drain' = [drain EXCEPT ![d] = [@ EXCEPT !.pc = "update", !.cmd = c]]
                  \/ drain' = [drain EXCEPT ![d] = Idle]
        BY <3>2 DEF ClaimSelect
      <4>3. QED
        <5>1. drain'[d].pc \in {"update", "idle"}
          <6>1. CASE drain' = [drain EXCEPT ![d] = Idle]
            BY <1>0, <6>1 DEF TypeOK, Idle
          <6>2. CASE \E c : drain' = [drain EXCEPT ![d] = [@ EXCEPT !.pc = "update", !.cmd = c]]
            <7>1. PICK c : drain' = [drain EXCEPT ![d] = [@ EXCEPT !.pc = "update", !.cmd = c]]
              BY <6>2
            <7>2. drain'[d] = [drain[d] EXCEPT !.pc = "update", !.cmd = c]
              BY <1>0, <7>1 DEF TypeOK
            <7>3. QED
              BY <4>1, <7>2 DEF Search
          <6>3. QED
            BY <4>2, <6>1, <6>2
        <5>2. \A e \in Drainer : e # d => drain'[e] = drain[e]
          BY <1>0, <4>2 DEF TypeOK
        <5>3. QED
          BY <5>1, <5>2 DEF Busy
    <3>3. QED
      BY <1>3, <3>1, <3>2
  <2>3. \A e \in Cmd : RowOK(e)'
    BY <2>1 DEF Inv, RowOK
  <2>4. QED
    <3>1. \A e \in Drainer : Keeps(e)
      BY <2>1, <2>2, BusyRow DEF Keeps, Busy
    <3>2. QED
      BY <2>1, <2>3, <3>1, Bystander
<1>4. ASSUME NEW d \in Drainer, ClaimFetch(d) PROVE InvCore'
  <2>1. UNCHANGED <<rows, runs>>
    BY <1>4 DEF ClaimFetch
  <2>2. /\ ~Busy(d)' \/ (drain[d].pc = "fetch" /\ drain'[d].pc = "apply" /\ drain'[d].cmd = drain[d].cmd)
        /\ \A e \in Drainer : e # d => drain'[e] = drain[e]
    BY <1>0, <1>4, DrainFields DEF ClaimFetch, Busy, TypeOK, Idle, Work
  <2>3. \A e \in Cmd : RowOK(e)'
    BY <2>1 DEF Inv, RowOK
  <2>4. QED
    <3>1. \A e \in Drainer : Keeps(e)
      BY <2>1, <2>2, BusyRow DEF Keeps, Busy
    <3>2. QED
      BY <2>1, <2>3, <3>1, Bystander
<1>5. ASSUME NEW d \in Drainer, ClaimUpdate(d) \/ ClaimError(d) PROVE InvCore'
  <2> DEFINE c == drain[d].cmd
  <2>1. /\ UNCHANGED runs
        /\ \A e \in Drainer : e # d => drain'[e] = drain[e]
    BY <1>0, <1>5 DEF ClaimUpdate, ClaimError, TypeOK
  <2>2. CASE rows' = rows /\ ~Busy(d)'
    <3>1. \A e \in Cmd : RowOK(e)'
      BY <2>1, <2>2 DEF Inv, RowOK
    <3>2. QED
      <4>1. \A e \in Drainer : Keeps(e)
        BY <2>1, <2>2, BusyRow DEF Keeps, Busy
      <4>2. QED
        BY <2>1, <3>1, <4>1, Bystander
  <2>3. CASE /\ drain[d].pc = "update" /\ Claimable(c)
             /\ rows' = [rows EXCEPT ![c] = Claimed(@)]
             /\ Busy(d)' => drain'[d].pc = "fetch" /\ drain'[d].cmd = c
    <3>1. c \in Cmd /\ rows[c].st = "pending" /\ rows[c].out = "none" /\ runs[c] = 0
      BY <1>0, <2>3, DrainFields DEF Claimable, Inv, RowOK
    <3>2. rows'[c].st = "claimed" /\ rows'[c].out = "none"
          /\ \A e \in Cmd : e # c => rows'[e] = rows[e]
      BY <1>0, <2>3, <3>1 DEF TypeOK, Claimed
    <3>3. \A e \in Cmd : RowOK(e)'
      BY <2>1, <3>1, <3>2 DEF Inv, RowOK
    <3>4. ~Busy(d)
      BY <2>3 DEF Busy
    <3>5. \A e \in Drainer : Busy(e) => drain[e].cmd \in Cmd /\ drain[e].cmd # c
      BY <1>0, <3>1, DrainFields DEF Inv, DrainOK, Busy
    <3>6. \A e \in Drainer : e # d => (Busy(e)' <=> Busy(e))
      BY <2>1 DEF Busy
    <3>7. \A e \in Drainer : DrainOK(e)'
      BY <2>1, <2>3, <3>1, <3>2, <3>5, <3>6 DEF Inv, DrainOK
    <3>8. OneClaimer'
      BY <2>1, <2>3, <3>5, <3>6 DEF Inv, OneClaimer
    <3>9. QED
      BY <3>3, <3>7, <3>8 DEF InvCore
  <2>4. QED
    <3>1. CASE ClaimUpdate(d)
      <4>1. CASE Claimable(c)
        <5>1. drain' = [drain EXCEPT ![d].pc = "fetch"] /\ drain[d].pc = "update"
              /\ rows' = [rows EXCEPT ![c] = Claimed(@)]
          BY <3>1, <4>1 DEF ClaimUpdate
        <5>2. drain'[d].pc = "fetch" /\ drain'[d].cmd = c
          BY <1>0, <5>1, DrainFields DEF TypeOK, Work
        <5>3. QED
          BY <2>3, <4>1, <5>1, <5>2
      <4>2. CASE ~Claimable(c)
        <5>1. drain'[d] = Idle /\ rows' = rows
          BY <1>0, <3>1, <4>2 DEF ClaimUpdate, TypeOK
        <5>2. QED
          BY <2>2, <5>1 DEF Busy, Idle
      <4>3. QED
        BY <4>1, <4>2
    <3>2. CASE ClaimError(d)
      <4>1. drain'[d] = Idle
        BY <1>0, <3>2 DEF ClaimError, TypeOK
      <4>2. ~Busy(d)'
        BY <4>1 DEF Busy, Idle
      <4>3. QED
        BY <2>2, <2>3, <3>2, <4>2 DEF ClaimError
    <3>3. QED
      BY <1>5, <3>1, <3>2
<1>6. ASSUME NEW d \in Drainer, Apply(d) PROVE InvCore'
  <2> DEFINE c == drain[d].cmd
  <2>1. drain[d].pc = "apply" /\ c \in Cmd /\ Busy(d) /\ drain[d] \in Work
    BY <1>0, <1>6, DrainFields DEF Apply, Busy
  <2>2. runs[c] = 0 /\ rows[c].st \in {"claimed", "closed", "deleted"}
        /\ rows[c].out \in {"none", "abandoned"}
    BY <2>1 DEF Inv, DrainOK
  <2>3. /\ rows' = rows
        /\ runs'[c] = 1 /\ \A e \in Cmd : e # c => runs'[e] = runs[e]
        /\ drain'[d].pc = "ack" /\ drain'[d].cmd = c
        /\ \A e \in Drainer : e # d => drain'[e] = drain[e]
    BY <1>0, <1>6, <2>1, <2>2 DEF Apply, TypeOK, Work
  <2>4. \A e \in Drainer : e # d => (Busy(e)' <=> Busy(e)) /\ (Busy(e) => drain[e].cmd # c)
    BY <2>1, <2>3 DEF Busy, Inv, OneClaimer
  <2>5. \A e \in Drainer : DrainOK(e)'
    <3>1. DrainOK(d)'
      BY <2>2, <2>3 DEF DrainOK
    <3>2. ASSUME NEW e \in Drainer, e # d, Busy(e) PROVE DrainOK(e)'
      <4>1. drain[e].cmd \in Cmd
        BY <1>0, <3>2, DrainFields DEF Busy
      <4>2. QED
        BY <2>3, <2>4, <3>2, <4>1 DEF Inv, DrainOK
    <3>3. QED
      BY <2>4, <3>1, <3>2 DEF DrainOK
  <2>6. OneClaimer'
    BY <2>3, <2>4 DEF Inv, OneClaimer
  <2>7. \A e \in Cmd : RowOK(e)'
    BY <2>2, <2>3 DEF Inv, RowOK
  <2>8. QED
    BY <2>5, <2>6, <2>7 DEF InvCore
<1>7. ASSUME NEW d \in Drainer, Complete(d) PROVE InvCore'
  <2> DEFINE c == drain[d].cmd
  <2>1. drain[d].pc = "ack" /\ c \in Cmd /\ Busy(d)
    BY <1>0, <1>7, DrainFields DEF Complete, Busy
  <2>2. runs[c] = 1 /\ rows[c].st \in {"claimed", "closed", "deleted"}
        /\ rows[c].out \in {"none", "abandoned"}
    BY <2>1 DEF Inv, DrainOK
  <2>3. /\ UNCHANGED runs /\ ~Busy(d)'
        /\ \A e \in Drainer : e # d => drain'[e] = drain[e]
    BY <1>0, <1>7 DEF Complete, TypeOK, Busy, Idle
  <2>4. /\ \A e \in Cmd : e # c => rows'[e] = rows[e]
        /\ rows'[c] = rows[c] \/ (rows'[c].st = "closed" /\ rows'[c].out \in {"ok", "failed"})
    <3>1. CASE rows' = rows
      <4>1. \A e \in Cmd : rows'[e] = rows[e]
        BY <3>1
      <4>2. QED
        BY <2>1, <4>1
    <3>2. CASE rows' = [rows EXCEPT ![c] =
                  IF @.st = "deleted" THEN @
                  ELSE [st |-> "closed", out |-> IF drain[d].ok THEN "ok" ELSE "failed", age |-> 0]]
      <4> DEFINE y == IF rows[c].st = "deleted" THEN rows[c]
                      ELSE [st |-> "closed", out |-> IF drain[d].ok THEN "ok" ELSE "failed", age |-> 0]
      <4>1. y = rows[c] \/ (y.st = "closed" /\ y.out \in {"ok", "failed"})
        OBVIOUS
      <4>2. rows'[c] = y /\ \A e \in Cmd : e # c => rows'[e] = rows[e]
        BY <1>0, <2>1, <3>2 DEF TypeOK
      <4>3. QED
        BY <4>1, <4>2
    <3>3. QED
      BY <1>7, <3>1, <3>2 DEF Complete
  <2>5. \A e \in Cmd : RowOK(e)'
    BY <2>2, <2>3, <2>4 DEF Inv, RowOK
  <2>6. \A e \in Drainer : Busy(e)' =>
            /\ e # d /\ Busy(e) /\ drain[e].cmd # c /\ drain[e].cmd \in Cmd
    BY <1>0, <2>1, <2>3, DrainFields DEF Busy, Inv, OneClaimer
  <2>7. QED
    <3>1. \A e \in Drainer : Keeps(e)
      BY <2>3, <2>4, <2>6, BusyRow DEF Keeps
    <3>2. QED
      BY <2>3, <2>5, <3>1, Bystander
<1>8. ASSUME Prune PROVE InvCore'
  <2>1. UNCHANGED <<drain, runs>> /\ \A c \in Cmd : rows'[c] = Pruned(rows[c])
    BY <1>8 DEF Prune
  <2>2. \A c \in Cmd : RowOK(c)'
    BY <1>0, <2>1 DEF Inv, RowOK, Pruned, TypeOK, Row
  <2>3. ASSUME NEW d \in Drainer, Busy(d)
        PROVE  /\ rows'[drain[d].cmd].st \in {"claimed", "closed", "deleted"}
               /\ rows'[drain[d].cmd].out \in {"none", "abandoned"}
    <3>1. drain[d].cmd \in Cmd
      BY <1>0, <2>3, DrainFields DEF Busy
    <3>2. QED
      BY <1>0, <2>1, <2>3, <3>1 DEF Inv, DrainOK, Pruned, TypeOK, Row
  <2>4. \A d \in Drainer : Busy(d)' <=> Busy(d)
    BY <2>1 DEF Busy
  <2>5. QED
    <3>1. \A d \in Drainer : Keeps(d)
      BY <2>1, <2>3, <2>4 DEF Keeps
    <3>2. QED
      BY <2>1, <2>2, <3>1, Bystander
<1>9. ASSUME NEW r \in Replica, Crash(r) PROVE InvCore'
  <2>1. UNCHANGED <<rows, runs>> /\ \A d \in Drainer : drain'[d] = drain[d] \/ drain'[d] = Idle
    BY <1>9 DEF Crash
  <2>2. \A d \in Drainer : drain'[d] = drain[d] \/ ~Busy(d)'
    BY <2>1 DEF Busy, Idle
  <2>3. \A c \in Cmd : RowOK(c)'
    BY <2>1 DEF Inv, RowOK
  <2>4. \A d \in Drainer : Busy(d)' => Busy(d)
    BY <2>2 DEF Busy
  <2>5. QED
    <3>1. \A d \in Drainer : Keeps(d)
      BY <2>1, <2>2, <2>4, BusyRow DEF Keeps
    <3>2. QED
      BY <2>1, <2>3, <3>1, Bystander
<1>10. ASSUME Tick PROVE InvCore'
  <2>1. UNCHANGED <<drain, runs>>
        /\ \A c \in Cmd : rows'[c].st = rows[c].st /\ rows'[c].out = rows[c].out
    BY <1>0, <1>10 DEF Tick, TypeOK, Row
  <2>2. \A c \in Cmd : RowOK(c)'
    BY <2>1 DEF Inv, RowOK
  <2>3. \A d \in Drainer : (Busy(d)' <=> Busy(d)) /\ (Busy(d) => drain[d].cmd \in Cmd)
    BY <1>0, <2>1, DrainFields DEF Busy
  <2>4. QED
    <3>1. \A d \in Drainer : Keeps(d)
      BY <2>1, <2>3, BusyRow DEF Keeps
    <3>2. QED
      BY <2>1, <2>2, <3>1, Bystander
<1>11. CASE UNCHANGED vars
  BY <1>11 DEF vars, Inv, InvCore, DrainOK, Busy, OneClaimer, RowOK
<1>12. QED
  BY <1>1, <1>2, <1>3, <1>4, <1>5, <1>6, <1>7, <1>8, <1>9, <1>10, <1>11 DEF Next, DrainStep

LEMMA InvAlways == Spec => []Inv
<1>1. Init => Inv
  BY CmdAssumption, IdleType, InvInit DEF InvCore, Inv, Init, TypeOK, Row, Outcome, MaxAge
<1>2. Inv /\ [Next]_vars => Inv'
  BY InvNext, TypeStep DEF Inv, InvCore
<1>3. QED
  BY <1>1, <1>2, PTL DEF Spec

\* Each command of the queue is carried out at most once, by one instance, for
\* any number of instances, threads and commands (claim_next's conditional
\* UPDATE).
THEOREM CommandsRunOnce == Spec => []AtMostOnce
<1>1. Inv => AtMostOnce
  BY DEF Inv, RowOK, AtMostOnce
<1>2. QED
  BY <1>1, InvAlways, PTL

\* What prune closes as expired is not carried out, whichever drain had read it.
THEOREM ExpiredStaysUnrun == Spec => []ExpiredNeverRuns
<1>1. Inv => ExpiredNeverRuns
  <2> SUFFICES ASSUME Inv, NEW c \in Cmd, rows[c].out = "expired"
               PROVE  runs[c] = 0 /\ \A d \in Drainer : drain[d].cmd = c => drain[d].pc = "update"
    BY DEF ExpiredNeverRuns
  <2>1. runs[c] = 0
    BY DEF Inv, RowOK
  <2>2. ASSUME NEW d \in Drainer, drain[d].cmd = c PROVE drain[d].pc = "update"
    <3>1. ~Busy(d)
      BY <2>2 DEF Inv, DrainOK
    <3>2. c # 0
      BY CmdAssumption DEF Cmd
    <3>3. drain[d].pc \notin {"idle", "select"}
      <4>1. TypeOK
        BY DEF Inv
      <4>2. drain[d].pc = "idle" => drain[d].cmd = 0
        BY <4>1, DrainFields DEF Idle
      <4>3. drain[d].pc = "select" => drain[d].cmd = 0
        BY <4>1, DrainFields DEF Search
      <4>4. QED
        BY <2>2, <3>2, <4>2, <4>3
    <3>4. QED
      BY <3>1, <3>3, DrainFields DEF Busy, Inv
  <2>3. QED
    BY <2>1, <2>2
<1>2. QED
  BY <1>1, InvAlways, PTL

\* The outcome the panel shows is that of the run, and is not taken back: the
\* action property of the drains, of prune and of complete().
THEOREM OutcomesAreStable == Spec => OutcomeStable
<1> DEFINE A == \A c \in Cmd :
          /\ rows'[c].out \in {"ok", "failed"} => runs'[c] = 1
          /\ rows[c].out # rows'[c].out => rows[c].out \in {"none", "abandoned"}
<1>1. Inv /\ Inv' /\ [Next]_vars => A
  <2> SUFFICES ASSUME Inv, Inv', [Next]_vars, NEW c \in Cmd, rows[c].out # rows'[c].out
               PROVE  rows[c].out \in {"none", "abandoned"}
    BY DEF Inv, RowOK
  <2>0. TypeOK
    BY DEF Inv
  <2>1. ASSUME NEW e \in Cmd, Enqueue(e) PROVE FALSE
    BY <2>0, <2>1 DEF Enqueue, TypeOK, Row
  <2>2. ASSUME NEW r \in Replica, Renewed(r) \/ Crash(r) PROVE FALSE
    BY <2>2 DEF Renewed, Crash
  <2>3. ASSUME NEW d \in Drainer, StartDrain(d) \/ ClaimSelect(d) \/ ClaimFetch(d) \/ Apply(d)
        PROVE  FALSE
    BY <2>3 DEF StartDrain, ClaimSelect, ClaimFetch, Apply
  <2>4. ASSUME NEW d \in Drainer, ClaimUpdate(d) \/ ClaimError(d) PROVE FALSE
    <3>1. rows' = rows \/ rows' = [rows EXCEPT ![drain[d].cmd] = Claimed(@)]
      BY <2>4 DEF ClaimUpdate, ClaimError
    <3>2. QED
      BY <2>0, <3>1 DEF TypeOK, Claimed
  <2>5. ASSUME NEW d \in Drainer, Complete(d) PROVE rows[c].out \in {"none", "abandoned"}
    <3>1. Busy(d) /\ drain[d].cmd \in Cmd
      BY <2>0, <2>5, DrainFields DEF Complete, Busy
    <3>2. c = drain[d].cmd
      BY <2>0, <2>5, <3>1 DEF Complete, TypeOK
    <3>3. QED
      BY <3>1, <3>2 DEF Inv, DrainOK
  <2>6. ASSUME Prune PROVE rows[c].out \in {"none", "abandoned"}
    BY <2>0, <2>6 DEF Prune, Pruned, Inv, RowOK, TypeOK, Row
  <2>7. ASSUME Tick PROVE FALSE
    BY <2>0, <2>7 DEF Tick, TypeOK, Row
  <2>8. ~UNCHANGED vars
    BY DEF vars
  <2>9. QED
    BY <2>1, <2>2, <2>3, <2>4, <2>5, <2>6, <2>7, <2>8 DEF Next, DrainStep
<1>2. QED
  BY <1>1, InvAlways, PTL DEF Spec, OutcomeStable

(***************************************************************************)
(* The queue implements Mailbox.  A step is condensed into what it may do   *)
(* to one command, of which an abstract step remains.  That the oldest is   *)
(* taken rests on the order of the ids: what a drain has selected stays the *)
(* oldest pending one for as long as it is pending.                         *)
(***************************************************************************)
Same(c) == rows'[c].out = rows[c].out /\ runs'[c] = runs[c]

Claims(c) ==
    /\ rows[c].st = "pending" /\ rows'[c].st = "claimed" /\ Same(c)
    /\ \E d \in Drainer : drain[d].pc = "update" /\ drain[d].cmd = c

Reports(c) ==
    /\ rows[c].st \in {"claimed", "closed"} /\ rows'[c].st = "closed"
    /\ rows[c].out \in {"none", "abandoned"} /\ rows'[c].out \in {"ok", "failed"}
    /\ runs'[c] = runs[c] /\ runs[c] = 1

Life(c) ==
    \/ rows'[c].st = rows[c].st /\ Same(c)
    \/ /\ rows[c].st = "absent" /\ rows'[c].st = "pending" /\ Same(c)
       /\ \A e \in Cmd : e < c => rows[e].st # "absent"
    \/ Claims(c)
    \/ /\ rows[c].st \in {"claimed", "closed", "deleted"} /\ rows[c].out \in {"none", "abandoned"}
       /\ rows'[c] = rows[c] /\ runs[c] = 0 /\ runs'[c] = 1
    \/ Reports(c)
    \/ /\ rows[c].st = "claimed" /\ rows'[c].st = "closed"
       /\ rows'[c].out = "abandoned" /\ runs'[c] = runs[c]
    \/ /\ rows[c].st = "pending" /\ rows'[c].st = "closed"
       /\ rows'[c].out = "expired" /\ runs'[c] = runs[c]
    \/ rows[c].st = "closed" /\ rows'[c].st = "deleted" /\ Same(c)

LEMMA LifeSteps == ASSUME Inv, [Next]_vars, NEW c \in Cmd PROVE Life(c)
<1>1. TypeOK
  BY DEF Inv
<1>2. ASSUME rows' = rows, runs' = runs PROVE Life(c)
  BY <1>2 DEF Life, Same
<1>3. ASSUME NEW e \in Cmd, Enqueue(e) PROVE Life(c)
  <2>1. CASE e = c
    BY <1>1, <1>3, <2>1 DEF Enqueue, TypeOK, Row, Life, Same
  <2>2. CASE e # c
    BY <1>1, <1>3, <2>2 DEF Enqueue, TypeOK, Life, Same
  <2>3. QED
    BY <2>1, <2>2
<1>4. ASSUME NEW d \in Drainer, ClaimUpdate(d) \/ ClaimError(d) PROVE Life(c)
  <2>1. runs' = runs
    BY <1>4 DEF ClaimUpdate, ClaimError
  <2>2. \/ rows' = rows
        \/ /\ drain[d].pc = "update" /\ Claimable(drain[d].cmd)
           /\ rows' = [rows EXCEPT ![drain[d].cmd] = Claimed(@)]
    BY <1>4 DEF ClaimUpdate, ClaimError
  <2>3. CASE rows'[c] = rows[c]
    BY <2>1, <2>3 DEF Life, Same
  <2>4. CASE rows'[c] # rows[c]
    <3>1. drain[d].pc = "update" /\ drain[d].cmd = c /\ rows[c].st = "pending"
      BY <1>1, <2>2, <2>4 DEF TypeOK, Claimable
    <3>2. rows'[c] = Claimed(rows[c])
      BY <1>1, <2>2, <2>4, <3>1 DEF TypeOK
    <3>3. rows'[c].st = "claimed" /\ rows'[c].out = rows[c].out
      BY <3>2 DEF Claimed
    <3>4. QED
      BY <2>1, <3>1, <3>3 DEF Life, Claims, Same
  <2>5. QED
    BY <2>3, <2>4
<1>5. ASSUME NEW d \in Drainer, Apply(d) PROVE Life(c)
  <2>1. Busy(d) /\ drain[d].pc = "apply" /\ rows' = rows /\ runs' = [runs EXCEPT ![drain[d].cmd] = @ + 1]
    BY <1>5 DEF Apply, Busy
  <2>2. CASE drain[d].cmd = c
    <3>1. runs[c] = 0 /\ runs'[c] = 1
      BY <1>1, <2>1, <2>2 DEF Inv, DrainOK, TypeOK
    <3>2. QED
      BY <2>1, <2>2, <3>1, BusyRow DEF Life
  <2>3. CASE drain[d].cmd # c
    BY <1>1, <2>1, <2>3 DEF Life, Same, TypeOK
  <2>4. QED
    BY <2>2, <2>3
<1>6. ASSUME NEW d \in Drainer, Complete(d) PROVE Life(c)
  <2>1. Busy(d) /\ drain[d].pc = "ack" /\ runs' = runs
    BY <1>6 DEF Complete, Busy
  <2>2. \/ rows' = rows
        \/ rows' = [rows EXCEPT ![drain[d].cmd] =
              IF @.st = "deleted" THEN @
              ELSE [st |-> "closed", out |-> IF drain[d].ok THEN "ok" ELSE "failed", age |-> 0]]
    BY <1>6 DEF Complete
  <2>3. CASE rows'[c] = rows[c]
    BY <2>1, <2>3 DEF Life, Same
  <2>4. CASE rows'[c] # rows[c]
    <3>1. drain[d].cmd = c /\ rows[c].st # "deleted"
      BY <1>1, <2>2, <2>4 DEF TypeOK
    <3>2. rows'[c].st = "closed" /\ rows'[c].out \in {"ok", "failed"}
      BY <1>1, <2>2, <2>4, <3>1 DEF TypeOK
    <3>3. runs[c] = 1
      BY <2>1, <3>1 DEF Inv, DrainOK
    <3>4. rows[c].st \in {"claimed", "closed"} /\ rows[c].out \in {"none", "abandoned"}
      BY <2>1, <3>1, BusyRow
    <3>5. QED
      BY <2>1, <3>2, <3>3, <3>4 DEF Life, Reports
  <2>5. QED
    BY <2>3, <2>4
<1>7. ASSUME Prune PROVE Life(c)
  <2>1. rows'[c] = Pruned(rows[c]) /\ runs' = runs
    BY <1>7 DEF Prune
  <2>2. rows[c] \in Row
    BY <1>1 DEF TypeOK
  <2>3. QED
    BY <2>1, <2>2 DEF Pruned, Life, Same, Row
<1>8. ASSUME Tick PROVE Life(c)
  <2>1. rows'[c] = rows[c] \/ rows'[c] = [rows[c] EXCEPT !.age = @ + 1]
    BY <1>8 DEF Tick
  <2>2. rows[c] \in Row /\ runs' = runs
    BY <1>1, <1>8 DEF TypeOK, Tick
  <2>3. QED
    BY <2>1, <2>2 DEF Life, Same, Row
<1>9. ASSUME NEW d \in Drainer, StartDrain(d) \/ ClaimSelect(d) \/ ClaimFetch(d) PROVE Life(c)
  BY <1>2, <1>9 DEF StartDrain, ClaimSelect, ClaimFetch
<1>10. ASSUME NEW r \in Replica, Renewed(r) \/ Crash(r) PROVE Life(c)
  BY <1>2, <1>10 DEF Renewed, Crash
<1>11. CASE UNCHANGED vars
  BY <1>2, <1>11 DEF vars
<1>12. QED
  BY <1>3, <1>4, <1>5, <1>6, <1>7, <1>8, <1>9, <1>10, <1>11 DEF Next, DrainStep

InLine == \A c, e \in Cmd : e < c /\ rows[e].st = "absent" => rows[c].st = "absent"

Oldest(d) ==
    drain[d].pc = "update" =>
        /\ rows[drain[d].cmd].st # "absent"
        /\ rows[drain[d].cmd].st = "pending" =>
              \A e \in Cmd : e < drain[d].cmd => rows[e].st # "pending"

Line == InLine /\ \A d \in Drainer : Oldest(d)

LEMMA LineInit == Init => Line
BY DEF Init, Line, InLine, Oldest, Idle

\* No row becomes pending but a new one, and none comes before those that are there.
LEMMA StatusMoves ==
    ASSUME Inv, [Next]_vars, NEW c \in Cmd
    PROVE  \/ rows'[c].st = rows[c].st
           \/ /\ rows[c].st = "absent" /\ rows'[c].st = "pending"
              /\ \A e \in Cmd : e < c => rows[e].st # "absent"
           \/ rows[c].st # "absent" /\ rows'[c].st \notin {"absent", "pending"}
BY LifeSteps DEF Life, Claims, Reports

\* Only the SELECT of a claim has a drain go for another command.
LEMMA Selects ==
    ASSUME Inv, [Next]_vars, NEW d \in Drainer, drain'[d].pc = "update"
    PROVE  \/ drain'[d] = drain[d]
           \/ /\ rows' = rows /\ drain'[d].cmd \in Pending
              /\ \A e \in Pending : drain'[d].cmd <= e
<1>1. TypeOK
  BY DEF Inv
<1>2. ASSUME NEW e \in Drainer, e # d, NEW x, drain' = [drain EXCEPT ![e] = x] PROVE drain'[d] = drain[d]
  BY <1>1, <1>2 DEF TypeOK
<1>3. ASSUME NEW e \in Drainer, ClaimSelect(e)
      PROVE  \/ drain'[d] = drain[d]
             \/ /\ rows' = rows /\ drain'[d].cmd \in Pending
                /\ \A i \in Pending : drain'[d].cmd <= i
  <2>1. rows' = rows
    BY <1>3 DEF ClaimSelect
  <2>2. CASE drain' = [drain EXCEPT ![e] = Idle]
    BY <1>1, <2>2 DEF TypeOK, Idle
  <2>3. CASE \E i \in Pending : /\ \A j \in Pending : i <= j
                                /\ drain' = [drain EXCEPT ![e] = [@ EXCEPT !.pc = "update", !.cmd = i]]
    <3>1. PICK i \in Pending : /\ \A j \in Pending : i <= j
                               /\ drain' = [drain EXCEPT ![e] = [@ EXCEPT !.pc = "update", !.cmd = i]]
      BY <2>3
    <3>2. drain[e] \in Search
      BY <1>1, <1>3, DrainFields DEF ClaimSelect
    <3>3. e = d => drain'[d].cmd = i
      BY <1>1, <3>1, <3>2 DEF TypeOK, Search
    <3>4. e # d => drain'[d] = drain[d]
      BY <1>1, <3>1 DEF TypeOK
    <3>5. QED
      BY <2>1, <3>1, <3>3, <3>4
  <2>4. QED
    BY <1>3, <2>2, <2>3 DEF ClaimSelect
<1>4. ASSUME NEW e \in Drainer, StartDrain(e) \/ ClaimUpdate(e) \/ ClaimFetch(e) \/ ClaimError(e)
                                \/ Apply(e) \/ Complete(e)
      PROVE  drain'[d] = drain[d]
  <2>1. CASE e # d
    BY <1>1, <1>4, <2>1
       DEF StartDrain, ClaimUpdate, ClaimFetch, ClaimError, Apply, Complete, TypeOK
  <2>2. CASE e = d
    <3>1. drain[d].pc \in {"fetch", "apply", "update"} => drain[d] \in Work
      BY <1>1, DrainFields
    <3>2. CASE StartDrain(d)
      BY <1>1, <3>2 DEF StartDrain, TypeOK
    <3>3. CASE ClaimUpdate(d)
      BY <1>1, <3>1, <3>3 DEF ClaimUpdate, TypeOK, Idle, Work
    <3>4. CASE ClaimFetch(d)
      BY <1>1, <3>1, <3>4 DEF ClaimFetch, TypeOK, Idle, Work
    <3>5. CASE ClaimError(d)
      BY <1>1, <3>5 DEF ClaimError, TypeOK, Idle
    <3>6. CASE Apply(d)
      BY <1>1, <3>1, <3>6 DEF Apply, TypeOK, Work
    <3>7. CASE Complete(d)
      BY <1>1, <3>7 DEF Complete, TypeOK, Idle
    <3>8. QED
      BY <1>4, <2>2, <3>2, <3>3, <3>4, <3>5, <3>6, <3>7
  <2>3. QED
    BY <2>1, <2>2
<1>5. ASSUME NEW r \in Replica, Crash(r) PROVE drain'[d] = drain[d]
  BY <1>5 DEF Crash, Idle
<1>6. CASE drain' = drain
  BY <1>6
<1>7. QED
  BY <1>3, <1>4, <1>5, <1>6 DEF Next, DrainStep, Enqueue, Renewed, Prune, Tick, vars

LEMMA LineStep == ASSUME Inv, Line, [Next]_vars PROVE Line'
<1>1. ASSUME NEW c \in Cmd, NEW e \in Cmd, e < c, rows'[e].st = "absent" PROVE rows'[c].st = "absent"
  <2>1. rows[e].st = "absent"
    BY <1>1, StatusMoves
  <2>2. rows[c].st = "absent"
    BY <1>1, <2>1 DEF Line, InLine
  <2>3. QED
    BY <1>1, <2>1, <2>2, StatusMoves
<1>2. ASSUME NEW d \in Drainer, drain'[d].pc = "update" PROVE Oldest(d)'
  <2>1. CASE drain'[d] = drain[d]
    <3> DEFINE c == drain[d].cmd
    <3>1. c \in Cmd /\ drain[d].pc = "update" /\ rows[c].st # "absent"
      BY <1>2, <2>1, DrainFields DEF Inv, Line, Oldest
    <3> HIDE DEF c
    <3>2. rows'[c].st # "absent" /\ (rows'[c].st = "pending" => rows[c].st = "pending")
      BY <3>1, StatusMoves
    <3>3. ASSUME rows'[c].st = "pending", NEW e \in Cmd, e < c PROVE rows'[e].st # "pending"
      <4>1. rows[e].st # "pending"
        BY <3>1, <3>2, <3>3 DEF Line, Oldest, c
      <4>2. rows[e].st # "absent"
        BY <3>1, <3>3 DEF Line, InLine
      <4>3. QED
        BY <4>1, <4>2, StatusMoves
    <3>4. QED
      BY <2>1, <3>2, <3>3 DEF Oldest, c
  <2>2. CASE /\ rows' = rows /\ drain'[d].cmd \in Pending
             /\ \A e \in Pending : drain'[d].cmd <= e
    <3>1. \A e \in Cmd : e \in Nat
      BY CmdAssumption DEF Cmd
    <3>2. QED
      BY <2>2, <3>1 DEF Oldest, Pending
  <2>3. QED
    BY <1>2, <2>1, <2>2, Selects
<1>3. QED
  BY <1>1, <1>2 DEF Line, InLine, Oldest

\* What a command has come to is a stage of Mailbox, and each step moves it on as Mailbox does.  RowOK
\* keeps the cases of StageOf apart.
LEMMA MailboxMoves ==
    ASSUME Inv, Line, Inv', [Next]_vars, NEW c \in Cmd
    PROVE  Box!Step(c) \/ (StageOf(c)' = StageOf(c) /\ rows'[c].out = rows[c].out)
<1> DEFINE S == [e \in Cmd |-> StageOf(e)]
           O == [e \in Cmd |-> rows[e].out]
<1>1. /\ S[c] = StageOf(c) /\ S'[c] = StageOf(c)' /\ O[c] = rows[c].out /\ O'[c] = rows'[c].out
  OBVIOUS
<1>2. RowOK(c) /\ RowOK(c)' /\ Life(c)
  BY LifeSteps DEF Inv
<1>3. CASE rows'[c].st = rows[c].st /\ Same(c)
  BY <1>3 DEF StageOf, Same
<1>4. CASE rows[c].st = "absent" /\ rows'[c].st = "pending" /\ Same(c)
  <2>1. StageOf(c) = "new"
    BY <1>2, <1>4 DEF StageOf, RowOK
  <2>2. StageOf(c)' = "waiting"
    BY <1>2, <1>4 DEF StageOf, RowOK
  <2>3. QED
    BY <1>4, <2>1, <2>2 DEF Same, Box!Step, Box!Send, Box!Moves
<1>5. CASE Claims(c)
  <2>1. StageOf(c) = "waiting" /\ StageOf(c)' = "taken"
    BY <1>2, <1>5 DEF StageOf, Claims, Same, RowOK
  <2>2. ASSUME NEW e \in Cmd, e < c PROVE StageOf(e) \notin {"new", "waiting"}
    <3>1. rows[e].st # "pending"
      BY <1>5, <2>2 DEF Claims, Line, Oldest
    <3>2. rows[e].st # "absent"
      BY <1>5, <2>2 DEF Claims, Line, InLine
    <3>3. QED
      BY <3>1, <3>2 DEF StageOf
  <2>3. QED
    BY <1>5, <2>1, <2>2 DEF Claims, Same, Box!Step, Box!Take, Box!Moves
<1>6. CASE /\ rows[c].st \in {"claimed", "closed", "deleted"} /\ rows[c].out \in {"none", "abandoned"}
           /\ rows'[c] = rows[c] /\ runs[c] = 0 /\ runs'[c] = 1
  <2>1. StageOf(c) = "taken" /\ StageOf(c)' = "run"
    BY <1>6 DEF StageOf
  <2>2. QED
    BY <1>6, <2>1 DEF Box!Step, Box!CarryOut, Box!Moves
<1>7. CASE Reports(c)
  <2>1. StageOf(c) = "run" /\ StageOf(c)' = "run"
    BY <1>7 DEF StageOf, Reports
  <2>2. QED
    BY <1>7, <2>1 DEF Reports, Box!Step, Box!Report, Box!Moves
<1>8. CASE /\ rows[c].st = "claimed" /\ rows'[c].st = "closed"
           /\ rows'[c].out = "abandoned" /\ runs'[c] = runs[c]
  <2>1. StageOf(c) \in {"taken", "run"} /\ StageOf(c)' = StageOf(c) /\ rows[c].out = "none"
    BY <1>2, <1>8 DEF StageOf, RowOK
  <2>2. QED
    BY <1>8, <2>1 DEF Box!Step, Box!GiveUp
<1>9. CASE /\ rows[c].st = "pending" /\ rows'[c].st = "closed"
           /\ rows'[c].out = "expired" /\ runs'[c] = runs[c]
  <2>1. StageOf(c) = "waiting" /\ StageOf(c)' = "expired"
    BY <1>2, <1>9 DEF StageOf, RowOK
  <2>2. QED
    BY <1>9, <2>1 DEF Box!Step, Box!Expire, Box!Moves
<1>10. CASE rows[c].st = "closed" /\ rows'[c].st = "deleted" /\ Same(c)
  BY <1>10 DEF StageOf, Same
<1>11. QED
  BY <1>2, <1>3, <1>4, <1>5, <1>6, <1>7, <1>8, <1>9, <1>10 DEF Life

\* The queue implements Mailbox for any instances, threads, limits, crashes and failing
\* statements: each command is taken at most once and oldest first, is carried out only then,
\* and what is shown of it is what became of it.
THEOREM ImplementsMailbox == Spec => MailboxSpec
<1> DEFINE S == [c \in Cmd |-> StageOf(c)]
           O == [c \in Cmd |-> rows[c].out]
<1>1. Init => Box!Init
  BY DEF Init, Box!Init, StageOf
<1>2. Inv /\ Line /\ Inv' /\ [Next]_vars => [Box!Next]_<<S, O>>
  <2> SUFFICES ASSUME Inv, Line, Inv', [Next]_vars PROVE Box!Next
    OBVIOUS
  <2>1. S' \in [Cmd -> Box!Stage]
    BY DEF StageOf, Box!Stage
  <2>2. O' \in [Cmd -> Box!Shown]
    BY DEF Inv, TypeOK, Row, Outcome, Box!Shown
  <2>3. \A c \in Cmd : Box!Step(c) \/ (S'[c] = S[c] /\ O'[c] = O[c])
    BY MailboxMoves
  <2>4. QED
    BY <2>1, <2>2, <2>3 DEF Box!Next
<1>3. Init => Line
  BY LineInit
<1>4. Inv /\ Line /\ [Next]_vars => Line'
  BY LineStep
<1>5. QED
  BY <1>1, <1>2, <1>3, <1>4, InvAlways, PTL DEF Spec, MailboxSpec, Box!Spec
=============================================================================
