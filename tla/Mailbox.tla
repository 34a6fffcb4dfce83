------------------------------- MODULE Mailbox -------------------------------
(***************************************************************************)
(* What the queue of commands promises the panel that sends them            *)
(* (src/src/lib/services/manager/commands.py): each command is taken at     *)
(* most once, the oldest first, carried out at most once and only if it was *)
(* taken before it expired; and what is shown of it is what became of it.   *)
(* Each command lives a life of its own: several may move in one step.      *)
(***************************************************************************)
EXTENDS Naturals

CONSTANT Cmd            \* the commands, numbered in the order they are sent

VARIABLES
    stage,      \* how far each command has come
    shown       \* the outcome the panel shows of it

Stage == {"new", "waiting", "taken", "run", "expired"}
Shown == {"none", "ok", "failed", "abandoned", "expired"}

Init ==
    /\ stage = [c \in Cmd |-> "new"]
    /\ shown = [c \in Cmd |-> "none"]

Moves(c, from, to) == stage[c] = from /\ stage'[c] = to

Send(c) == Moves(c, "new", "waiting") /\ shown'[c] = shown[c]

Take(c) ==
    /\ Moves(c, "waiting", "taken") /\ shown'[c] = shown[c]
    /\ \A e \in Cmd : e < c => stage[e] \notin {"new", "waiting"}

CarryOut(c) == Moves(c, "taken", "run") /\ shown'[c] = shown[c]

\* What came out of the run is shown once, even of a command given up meanwhile.
Report(c) ==
    /\ Moves(c, "run", "run")
    /\ shown[c] \in {"none", "abandoned"} /\ shown'[c] \in {"ok", "failed"}

\* Whoever took it does not report.
GiveUp(c) ==
    /\ stage[c] \in {"taken", "run"} /\ stage'[c] = stage[c]
    /\ shown[c] = "none" /\ shown'[c] = "abandoned"

\* Nobody took it in time.
Expire(c) == Moves(c, "waiting", "expired") /\ shown'[c] = "expired"

Step(c) == Send(c) \/ Take(c) \/ CarryOut(c) \/ Report(c) \/ GiveUp(c) \/ Expire(c)

Next ==
    /\ stage' \in [Cmd -> Stage] /\ shown' \in [Cmd -> Shown]
    /\ \A c \in Cmd : Step(c) \/ (stage'[c] = stage[c] /\ shown'[c] = shown[c])

Spec == Init /\ [][Next]_<<stage, shown>>
=============================================================================
