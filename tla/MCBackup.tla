------------------------------ MODULE MCBackup ------------------------------
(***************************************************************************)
(* Small instances of Backup for TLC.                                       *)
(***************************************************************************)
EXTENDS Backup

CONSTANTS w1, w2, t1

\* Periods of one and of two units of the clock.
MCSpan == [k \in {"keep_daily", "keep_weekly"} |-> IF k = "keep_daily" THEN 1 ELSE 2]

Rules(last, daily, weekly, budget) ==
    [last |-> last, budget |-> budget,
     bucket |-> [k \in {"keep_daily", "keep_weekly"} |-> IF k = "keep_daily" THEN daily ELSE weekly]]

\* A counter; periods, within a budget of one good copy and a partial one.
MCPolicies == {Rules(2, 0, 0, 0), Rules(0, 2, 1, 3)}

\* A whole copy, and one that lost a part.
MCOutcome == {[ok |-> TRUE, size |-> 2], [ok |-> FALSE, size |-> 1]}
=============================================================================
