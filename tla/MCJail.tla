------------------------------- MODULE MCJail -------------------------------
(***************************************************************************)
(* Two processes, the first with two threads: a small instance of Jail.     *)
(***************************************************************************)
EXTENDS Jail, TLC

CONSTANTS web, syslog, t1, t2, t3

MCProcessOf == t1 :> web @@ t2 :> web @@ t3 :> syslog
MCDurations == <<1, 2>>
Symmetry    == Permutations({t1, t2})
=============================================================================
