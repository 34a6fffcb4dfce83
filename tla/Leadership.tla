----------------------------- MODULE Leadership -----------------------------
(***************************************************************************)
(* What the leader lease promises the services that are gated on it: "some  *)
(* services must NOT run on more than one instance at once"                 *)
(* (src/src/lib/services/manager/leader.py).  Only the set of replicas      *)
(* whose _work_allowed() answers True is visible.                           *)
(***************************************************************************)
CONSTANT Replica

VARIABLE working        \* the replicas that may do the service's work now

Init == working = {}

\* A replica becomes the worker only while nobody is.
Grant(r) == working = {} /\ working' = {r}

\* The worker stops being it: lease not renewed, shutdown, crash.
Withdraw(r) == working = {r} /\ working' = {}

Next == \E r \in Replica : Grant(r) \/ Withdraw(r)

Spec == Init /\ [][Next]_working
=============================================================================
