--------------------------- MODULE MCEventWorker ---------------------------
(***************************************************************************)
(* Small instances of EventWorker for TLC, with two replicas.               *)
(***************************************************************************)
EXTENDS EventWorker

CONSTANTS r1, r2

\* The replicas are interchangeable: while they are alike the lease goes to the first.
StateOf(r) == <<leading[r], seen[r], ruled[r], cooled[r], tick[r], evals[r], r \in strayed, done[r],
                stood[r], aware[r]>>

FirstToR1 == working = {} /\ StateOf(r1) = StateOf(r2) => working' \subseteq {r1}
=============================================================================
