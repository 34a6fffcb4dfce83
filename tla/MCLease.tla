------------------------------ MODULE MCLease -------------------------------
(***************************************************************************)
(* Small instances of Lease for TLC.                                        *)
(***************************************************************************)
EXTENDS Lease, TLC

CONSTANTS a, b, c

\* All clocks right, or b's one unit fast.
SameClock == [r \in Replica |-> 0]
Skewed    == [r \in Replica |-> IF r = b THEN 1 ELSE 0]

Symmetry == Permutations(Replica)
=============================================================================
