---------------------------- MODULE MCMonitoring ----------------------------
(***************************************************************************)
(* Small instances of Monitoring for TLC.                                   *)
(***************************************************************************)
EXTENDS Monitoring

CONSTANTS m1, m2, g1, g2

\* Where two monitors are never at work at once, which slot a new one takes makes no difference,
\* and it is free: the persistent one is always g1, that of an on-demand run g2.
Roles == cur' # g2 /\ (cycle'.mon = g1 => cur' = g1)

\* A violation that needs no clear is looked for among those without a clear_status.
NoClears == Roles /\ clearing' = NoClear
=============================================================================
