------------------------------- MODULE MCKill -------------------------------
(***************************************************************************)
(* KillSwitch.tla on a small instance: one gateway, two operator requests  *)
(* and at most one call.                                                   *)
(***************************************************************************)
EXTENDS KillSwitch

CONSTANTS c1, g1, o1, o2

\* The store does not answer at boot.  The gap costs no fault, so that the one
\* there is may strike the recovery or a delivery of the gap, or begin a second
\* one; a gateway that has recovered is as one that began healthy.
DownAtBoot == Init /\ \A g \in Gateways : degraded[g]

BootSpec == DownAtBoot /\ [][Next]_vars /\ Fairness
=============================================================================
