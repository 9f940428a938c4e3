------------------------------- MODULE MCGateway -------------------------------
(***************************************************************************)
(* Gateway.tla on a small instance.                                        *)
(***************************************************************************)
EXTENDS Gateway, TLC

CONSTANTS c1, c2, c3, r1, r2, s1, s2

\* Only a call that is yet to be read sees the clock, so a state in which it has
\* gone on since the last one read differs from one explored in nothing else.
NoIdleTick == now = 0 \/ \E c \in Calls : At(c, "read") \/ req[c].t = now

GatewaySymmetry == Permutations(Calls) \cup Permutations(Runs) \cup Permutations(Sigs)
=============================================================================
