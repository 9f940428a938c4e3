-------------------------------- MODULE MCPool --------------------------------
(***************************************************************************)
(* RespPool.tla on small instances.                                        *)
(***************************************************************************)
EXTENDS RespPool, TLC

CONSTANTS c1, c2, c3, n1, n2, n3

PoolSymmetry == Permutations(Calls) \cup Permutations(Conns)
=============================================================================
