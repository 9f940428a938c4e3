------------------------------ MODULE MCShared ------------------------------
(***************************************************************************)
(* SharedCounter.tla on small instances; each .cfg that names this module  *)
(* picks the replicas, the calls, the failures and the bounds.             *)
(***************************************************************************)
EXTENDS SharedCounter, TLC

CONSTANTS c1, c2, c3, g1, g2, u1

CallSymmetry == Permutations(Calls)
=============================================================================
