----------------------------- MODULE MCStoreKeys -----------------------------
(***************************************************************************)
(* StoreKeys.tla on small instances.                                       *)
(***************************************************************************)
EXTENDS StoreKeys, TLC

CONSTANTS c1, c2, c3, g1, g2, u1, k1

StoreKeysSymmetry == Permutations(Calls \ BypassCalls) \cup Permutations(Gateways)
=============================================================================
