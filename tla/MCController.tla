--------------------------- MODULE MCController ---------------------------
(***************************************************************************)
(* Controller.tla on small instances; each .cfg that names this module     *)
(* picks the runs, the keys and the caps for one question.                 *)
(***************************************************************************)
EXTENDS Controller, TLC

CONSTANTS r1, r2, k1, k2, c1, c2, c3, c4

CallSymmetry == Permutations(Calls)

\* MeetsCap is micro(num/den) >= micro(cap), with the rounding done on the
\* fraction itself (math.Round: to the nearest, a half away from zero).
ASSUME MeetsCapIsRounding ==
  \A num \in 0..12, den \in 1..3, cap \in 0..8 :
    MeetsCap(num, den, cap) <=>
      (2 * num + den * Grain) \div (2 * den * Grain) >= Micro(cap)
=============================================================================
