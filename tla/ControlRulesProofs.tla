------------------------- MODULE ControlRulesProofs -------------------------
(***************************************************************************)
(* Lemmas about the rules of ControlRules.tla, for every set of ids and    *)
(* every policy; the proofs about the modules that apply the rules cite    *)
(* them.                                                                   *)
(***************************************************************************)
EXTENDS ControlRules, TLAPS

-----------------------------------------------------------------------------
(* What the rules do to a record: its type and the fields they change. *)

LEMMA DecType ==
  ASSUME NEW n \in Nat
  PROVE  Dec(n) \in Nat /\ Dec(n) <= n /\ Dec(n) >= n - 1 /\ (n > 0 => Dec(n) = n - 1)
BY DEF Dec

\* A cap names a pause.
LEMMA CapsNamePauses ==
  /\ \A st, l : RunCap(st) \in RunPauses /\ RunSettledCap(st, l) \in RunPauses
  /\ \A ks : KeyCap(ks) \in KeyPauses /\ KeySettledCap(ks) \in KeyPauses
BY DEF RunCap, RunSettledCap, KeyCap, KeySettledCap, RunPauses, KeyPauses

LEMMA NewFields ==
  /\ NewRun \in RunState /\ NewRun.inflight = 0 /\ NewRun.calls = 0
  /\ NewRun.spend = 0 /\ NewRun.paused = "no"
  /\ NewKey \in KeyState /\ NewKey.inflight = 0
  /\ NewKey.daySpend = 0 /\ NewKey.lifeSpend = 0 /\ NewKey.paused = "no"
BY DEF NewRun, NewKey, RunState, KeyState, RunPauses, KeyPauses

LEMMA SettleRunFields ==
  ASSUME NEW st \in RunState, NEW cost \in Nat, NEW l
  PROVE  LET new == SettleRun(st, cost, l)
         IN  /\ new \in RunState
             /\ new.inflight = Dec(st.inflight)
             /\ new.calls = st.calls + 1
             /\ new.spend = st.spend + cost
             /\ st.paused # "no" => new.paused = st.paused
<1> DEFINE new == [st EXCEPT !.inflight = Dec(@), !.calls = @ + 1, !.spend = @ + cost]
<1>1. Dec(st.inflight) \in Nat /\ st.calls + 1 \in Nat /\ st.spend + cost \in Nat
  BY DecType DEF RunState
<1>2. /\ new \in RunState
      /\ new.inflight = Dec(st.inflight) /\ new.calls = st.calls + 1
      /\ new.spend = st.spend + cost /\ new.paused = st.paused
  BY <1>1 DEF RunState
<1> DEFINE stopped == [new EXCEPT !.paused = RunSettledCap(new, l)]
<1>3. SettleRun(st, cost, l) = IF new.paused = "no" THEN stopped ELSE new
  BY DEF SettleRun
<1> HIDE DEF new
<1>4. /\ stopped \in RunState
      /\ stopped.inflight = new.inflight /\ stopped.calls = new.calls
      /\ stopped.spend = new.spend
  BY <1>2, CapsNamePauses DEF RunState
<1> QED
  BY <1>2, <1>3, <1>4

LEMMA SettleKeyFields ==
  ASSUME NEW ks \in KeyState, NEW cost \in Nat
  PROVE  LET new == SettleKey(ks, cost)
         IN  /\ new \in KeyState
             /\ new.inflight = Dec(ks.inflight)
             /\ new.daySpend = ks.daySpend + cost
             /\ new.lifeSpend = ks.lifeSpend + cost
             /\ ks.paused # "no" => new.paused = ks.paused
<1> DEFINE new == [ks EXCEPT !.inflight = Dec(@),
                             !.dayCalls = @ + 1, !.lifeCalls = @ + 1,
                             !.daySpend = @ + cost, !.lifeSpend = @ + cost]
<1>1. /\ Dec(ks.inflight) \in Nat /\ ks.dayCalls + 1 \in Nat /\ ks.lifeCalls + 1 \in Nat
      /\ ks.daySpend + cost \in Nat /\ ks.lifeSpend + cost \in Nat
  BY DecType DEF KeyState
<1>2. /\ new \in KeyState
      /\ new.inflight = Dec(ks.inflight) /\ new.daySpend = ks.daySpend + cost
      /\ new.lifeSpend = ks.lifeSpend + cost /\ new.paused = ks.paused
  BY <1>1 DEF KeyState
<1> DEFINE stopped == [new EXCEPT !.paused = KeySettledCap(new)]
<1>3. SettleKey(ks, cost) = IF new.paused = "no" THEN stopped ELSE new
  BY DEF SettleKey
<1> HIDE DEF new
<1>4. /\ stopped \in KeyState
      /\ stopped.inflight = new.inflight /\ stopped.daySpend = new.daySpend
      /\ stopped.lifeSpend = new.lifeSpend
  BY <1>2, CapsNamePauses DEF KeyState
<1> QED
  BY <1>2, <1>3, <1>4

\* keyLocked never adds to a tally or a reservation, and keeps the total.
LEMMA KeyLockedFields ==
  ASSUME NEW ks \in KeyState, NEW t \in Nat, NEW d \in Nat
  PROVE  LET new == KeyLocked(ks, t, d)
         IN  /\ new \in KeyState
             /\ new.inflight \in {0, ks.inflight}
             /\ new.daySpend \in {0, ks.daySpend}
             /\ new.lifeSpend = ks.lifeSpend /\ new.lifeCalls = ks.lifeCalls
<1> DEFINE old == [ks EXCEPT !.tracked = TRUE, !.lastSeen = t,
                             !.day = IF ks.tracked THEN @ ELSE d]
           rolled == [old EXCEPT !.day = d, !.dayCalls = 0, !.daySpend = 0,
                                 !.inflight = 0,
                                 !.paused = IF @ = "day" THEN "no" ELSE @]
<1>1. old \in KeyState /\ old.inflight = ks.inflight /\ old.daySpend = ks.daySpend
      /\ old.lifeSpend = ks.lifeSpend /\ old.lifeCalls = ks.lifeCalls
  BY DEF KeyState
<1>2. KeyLocked(ks, t, d) = IF d > old.day THEN rolled ELSE old
  BY DEF KeyLocked
<1> HIDE DEF old
<1>3. rolled \in KeyState /\ rolled.inflight = 0 /\ rolled.daySpend = 0
      /\ rolled.lifeSpend = old.lifeSpend /\ rolled.lifeCalls = old.lifeCalls
  BY <1>1 DEF KeyState, KeyPauses
<1> QED
  BY <1>1, <1>2, <1>3

LEMMA ReleasedKeyFields ==
  ASSUME NEW ks \in KeyState
  PROVE  Released(ks) \in KeyState
BY DecType DEF Released, KeyState

LEMMA ResumedKeyFields ==
  ASSUME NEW ks \in KeyState
  PROVE  LET new == ResumedKey(ks)
         IN  new \in KeyState /\ new.day = ks.day /\ new.paused = "no" /\ new.inflight = 0
<1> DEFINE Cleared(why, n, calls, spend) ==
      [ks EXCEPT !.paused = why, !.dayCalls = n, !.daySpend = n, !.inflight = n,
                 !.lifeCalls = calls, !.lifeSpend = spend]
<1>1. ASSUME NEW why \in KeyPauses, NEW n \in Nat, NEW calls \in Nat, NEW spend \in Nat
      PROVE  LET new == Cleared(why, n, calls, spend)
             IN  new \in KeyState /\ new.day = ks.day /\ new.paused = why /\ new.inflight = n
  BY DEF KeyState
<1>2. ks.lifeCalls \in Nat /\ ks.lifeSpend \in Nat /\ "no" \in KeyPauses /\ 0 \in Nat
  BY DEF KeyState, KeyPauses
<1>3. ResumedKey(ks) = IF ks.paused = "day" THEN Cleared("no", 0, ks.lifeCalls, ks.lifeSpend)
                       ELSE Cleared("no", 0, 0, 0)
  BY DEF ResumedKey
<1> HIDE DEF Cleared
<1> QED
  BY <1>1, <1>2, <1>3

-----------------------------------------------------------------------------
(* Reservations: so many calls at the floor. *)

LEMMA Product ==
  ASSUME NEW f \in Nat, NEW n \in Nat
  PROVE  f * n \in Nat /\ f * (n + 1) = f * n + f /\ f * 0 = 0
OBVIOUS

LEMMA ProductMonotone ==
  ASSUME NEW f \in Nat, NEW m \in Nat, NEW n \in Nat, m <= n
  PROVE  f * m <= f * n
OBVIOUS
=============================================================================
