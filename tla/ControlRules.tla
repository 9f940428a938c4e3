---------------------------- MODULE ControlRules ----------------------------
(***************************************************************************)
(* The rules of internal/gateway/control.go as operators on one run's or   *)
(* one key's record: what a cap compares, what a call reserves, what the   *)
(* UTC day resets and what the bounded maps drop.  Nothing here is a       *)
(* state machine; Controller.tla and the modules built on it apply these   *)
(* operators under the controller's lock.  An operator whose name has a    *)
(* suffix after "_" is the operator it precedes with one slip in it; it is *)
(* used only to check that the properties would notice.                    *)
(*                                                                         *)
(* Money is a natural number of units, Grain units to a micro-dollar, so   *)
(* that a price finer than a micro-dollar and an average cost are both     *)
(* representable and the rounding of micro() is visible.                   *)
(***************************************************************************)
EXTENDS Integers, FiniteSets

CONSTANTS
  Runs, Keys,            \* run ids and API-key ids that may be tracked
  NoRun, NoKey,          \* the empty run id and the empty key id ("" in Go)
  MaxCallsPerRun,        \* ControlPolicy; 0 leaves a cap off
  MaxSpendPerRun,
  ReservePerCall,
  MaxSpendPerKeyDay,
  MaxSpendPerKey,
  PauseOnSuspectedLoop,
  Shadow,
  MaxRuns,               \* bound on tracked runs, and on tracked keys
  Grain                  \* money units per micro-dollar

ASSUME IdsAssumption ==
  /\ Runs \cap Keys = {} /\ {NoRun, NoKey} \cap (Runs \cup Keys) = {}
  /\ IsFiniteSet(Runs) /\ IsFiniteSet(Keys)

ASSUME PolicyAssumption ==
  /\ MaxCallsPerRun \in Nat /\ MaxSpendPerRun \in Nat /\ ReservePerCall \in Nat
  /\ MaxSpendPerKeyDay \in Nat /\ MaxSpendPerKey \in Nat
  /\ PauseOnSuspectedLoop \in BOOLEAN /\ Shadow \in BOOLEAN
  /\ MaxRuns \in Nat \ {0} /\ Grain \in Nat \ {0}

(***************************************************************************)
(* Records.  paused holds the reason of the pause, "no" when there is      *)
(* none: the code's pair (paused, reason), and for a key dayPause too.  An *)
(* id absent from the Go map has an untracked record, all zero.            *)
(***************************************************************************)
RunPauses == {"no", "calls", "spend", "loop"}
KeyPauses == {"no", "day", "total"}

RunState == [tracked: BOOLEAN, calls: Nat, inflight: Nat, spend: Nat,
             maxSpend: Nat, paused: RunPauses, lastSeen: Nat]
KeyState == [tracked: BOOLEAN, day: Nat, dayCalls: Nat, daySpend: Nat,
             lifeCalls: Nat, lifeSpend: Nat, inflight: Nat,
             paused: KeyPauses, lastSeen: Nat]

NewRun == [tracked |-> FALSE, calls |-> 0, inflight |-> 0, spend |-> 0,
           maxSpend |-> 0, paused |-> "no", lastSeen |-> 0]
NewKey == [tracked |-> FALSE, day |-> 0, dayCalls |-> 0, daySpend |-> 0,
           lifeCalls |-> 0, lifeSpend |-> 0, inflight |-> 0,
           paused |-> "no", lastSeen |-> 0]

-----------------------------------------------------------------------------
(* Money. *)

\* micro(): the amount v in whole micro-dollars, a half rounded up.
Micro(v) == (2 * v + Grain) \div (2 * Grain)

\* micro(num/den) >= micro(cap), for num >= 0 and den > 0: a fraction rounds
\* to at least m exactly when twice it is at least 2m - 1.
MeetsCap(num, den, cap) == 2 * num >= (2 * Micro(cap) - 1) * (den * Grain)

\* The settled amount alone against a cap; a cap of 0 is off.
Reached(spend, cap) == cap > 0 /\ MeetsCap(spend, 1, cap)

\* Slip: the average alone, so a cold burst reserves nothing.
ProjectionReached_NoFloor(base, spend, calls, inflight, cap) ==
  /\ cap > 0
  /\ IF calls > 0 THEN MeetsCap(base * calls + spend * inflight, calls, cap)
     ELSE MeetsCap(base, 1, cap)

\* base plus the calls in flight, each reserved at the average cost of the
\* settled calls or at the operator's floor, whichever is higher.
ProjectionReached(base, spend, calls, inflight, cap) ==
  /\ cap > 0
  /\ IF calls > 0 /\ spend > ReservePerCall * calls
       THEN MeetsCap(base * calls + spend * inflight, calls, cap)
       ELSE MeetsCap(base + ReservePerCall * inflight, 1, cap)

\* spendCapLocked: the stricter of the server's cap and the caller's.
SpendCap(st) ==
  IF st.maxSpend > 0 /\ (MaxSpendPerRun = 0 \/ st.maxSpend < MaxSpendPerRun)
    THEN st.maxSpend ELSE MaxSpendPerRun

-----------------------------------------------------------------------------
(* Caps, at admit (reservations counted) and at record (settled only). *)

\* keyCapLocked: the total cap first, it is the one that needs a person.
KeyCap(ks) ==
  IF ProjectionReached(ks.lifeSpend, ks.lifeSpend, ks.lifeCalls, ks.inflight, MaxSpendPerKey)
    THEN "total"
  ELSE IF ProjectionReached(ks.daySpend, ks.lifeSpend, ks.lifeCalls, ks.inflight, MaxSpendPerKeyDay)
    THEN "day" ELSE "no"

\* Slip: calls in flight are not counted.
RunCap_SettledOnly(st) ==
  IF MaxCallsPerRun > 0 /\ st.calls >= MaxCallsPerRun THEN "calls"
  ELSE IF ProjectionReached(st.spend, st.spend, st.calls, st.inflight, SpendCap(st))
    THEN "spend" ELSE "no"

\* The run half of admitKeyed: the call cap, then the projected spend.
RunCap(st) ==
  IF MaxCallsPerRun > 0 /\ st.calls + st.inflight >= MaxCallsPerRun THEN "calls"
  ELSE IF ProjectionReached(st.spend, st.spend, st.calls, st.inflight, SpendCap(st))
    THEN "spend" ELSE "no"

\* The switch at the end of recordKeyed's key half.
KeySettledCap(ks) ==
  IF Reached(ks.lifeSpend, MaxSpendPerKey) THEN "total"
  ELSE IF Reached(ks.daySpend, MaxSpendPerKeyDay) THEN "day" ELSE "no"

\* The switch at the end of recordKeyed's run half.
RunSettledCap(st, suspectedLoop) ==
  IF MaxCallsPerRun > 0 /\ st.calls >= MaxCallsPerRun THEN "calls"
  ELSE IF Reached(st.spend, SpendCap(st)) THEN "spend"
  ELSE IF suspectedLoop /\ PauseOnSuspectedLoop THEN "loop" ELSE "no"

-----------------------------------------------------------------------------
(* What one call does to one record. *)

\* A run's entry, made if there is none, last seen at time t.
SeenRun(st, t) == [st EXCEPT !.tracked = TRUE, !.lastSeen = t]

\* Slip: any other day resets the tally, an earlier one too.
KeyLocked_AnyOtherDay(ks, t, today) ==
  [ks EXCEPT !.tracked = TRUE, !.lastSeen = t, !.day = today,
             !.dayCalls = IF today # ks.day THEN 0 ELSE @,
             !.daySpend = IF today # ks.day THEN 0 ELSE @]

\* Slip: a new day lifts the pause of the total cap too.
KeyLocked_LiftsAll(ks, t, today) ==
  [ks EXCEPT !.tracked = TRUE, !.lastSeen = t, !.day = today,
             !.paused = IF today > ks.day THEN "no" ELSE @]

\* keyLocked: the entry, made if there is none; a later UTC day starts a new
\* daily tally, drops every reservation and ends a pause of the daily cap.
KeyLocked(ks, t, today) ==
  LET old == [ks EXCEPT !.tracked = TRUE, !.lastSeen = t,
                        !.day = IF ks.tracked THEN @ ELSE today]
  IN  IF today > old.day
        THEN [old EXCEPT !.day = today, !.dayCalls = 0, !.daySpend = 0,
                         !.inflight = 0,
                         !.paused = IF @ = "day" THEN "no" ELSE @]
        ELSE old

\* Slip: no floor at zero.
Dec_BelowZero(n) == n - 1

Dec(n) == IF n > 0 THEN n - 1 ELSE n

\* Slip: the reservation is kept after the call is settled.
SettleKey_KeepsReservation(ks, cost) ==
  [ks EXCEPT !.dayCalls = @ + 1, !.lifeCalls = @ + 1,
             !.daySpend = @ + cost, !.lifeSpend = @ + cost]

\* recordKeyed on a key: the reservation is returned, the cost tallied, and a
\* key that was not paused is paused when the settled spend meets a cap.
SettleKey(ks, cost) ==
  LET new == [ks EXCEPT !.inflight = Dec(@),
                        !.dayCalls = @ + 1, !.lifeCalls = @ + 1,
                        !.daySpend = @ + cost, !.lifeSpend = @ + cost]
  IN  IF new.paused = "no" THEN [new EXCEPT !.paused = KeySettledCap(new)] ELSE new

\* Slip: a run already paused is judged again.
SettleRun_Rejudged(st, cost, suspectedLoop) ==
  LET new == [st EXCEPT !.inflight = Dec(@), !.calls = @ + 1, !.spend = @ + cost]
  IN  [new EXCEPT !.paused = RunSettledCap(new, suspectedLoop)]

\* recordKeyed on a run.
SettleRun(st, cost, suspectedLoop) ==
  LET new == [st EXCEPT !.inflight = Dec(@), !.calls = @ + 1, !.spend = @ + cost]
  IN  IF new.paused = "no"
        THEN [new EXCEPT !.paused = RunSettledCap(new, suspectedLoop)] ELSE new

\* Slip: a failed call keeps its reservation.
Released_Kept(rec) == rec

\* releaseKeyed on either record.
Released(rec) == [rec EXCEPT !.inflight = Dec(@)]

\* resumeRun: the pause and the tallies that tripped the cap are cleared.
ResumedRun(st) == [st EXCEPT !.paused = "no", !.calls = 0, !.spend = 0, !.inflight = 0]

\* resumeKey: a resume after a daily pause keeps the total tally.
ResumedKey(ks) ==
  [ks EXCEPT !.paused = "no", !.dayCalls = 0, !.daySpend = 0, !.inflight = 0,
             !.lifeCalls = IF ks.paused = "day" THEN @ ELSE 0,
             !.lifeSpend = IF ks.paused = "day" THEN @ ELSE 0]

-----------------------------------------------------------------------------
(* evict and evictKeys: the sets of ids that may be dropped from a map.     *)
(* Paused entries are kept.  Of the others the least recently seen go, as   *)
(* many as the map is over its bound; sort.Slice leaves ties in any order.  *)

\* Slip: the most recently seen go first.
Victims_Newest(map) ==
  LET Active == {id \in DOMAIN map : map[id].tracked /\ map[id].paused = "no"}
  IN  {V \in SUBSET Active :
         /\ Cardinality(Active \ V) <= MaxRuns
         /\ \A v \in V, u \in Active \ V : map[v].lastSeen >= map[u].lastSeen}

Victims(map) ==
  LET Tracked == {id \in DOMAIN map : map[id].tracked}
      Active  == {id \in Tracked : map[id].paused = "no"}
      over    == Cardinality(Tracked) - MaxRuns
  IN  IF over <= 0 THEN {{}}
      ELSE {V \in SUBSET Active :
              /\ Cardinality(V) = IF over < Cardinality(Active)
                                    THEN over ELSE Cardinality(Active)
              /\ \A v \in V, u \in Active \ V : map[v].lastSeen <= map[u].lastSeen}

Without(map, V, fresh) == [id \in DOMAIN map |-> IF id \in V THEN fresh ELSE map[id]]
=============================================================================
