--------------------------- MODULE StoreKeysProofs ---------------------------
(***************************************************************************)
(* Proofs about StoreKeys.tla for any number of gateways, calls and days.  *)
(***************************************************************************)
EXTENDS StoreKeys, ControlRulesProofs, TLAPS

(***************************************************************************)
(* What every script but luaStatus does to the record: it keeps its type,  *)
(* never turns the day back, and a pause that is off the list afterwards   *)
(* is the one that was off the list before.                                *)
(***************************************************************************)
Kept(h, new) ==
  /\ new \in StoreRecord
  /\ new.key.day >= h.key.day
  /\ \/ new.key.paused = "no" \/ new.listed
     \/ /\ new.key.paused = h.key.paused /\ ~h.listed
        /\ new.key.paused = "day" => new.key.day = h.key.day

\* A daily pause of day d or later is not over on day d.
Standing(h, d) == h.key.paused = "day" /\ d <= h.key.day

\* It stands through the script.
Stands(h, new, d) == Standing(h, d) => Standing(new, d) /\ new.key.day = h.key.day

LEMMA KeptTwice ==
  ASSUME NEW h \in StoreRecord, NEW mid, NEW new, Kept(h, mid), Kept(mid, new)
  PROVE  Kept(h, new)
BY DEF Kept, StoreRecord, KeyState

LEMMA RecordFields ==
  ASSUME NEW h \in StoreRecord
  PROVE  /\ h.key \in KeyState /\ h.listed \in BOOLEAN /\ h.settled \subseteq Calls
         /\ h.admits \in [Calls -> {"none", "served"} \cup Reasons]
         /\ h.key.day \in Nat /\ h.key.paused \in KeyPauses /\ h.key.inflight \in Nat
BY DEF StoreRecord, KeyState

LEMMA NewDayFacts ==
  ASSUME NEW h \in StoreRecord, NEW d \in Nat
  PROVE  /\ Kept(h, NewDay(h, d))
         /\ NewDay(h, d).settled = h.settled /\ NewDay(h, d).admits = h.admits
         /\ NewDay(h, d).key.paused = "day" <=> Standing(h, d)
         /\ d <= NewDay(h, d).key.day
         /\ Standing(h, d) => NewDay(h, d) = h
<1> DEFINE rolled == KeyNewDay(h.key, d)
           listed == h.listed /\ h.key.paused # "day"
           new    == [h EXCEPT !.key = rolled, !.listed = listed]
<1>1. h.key \in KeyState /\ h.listed \in BOOLEAN /\ h.key.day \in Nat /\ h.key.paused \in KeyPauses
  BY RecordFields
<1>2. /\ rolled \in KeyState /\ rolled.day = d
      /\ rolled.paused = IF h.key.paused = "day" THEN "no" ELSE h.key.paused
  BY <1>1 DEF KeyNewDay, KeyState, KeyPauses
<1>3. NewDay(h, d) = IF d <= h.key.day THEN h ELSE new
  BY DEF NewDay
<1> HIDE DEF rolled
<1>4. /\ new \in StoreRecord /\ new.key = rolled /\ new.listed = listed
      /\ new.settled = h.settled /\ new.admits = h.admits
  BY <1>1, <1>2 DEF StoreRecord
<1> HIDE DEF new
<1>5. CASE d <= h.key.day
  BY <1>1, <1>3, <1>5 DEF Kept, Standing
<1>6. CASE ~(d <= h.key.day)
  BY <1>1, <1>2, <1>3, <1>4, <1>6 DEF Kept, Standing
<1> QED
  BY <1>5, <1>6

\* A script's last strokes on the record: a pause and a place on the list, and
\* the ids and counters, each with what it changes.
Struck(h, why, b) == [h EXCEPT !.key.paused = why, !.listed = b]
Counted(h, k, s, a) == [h EXCEPT !.key = k, !.settled = s, !.admits = a]

LEMMA StruckFacts ==
  ASSUME NEW h \in StoreRecord, NEW why \in KeyPauses, NEW b \in BOOLEAN
  PROVE  LET new == Struck(h, why, b)
         IN  /\ new \in StoreRecord /\ new.key.paused = why /\ new.listed = b
             /\ new.key.day = h.key.day
<1> DEFINE k == [h.key EXCEPT !.paused = why]
<1>1. k \in KeyState /\ k.paused = why /\ k.day = h.key.day
  BY RecordFields DEF KeyState
<1>2. Struck(h, why, b) = [h EXCEPT !.key = k, !.listed = b]
  BY RecordFields DEF StoreRecord, Struck
<1> HIDE DEF k
<1> QED
  BY <1>1, <1>2 DEF StoreRecord

LEMMA CapNames == \A k : StoreKeyCap(k) \in KeyPauses
BY DEF StoreKeyCap, KeyPauses

LEMMA CountedFacts ==
  ASSUME NEW h \in StoreRecord, NEW k \in KeyState, NEW s \in SUBSET Calls,
         NEW a \in [Calls -> {"none", "served"} \cup Reasons],
         k.day = h.key.day, k.paused = h.key.paused
  PROVE  LET new == Counted(h, k, s, a)
         IN  Kept(h, new) /\ new.listed = h.listed /\ new.key = k
<1>1. LET new == Counted(h, k, s, a)
      IN  new \in StoreRecord /\ new.listed = h.listed /\ new.key = k
  BY DEF StoreRecord, Counted
<1> QED
  BY <1>1, RecordFields DEF Kept

LEMMA AdmitFacts ==
  ASSUME NEW h \in StoreRecord, NEW c \in Calls, NEW mode, NEW d \in Nat
  PROVE  LET r == AdmitScript(h, c, mode, d)
         IN  Kept(h, r.db) /\ Stands(h, r.db, d) /\ r.ok \in BOOLEAN /\ r.code \in Codes
<1> DEFINE now == NewDay(h, d)
           was == now.key.paused
           hit == IF was # "no" \/ mode = "bypass" THEN "no" ELSE StoreKeyCap(now.key)
           why == IF was # "no" THEN was ELSE hit
           listed == now.listed \/ hit # "no"
           hitIn == [now EXCEPT !.key.paused = why, !.listed = listed]
           one == [hitIn.key EXCEPT !.inflight = @ + 1]
           served == [hitIn EXCEPT !.key.inflight = @ + 1, !.admits[c] = "served"]
           stopped == [hitIn EXCEPT !.admits[c] = IF hit = "no" THEN @ ELSE hit]
           r == AdmitScript(h, c, mode, d)
<1>1. /\ Kept(h, now) /\ now \in StoreRecord
      /\ Standing(h, d) => now = h
      /\ was \in KeyPauses /\ hit \in KeyPauses /\ why \in KeyPauses /\ listed \in BOOLEAN
  BY NewDayFacts, RecordFields, CapNames DEF Kept, KeyPauses
<1>2. r = CASE h.admits[c] = "served"  -> [db |-> h, ok |-> TRUE, code |-> "dup"]
            [] h.admits[c] \in Reasons -> [db |-> h, ok |-> FALSE, code |-> h.admits[c]]
            [] h.admits[c] = "none" /\ (why = "no" \/ mode # "decide") ->
                 [db |-> served, ok |-> TRUE, code |-> IF mode = "bypass" THEN "no" ELSE why]
            [] OTHER -> [db |-> stopped, ok |-> FALSE, code |-> why]
  BY DEF AdmitScript
<1>3. hitIn = Struck(now, why, listed)
  BY DEF Struck
<1>4. /\ served = [hitIn EXCEPT !.key.inflight = @ + 1, !.admits[c] = "served"]
      /\ stopped = [hitIn EXCEPT !.admits[c] = IF hit = "no" THEN @ ELSE hit]
      /\ one = [hitIn.key EXCEPT !.inflight = @ + 1]
      /\ why = IF was # "no" THEN was ELSE hit
      /\ listed = (now.listed \/ hit # "no")
      /\ now = NewDay(h, d) /\ was = now.key.paused
  OBVIOUS
<1> SUFFICES Kept(h, r.db) /\ Stands(h, r.db, d) /\ r.ok \in BOOLEAN /\ r.code \in Codes
  BY DEF r
<1> HIDE DEF now, was, hit, why, listed, hitIn, one, served, stopped, r
<1>5. /\ hitIn \in StoreRecord /\ hitIn.key.paused = why /\ hitIn.listed = listed
      /\ hitIn.key.day = now.key.day
  BY <1>1, <1>3, StruckFacts
<1>6. Kept(h, hitIn)
  BY <1>1, <1>4, <1>5, RecordFields DEF Kept, KeyPauses
<1>7. Stands(h, hitIn, d)
  BY <1>1, <1>4, <1>5 DEF Stands, Standing
<1>8. /\ one \in KeyState /\ one.day = hitIn.key.day /\ one.paused = hitIn.key.paused
      /\ hitIn.settled \in SUBSET Calls
      /\ [hitIn.admits EXCEPT ![c] = "served"] \in [Calls -> {"none", "served"} \cup Reasons]
      /\ [hitIn.admits EXCEPT ![c] = IF hit = "no" THEN @ ELSE hit]
           \in [Calls -> {"none", "served"} \cup Reasons]
  BY <1>1, <1>4, <1>5, RecordFields DEF KeyState, Reasons
<1>9. served = Counted(hitIn, one, hitIn.settled, [hitIn.admits EXCEPT ![c] = "served"])
  BY <1>4, <1>5, RecordFields DEF StoreRecord, Counted
<1>10. stopped = Counted(hitIn, hitIn.key, hitIn.settled,
                         [hitIn.admits EXCEPT ![c] = IF hit = "no" THEN @ ELSE hit])
  BY <1>4, <1>5, RecordFields DEF StoreRecord, Counted
<1>11. Kept(hitIn, served) /\ served.key = one
  BY <1>5, <1>8, <1>9, CountedFacts
<1>12. Kept(hitIn, stopped) /\ stopped.key = hitIn.key
  BY <1>5, <1>8, <1>10, CountedFacts, RecordFields
<1>13. Kept(h, served) /\ Kept(h, stopped)
  BY <1>6, <1>11, <1>12, KeptTwice
<1>14. Stands(h, served, d) /\ Stands(h, stopped, d)
  BY <1>7, <1>8, <1>11, <1>12 DEF Stands, Standing
<1>15. Kept(h, h) /\ Stands(h, h, d)
  BY RecordFields DEF Kept, Stands
<1>16. CASE h.admits[c] = "served"
  <2>1. r = [db |-> h, ok |-> TRUE, code |-> "dup"]
    BY <1>2, <1>16 DEF Reasons, KeyPauses
  <2> QED
    BY <1>15, <2>1 DEF Codes
<1>17. CASE h.admits[c] \in Reasons
  <2>1. h.admits[c] # "served"
    BY <1>17 DEF Reasons, KeyPauses
  <2>2. r = [db |-> h, ok |-> FALSE, code |-> h.admits[c]]
    BY <1>2, <1>17, <2>1 DEF Reasons, KeyPauses
  <2> QED
    BY <1>15, <1>17, <2>2 DEF Codes, Reasons
<1>18. CASE h.admits[c] = "none" /\ (why = "no" \/ mode # "decide")
  <2>1. r = [db |-> served, ok |-> TRUE, code |-> IF mode = "bypass" THEN "no" ELSE why]
    BY <1>2, <1>18 DEF Reasons, KeyPauses
  <2> QED
    BY <1>1, <1>13, <1>14, <2>1 DEF Codes, KeyPauses
<1>19. CASE h.admits[c] = "none" /\ ~(why = "no" \/ mode # "decide")
  <2>1. r = [db |-> stopped, ok |-> FALSE, code |-> why]
    BY <1>2, <1>19 DEF Reasons, KeyPauses
  <2> QED
    BY <1>1, <1>13, <1>14, <2>1 DEF Codes, KeyPauses
<1> QED
  BY <1>16, <1>17, <1>18, <1>19, RecordFields

LEMMA MicroType ==
  ASSUME NEW v \in Nat
  PROVE  Micro(v) \in Nat
BY PolicyAssumption DEF Micro

LEMMA RecordFacts ==
  ASSUME NEW h \in StoreRecord, NEW c \in Calls, NEW cost \in Nat, NEW d \in Nat
  PROVE  LET new == RecordScript(h, c, cost, d)
         IN  Kept(h, new) /\ Stands(h, new, d)
<1> DEFINE now == NewDay(h, d)
           k == [now.key EXCEPT !.inflight = Dec(@), !.dayCalls = @ + 1, !.lifeCalls = @ + 1,
                                !.daySpend = @ + Micro(cost), !.lifeSpend = @ + Micro(cost)]
           hit == IF k.paused # "no" THEN "no" ELSE SettledCap(k)
           k2 == IF hit = "no" THEN k ELSE [k EXCEPT !.paused = hit]
           listed == now.listed \/ hit # "no"
           done == [now EXCEPT !.key = k2, !.listed = listed, !.settled = @ \cup {c}]
<1>1. RecordScript(h, c, cost, d) = IF c \in h.settled THEN h ELSE done
  BY DEF RecordScript
<1>2. /\ Kept(h, now) /\ now \in StoreRecord /\ now.key \in KeyState
      /\ now.listed \in BOOLEAN /\ now.settled \subseteq Calls
      /\ Standing(h, d) => now = h
  BY NewDayFacts, RecordFields DEF Kept
<1> HIDE DEF now
<1>3. /\ Dec(now.key.inflight) \in Nat /\ now.key.dayCalls + 1 \in Nat
      /\ now.key.lifeCalls + 1 \in Nat /\ now.key.daySpend + Micro(cost) \in Nat
      /\ now.key.lifeSpend + Micro(cost) \in Nat
  BY <1>2, DecType, MicroType DEF KeyState
<1>4. k \in KeyState /\ k.day = now.key.day /\ k.paused = now.key.paused
  BY <1>2, <1>3 DEF KeyState
<1> HIDE DEF k
<1>5. hit \in KeyPauses /\ (k.paused # "no" => hit = "no")
  BY DEF KeyPauses, SettledCap
<1> HIDE DEF hit
<1>6. /\ k2 \in KeyState /\ k2.day = now.key.day
      /\ k2.paused = IF hit = "no" THEN now.key.paused ELSE hit
  BY <1>4, <1>5 DEF KeyState
<1>7. listed \in BOOLEAN /\ (hit # "no" => listed) /\ (hit = "no" => listed = now.listed)
  BY <1>2
<1> HIDE DEF k2, listed
<1>8. done \in StoreRecord /\ done.key = k2 /\ done.listed = listed
  BY <1>2, <1>6, <1>7 DEF StoreRecord
<1> HIDE DEF done
<1>9. Kept(now, done)
  BY <1>2, <1>6, <1>7, <1>8 DEF Kept, KeyState
<1>10. Kept(h, done)
  BY <1>2, <1>9, KeptTwice
<1>11. Stands(h, done, d)
  BY <1>2, <1>4, <1>5, <1>6, <1>8 DEF Stands, Standing
<1>12. Kept(h, h) /\ Stands(h, h, d)
  BY RecordFields DEF Kept, Stands
<1> QED
  BY <1>1, <1>10, <1>11, <1>12

LEMMA ReleaseFacts ==
  ASSUME NEW h \in StoreRecord, NEW c \in Calls
  PROVE  LET new == ReleaseScript(h, c)
         IN  Kept(h, new) /\ new.key.day = h.key.day /\ new.key.paused = h.key.paused
<1> DEFINE k == [h.key EXCEPT !.inflight = Dec(@)]
           done == Counted(h, k, h.settled \cup {c}, h.admits)
<1>1. k \in KeyState /\ k.day = h.key.day /\ k.paused = h.key.paused
  BY RecordFields, DecType DEF KeyState
<1>2. ReleaseScript(h, c) = IF c \in h.settled THEN h ELSE done
  BY RecordFields DEF ReleaseScript, Counted, StoreRecord
<1> HIDE DEF k
<1>3. Kept(h, done) /\ done.key = k
  BY <1>1, RecordFields, CountedFacts
<1>4. Kept(h, h)
  BY RecordFields DEF Kept
<1> HIDE DEF done
<1> QED
  BY <1>1, <1>2, <1>3, <1>4

LEMMA ResumeFacts ==
  ASSUME NEW h \in StoreRecord
  PROVE  LET new == ResumeScript(h)
         IN  Kept(h, new) /\ new.key.day = h.key.day /\ new.key.paused = "no"
<1> DEFINE done == [h EXCEPT !.key = ResumedKey(@), !.listed = FALSE]
<1>1. /\ ResumedKey(h.key) \in KeyState /\ ResumedKey(h.key).day = h.key.day
      /\ ResumedKey(h.key).paused = "no"
  BY RecordFields, ResumedKeyFields
<1>2. done \in StoreRecord /\ done.key = ResumedKey(h.key)
  BY <1>1 DEF StoreRecord
<1>3. ResumeScript(h) = IF h.key.paused = "no" THEN h ELSE done
  BY DEF ResumeScript
<1> HIDE DEF done
<1>4. Kept(h, done) /\ Kept(h, h)
  BY <1>1, <1>2, RecordFields DEF Kept
<1> QED
  BY <1>1, <1>2, <1>3, <1>4

\* A pause that is written is listed, and a daily one is of the store's day.
LEMMA PauseFacts ==
  ASSUME NEW h \in StoreRecord, NEW why \in Reasons, NEW on \in Nat
  PROVE  LET new == PauseScript(h, why, on)
         IN  /\ Kept(h, new)
             /\ \/ new = h
                \/ new.key.paused = why /\ (why = "day" => new.key.day = on)
<1> DEFINE k == IF why = "day" /\ on > h.key.day
                  THEN [h.key EXCEPT !.day = on, !.dayCalls = 0, !.daySpend = 0, !.inflight = 0]
                  ELSE h.key
           k2 == [k EXCEPT !.paused = why]
           done == [h EXCEPT !.key = k2, !.listed = TRUE]
<1>1. k \in KeyState /\ k.day = IF why = "day" /\ on > h.key.day THEN on ELSE h.key.day
  BY RecordFields DEF KeyState
<1>2. PauseScript(h, why, on) = IF why = "day" /\ on < h.key.day THEN h ELSE done
  BY DEF PauseScript
<1> HIDE DEF k
<1>3. k2 \in KeyState /\ k2.day = k.day /\ k2.paused = why
  BY <1>1 DEF KeyState, Reasons
<1> HIDE DEF k2
<1>4. done \in StoreRecord /\ done.key = k2 /\ done.listed
  BY <1>3 DEF StoreRecord
<1> HIDE DEF done
<1>5. Kept(h, done) /\ Kept(h, h)
  BY <1>1, <1>3, <1>4, RecordFields DEF Kept
<1> QED
  BY <1>1, <1>2, <1>3, <1>4, <1>5, RecordFields

\* luaStatus writes the list alone, and drops a key only if it is not paused or
\* its daily pause is over.
LEMMA StatusFacts ==
  ASSUME NEW h \in StoreRecord, NEW d \in Nat
  PROVE  LET new == StatusScript(h, d)
         IN  /\ new \in StoreRecord /\ new.key = h.key
             /\ \/ new.listed = h.listed \/ h.key.paused = "no"
                \/ h.key.paused = "day" /\ d > h.key.day
<1> DEFINE b == h.listed /\ h.key.paused # "no" /\ ~(h.key.paused = "day" /\ d > h.key.day)
<1>1. StatusScript(h, d) = [h EXCEPT !.listed = b] /\ b \in BOOLEAN /\ h.listed \in BOOLEAN
  BY RecordFields DEF StatusScript
<1> HIDE DEF b
<1>2. /\ StatusScript(h, d) \in StoreRecord /\ StatusScript(h, d).key = h.key
      /\ StatusScript(h, d).listed = b
  BY <1>1 DEF StoreRecord
<1> QED
  BY <1>1, <1>2 DEF b

-----------------------------------------------------------------------------
(* The inductive invariant: the types, and what the store's record says of *)
(* its own pause.  StoreSafe is the part a script can disturb.             *)

GatewaysType ==
  /\ degraded \in [Gateways -> BOOLEAN] /\ caughtUp \in [Gateways -> BOOLEAN]
  /\ fallback \in [Gateways -> [key: KeyState, gap: BOOLEAN]]
  /\ keysSeen \in [Gateways -> [why: KeyPauses, day: 0..MaxDay]]
  /\ owed \in [Gateways -> Seq(Owed)]

ThreadsType ==
  /\ call \in [Calls -> [pc: {"idle", "answered", "failed", "out", "done"}, gw: Gateways,
                         where: {"shared", "local"}, ok: BOOLEAN, code: Codes]]
  /\ asked \subseteq Resumes /\ faults \in 0..MaxFaults

ClockType == clock \in [Gateways -> 1..MaxDay]

StoreSafe ==
  /\ db \in StoreRecord /\ pausedOn \in Nat /\ loose \in Nat
  /\ DailyPauseIsOfItsDay /\ ListedWhilePaused

KeysInv == StoreSafe /\ ClockType /\ GatewaysType /\ ThreadsType

LEMMA InvParts == KeysInv <=> TypeOK /\ DailyPauseIsOfItsDay /\ ListedWhilePaused
BY DEF KeysInv, StoreSafe, ClockType, GatewaysType, ThreadsType, TypeOK

LEMMA ClockFacts ==
  ASSUME ClockType, NEW g \in Gateways
  PROVE  clock[g] \in Nat /\ clock[g] \in 1..MaxDay /\ clock[g] \in 0..MaxDay
BY KeyedAssumption DEF ClockType

-----------------------------------------------------------------------------
(* The store. *)

\* After a script the record is as safe as it was, if the day of its pause is
\* the one on record.
LEMMA ScriptSafe ==
  ASSUME StoreSafe, UNCHANGED clock, Kept(db, db'), pausedOn' \in Nat, loose' \in Nat,
         db'.key.paused = "day" => pausedOn' = db'.key.day
  PROVE  StoreSafe'
<1>1. ListedWhilePaused'
  <2>1. CASE db'.key.paused = "no" \/ db'.listed
    BY <2>1 DEF ListedWhilePaused
  <2>2. CASE /\ db'.key.paused = db.key.paused /\ ~db.listed
             /\ db'.key.paused = "day" => db'.key.day = db.key.day
    BY <2>2 DEF StoreSafe, ListedWhilePaused
  <2> QED
    BY <2>1, <2>2 DEF Kept
<1> QED
  BY <1>1 DEF StoreSafe, Kept, DailyPauseIsOfItsDay

LEMMA StampedFacts ==
  ASSUME StoreSafe, NEW d \in Nat, NEW new, Kept(db, new), Stands(db, new, d)
  PROVE  /\ Stamped(new, d) \in Nat
         /\ new.key.paused = "day" => Stamped(new, d) = new.key.day
<1>1. new.key.day \in Nat /\ db \in StoreRecord /\ pausedOn \in Nat
  BY RecordFields DEF Kept, StoreSafe
<1>2. NewDay(db, d).key.paused = "day" => pausedOn = new.key.day
  <2>1. NewDay(db, d).key.paused = "day" => Standing(db, d)
    BY <1>1, NewDayFacts
  <2> QED
    BY <2>1 DEF Stands, Standing, StoreSafe, DailyPauseIsOfItsDay
<1> QED
  BY <1>1, <1>2 DEF Stamped

LEMMA OwedParts ==
  ASSUME NEW item \in Owed
  PROVE  /\ item.kind \in {"r", "l", "P", "U"}
         /\ item.kind \in {"r", "l"} => item.call \in Calls /\ item.cost \in Nat
         /\ item.kind = "P" => item.why \in Reasons /\ item.onDay \in Nat
<1>1. CASE item \in [kind: {"r", "l"}, call: Calls, cost: Costs]
  BY <1>1, KeyedAssumption
<1>2. CASE item \in [kind: {"P"}, why: Reasons, onDay: 1..MaxDay]
  <2>1. item.kind = "P" /\ item.why \in Reasons /\ item.onDay \in 1..MaxDay
    BY <1>2
  <2> QED
    BY <2>1, KeyedAssumption
<1>3. CASE item \in [kind: {"U"}]
  <2>1. item.kind = "U"
    BY <1>3
  <2> QED
    BY <2>1
<1> QED
  BY <1>1, <1>2, <1>3 DEF Owed

LEMMA TakenSafe ==
  ASSUME StoreSafe, ClockType, UNCHANGED clock, NEW g \in Gateways, NEW item \in Owed,
         TakenBy(g, item)
  PROVE  StoreSafe'
<1> DEFINE d == clock[g]
<1>1. d \in Nat /\ db \in StoreRecord /\ pausedOn \in Nat /\ loose \in Nat
  BY ClockFacts DEF StoreSafe
<1> HIDE DEF d
<1>2. loose' \in Nat
  BY <1>1 DEF TakenBy
<1>3. db' = TakeScript(g, item)
  BY DEF TakenBy
<1>4. Kept(db, db) /\ (db.key.paused = "day" => pausedOn = db.key.day)
  BY <1>1, RecordFields DEF Kept, StoreSafe, DailyPauseIsOfItsDay
<1>5. CASE item.kind = "r"
  <2>1. db' = RecordScript(db, item.call, item.cost, d)
    BY <1>3, <1>5 DEF TakeScript, d
  <2>2. Kept(db, db') /\ Stands(db, db', d)
    BY <1>1, <1>5, <2>1, RecordFacts, OwedParts
  <2>3. pausedOn' = IF db' # db THEN Stamped(db', d) ELSE pausedOn
    BY <1>3, <1>5 DEF TakenBy, d
  <2>4. /\ Stamped(db', d) \in Nat
        /\ db'.key.paused = "day" => Stamped(db', d) = db'.key.day
    BY <1>1, <2>2, StampedFacts
  <2> QED
    BY <1>1, <1>2, <1>4, <2>2, <2>3, <2>4, ScriptSafe
<1>6. CASE item.kind = "l"
  <2>1. db' = ReleaseScript(db, item.call) /\ pausedOn' = pausedOn
    BY <1>3, <1>6 DEF TakeScript, TakenBy
  <2>2. Kept(db, db') /\ db'.key.day = db.key.day /\ db'.key.paused = db.key.paused
    BY <1>1, <1>6, <2>1, ReleaseFacts, OwedParts
  <2> QED
    BY <1>1, <1>2, <1>4, <2>1, <2>2, ScriptSafe
<1>7. CASE item.kind = "P"
  <2>1. db' = PauseScript(db, item.why, item.onDay)
    BY <1>3, <1>7 DEF TakeScript
  <2>2. /\ Kept(db, db') /\ item.onDay \in Nat
        /\ \/ db' = db
           \/ db'.key.paused = item.why /\ (item.why = "day" => db'.key.day = item.onDay)
    BY <1>1, <1>7, <2>1, PauseFacts, OwedParts
  <2>3. pausedOn' = IF db' # db THEN (IF item.why = "day" THEN item.onDay ELSE 0) ELSE pausedOn
    BY <1>3, <1>7 DEF TakenBy
  <2> QED
    BY <1>1, <1>2, <1>4, <2>2, <2>3, ScriptSafe
<1>8. CASE item.kind = "U"
  <2>1. db' = ResumeScript(db) /\ pausedOn' = 0
    BY <1>3, <1>8 DEF TakeScript, TakenBy
  <2>2. Kept(db, db') /\ db'.key.paused = "no"
    BY <1>1, <2>1, ResumeFacts
  <2> QED
    BY <1>2, <2>1, <2>2, ScriptSafe
<1> QED
  BY <1>5, <1>6, <1>7, <1>8, OwedParts

\* The steps that take nothing owed: a call's question, and the status.
LEMMA AskSafe ==
  ASSUME StoreSafe, ClockType, NEW c \in Calls, NEW g \in Gateways, NEW again \in BOOLEAN,
         Ask(c, g, again)
  PROVE  StoreSafe'
<1> DEFINE d == clock[g]
           first == AdmitScript(db, c, Mode(c), d)
           second == AdmitScript(first.db, c, Mode(c), d)
           r == IF again THEN second ELSE first
<1>1. /\ db' = r.db /\ pausedOn' = Stamped(r.db, d) /\ UNCHANGED clock
      /\ loose' = loose + IF r.ok /\ Mode(c) = "bypass" THEN 1 ELSE 0
  BY DEF Ask
<1>2. d \in Nat /\ db \in StoreRecord /\ loose \in Nat
  BY ClockFacts DEF StoreSafe
<1> HIDE DEF d
<1>3. Kept(db, first.db) /\ Stands(db, first.db, d)
  BY <1>2, AdmitFacts
<1> HIDE DEF first
<1>4. first.db \in StoreRecord
  BY <1>3 DEF Kept
<1>5. Kept(first.db, second.db) /\ Stands(first.db, second.db, d)
  BY <1>2, <1>4, AdmitFacts
<1> HIDE DEF second
<1>6. Kept(db, second.db) /\ Stands(db, second.db, d)
  BY <1>2, <1>3, <1>5, KeptTwice DEF Stands
<1>7. Kept(db, r.db) /\ Stands(db, r.db, d)
  BY <1>3, <1>6
<1> HIDE DEF r
<1>8. pausedOn' \in Nat /\ (db'.key.paused = "day" => pausedOn' = db'.key.day)
  BY <1>1, <1>2, <1>7, StampedFacts
<1>9. loose' \in Nat
  BY <1>1, <1>2
<1> QED
  BY <1>1, <1>7, <1>8, <1>9, ScriptSafe

LEMMA AskFailsSafe ==
  ASSUME StoreSafe, ClockType, NEW c \in Calls, NEW g \in Gateways,
         NEW ran \in BOOLEAN, NEW starts \in BOOLEAN, AskFails(c, g, ran, starts)
  PROVE  StoreSafe'
<1> DEFINE d == clock[g]
           r == AdmitScript(db, c, Mode(c), d)
<1>1. /\ db' = IF ran THEN r.db ELSE db
      /\ pausedOn' = IF ran THEN Stamped(r.db, d) ELSE pausedOn
      /\ loose' = loose + IF ran /\ r.ok /\ Mode(c) = "bypass" THEN 1 ELSE 0
      /\ UNCHANGED clock
  BY DEF AskFails
<1>2. d \in Nat /\ db \in StoreRecord /\ loose \in Nat /\ pausedOn \in Nat
  BY ClockFacts DEF StoreSafe
<1> HIDE DEF d
<1>3. Kept(db, r.db) /\ Stands(db, r.db, d)
  BY <1>2, AdmitFacts
<1> HIDE DEF r
<1>4. /\ Stamped(r.db, d) \in Nat
      /\ r.db.key.paused = "day" => Stamped(r.db, d) = r.db.key.day
  BY <1>2, <1>3, StampedFacts
<1>5. Kept(db, db) /\ (db.key.paused = "day" => pausedOn = db.key.day)
  BY <1>2, RecordFields DEF Kept, StoreSafe, DailyPauseIsOfItsDay
<1>6. loose' \in Nat
  BY <1>1, <1>2
<1> QED
  BY <1>1, <1>2, <1>3, <1>4, <1>5, <1>6, ScriptSafe

LEMMA StatusSafe ==
  ASSUME StoreSafe, ClockType, NEW g \in Gateways, Status(g)
  PROVE  StoreSafe'
<1>1. db' = StatusScript(db, clock[g]) /\ UNCHANGED <<clock, pausedOn, loose>>
  BY DEF Status
<1>2. db \in StoreRecord /\ clock[g] \in Nat
  BY ClockFacts DEF StoreSafe
<1>3. /\ db' \in StoreRecord /\ db'.key = db.key
      /\ \/ db'.listed = db.listed \/ db.key.paused = "no"
         \/ db.key.paused = "day" /\ clock[g] > db.key.day
  BY <1>1, <1>2, StatusFacts
<1> QED
  BY <1>1, <1>3 DEF StoreSafe, DailyPauseIsOfItsDay, ListedWhilePaused

LEMMA MidnightSafe ==
  ASSUME StoreSafe, ClockType, NEW g \in Gateways, Midnight(g)
  PROVE  StoreSafe'
<1>1. \A x \in Gateways : clock'[x] \in Nat /\ clock[x] \in Nat /\ clock'[x] >= clock[x]
  BY ClockFacts DEF Midnight, ClockType
<1>2. db.key.day \in Nat
  BY RecordFields DEF StoreSafe
<1>3. ListedWhilePaused'
  BY <1>1, <1>2 DEF StoreSafe, ListedWhilePaused, Midnight
<1> QED
  BY <1>3 DEF Midnight, StoreSafe, DailyPauseIsOfItsDay

LEMMA StoreKept ==
  ASSUME StoreSafe, UNCHANGED <<db, clock, pausedOn, loose>>
  PROVE  StoreSafe'
BY DEF StoreSafe, DailyPauseIsOfItsDay, ListedWhilePaused

\* What is sent is owed, and what is owed has its type.
LEMMA ItemTypes ==
  /\ \A kind \in {"r", "l"}, c \in Calls, cost \in Costs : Settlement(kind, c, cost) \in Owed
  /\ \A why \in Reasons, on \in 1..MaxDay : OwedPause(why, on) \in Owed
  /\ OwedResume \in Owed
BY DEF Settlement, OwedPause, OwedResume, Owed

LEMMA HeadOwed ==
  ASSUME GatewaysType, NEW g \in Gateways, owed[g] # <<>>
  PROVE  Head(owed[g]) \in Owed /\ Tail(owed[g]) \in Seq(Owed)
BY DEF GatewaysType

LEMMA SettleStore ==
  ASSUME StoreSafe, ClockType, ThreadsType, NEW c \in Calls, Settle(c)
  PROVE  StoreSafe'
<1> PICK kind \in {"r", "l"}, cost \in Costs :
       \/ SettleLocal(c, kind, cost) \/ SettleShared(c, kind, cost)
       \/ \E ran, starts \in BOOLEAN : SettleFails(c, kind, cost, ran, starts)
  BY DEF Settle
<1>1. call[c].gw \in Gateways /\ Settlement(kind, c, cost) \in Owed
  BY ItemTypes DEF ThreadsType
<1>2. CASE SettleLocal(c, kind, cost)
  BY <1>2, StoreKept DEF SettleLocal
<1>3. CASE SettleShared(c, kind, cost)
  <2>1. CASE degraded[call[c].gw]
    BY <1>3, <2>1, StoreKept DEF SettleShared
  <2>2. CASE ~degraded[call[c].gw]
    BY <1>1, <1>3, <2>2, TakenSafe DEF SettleShared
  <2> QED
    BY <2>1, <2>2
<1>4. ASSUME NEW ran \in BOOLEAN, NEW starts \in BOOLEAN, SettleFails(c, kind, cost, ran, starts)
      PROVE  StoreSafe'
  <2>1. CASE ran
    BY <1>1, <1>4, <2>1, TakenSafe DEF SettleFails
  <2>2. CASE ~ran
    BY <1>4, <2>2, StoreKept DEF SettleFails
  <2> QED
    BY <2>1, <2>2
<1> QED
  BY <1>2, <1>3, <1>4

LEMMA StoreStep == KeysInv /\ [Next]_vars => StoreSafe'
<1> SUFFICES ASSUME KeysInv, [Next]_vars
             PROVE  StoreSafe'
  OBVIOUS
<1> USE DEF KeysInv
<1>1. CASE UNCHANGED vars
  BY <1>1, StoreKept DEF vars
<1>2. ASSUME NEW c \in Calls, Process(c) \/ Settle(c)
      PROVE  StoreSafe'
  BY <1>2, SettleStore, StoreKept DEF Process
<1>3. ASSUME NEW c \in Calls, NEW g \in Gateways, Decide(c, g)
      PROVE  StoreSafe'
  BY <1>3, StoreKept DEF Decide
<1>4. ASSUME NEW g \in Gateways, Deliver(g)
      PROVE  StoreSafe'
  BY <1>4, HeadOwed, TakenSafe DEF Deliver
<1>5. ASSUME NEW g \in Gateways, NEW ran \in BOOLEAN, NEW starts \in BOOLEAN,
             DeliverFails(g, ran, starts)
      PROVE  StoreSafe'
  BY <1>5, HeadOwed, TakenSafe, StoreKept DEF DeliverFails
<1>6. ASSUME NEW g \in Gateways, CatchUp(g) \/ Recover(g)
      PROVE  StoreSafe'
  BY <1>6, StoreKept DEF CatchUp, Recover
<1>7. ASSUME NEW g \in Gateways, NEW u \in Resumes, Resume(u, g)
      PROVE  StoreSafe'
  BY <1>7, ItemTypes, TakenSafe, StoreKept DEF Resume
<1>8. ASSUME NEW g \in Gateways, NEW u \in Resumes, NEW ran \in BOOLEAN, NEW starts \in BOOLEAN,
             ResumeFails(u, g, ran, starts)
      PROVE  StoreSafe'
  BY <1>8, ItemTypes, TakenSafe, StoreKept DEF ResumeFails
<1> QED
  BY <1>1, <1>2, <1>3, <1>4, <1>5, <1>6, <1>7, <1>8, AskSafe, AskFailsSafe, StatusSafe,
     MidnightSafe DEF Next

-----------------------------------------------------------------------------
(* The gateways and the threads keep their types. *)

Fallbacks == [key: KeyState, gap: BOOLEAN]
Threads == [pc: {"idle", "answered", "failed", "out", "done"}, gw: Gateways,
            where: {"shared", "local"}, ok: BOOLEAN, code: Codes]

LEMMA FreshType ==
  ASSUME ClockType, GatewaysType, NEW g \in Gateways, NEW gap \in BOOLEAN
  PROVE  FreshFallback(g, gap) \in Fallbacks
<1> DEFINE k == KeyLocked(NewKey, 0, clock[g])
           why == keysSeen[g].why
           key == IF why = "no" \/ (keysSeen[g].day # 0 /\ clock[g] > keysSeen[g].day)
                    THEN NewKey ELSE [k EXCEPT !.paused = why]
<1>1. k \in KeyState /\ NewKey \in KeyState /\ why \in KeyPauses
  BY ClockFacts, NewFields, KeyLockedFields DEF GatewaysType
<1>2. FreshFallback(g, gap) = [key |-> key, gap |-> gap]
  BY DEF FreshFallback
<1> HIDE DEF k, why
<1>3. key \in KeyState
  BY <1>1 DEF KeyState
<1> HIDE DEF key
<1> QED
  BY <1>2, <1>3 DEF Fallbacks

LEMMA FaultType ==
  ASSUME ClockType, GatewaysType, ThreadsType, NEW g \in Gateways, NEW starts \in BOOLEAN,
         Fault(g, starts)
  PROVE  /\ degraded' \in [Gateways -> BOOLEAN] /\ caughtUp' \in [Gateways -> BOOLEAN]
         /\ fallback' \in [Gateways -> Fallbacks] /\ faults' \in 0..MaxFaults
<1>1. faults' \in 0..MaxFaults
  BY KeyedAssumption DEF Fault, ThreadsType
<1>2. degraded' \in [Gateways -> BOOLEAN] /\ caughtUp' \in [Gateways -> BOOLEAN]
  BY DEF Fault, GatewaysType
<1>3. FreshFallback(g, TRUE) \in Fallbacks
  BY FreshType
<1>4. fallback' \in [Gateways -> Fallbacks]
  BY <1>3 DEF Fault, GatewaysType, Fallbacks
<1> QED
  BY <1>1, <1>2, <1>4

\* The fallback's entry of the key changes to another.
LEMMA EntrySet ==
  ASSUME GatewaysType, NEW g \in Gateways, NEW new \in KeyState
  PROVE  [fallback EXCEPT ![g].key = new] \in [Gateways -> Fallbacks]
<1>1. fallback[g] \in Fallbacks
  BY DEF GatewaysType, Fallbacks
<1>2. [fallback[g] EXCEPT !.key = new] \in Fallbacks
  BY <1>1 DEF Fallbacks
<1>3. [fallback EXCEPT ![g].key = new] = [fallback EXCEPT ![g] = [fallback[g] EXCEPT !.key = new]]
  BY <1>1 DEF GatewaysType, Fallbacks
<1> QED
  BY <1>2, <1>3 DEF GatewaysType, Fallbacks

LEMMA SetLocalType ==
  ASSUME ClockType, GatewaysType, NEW g \in Gateways, NEW k, NEW new \in KeyState,
         SetLocal(g, k, new)
  PROVE  fallback' \in [Gateways -> Fallbacks] /\ owed' \in [Gateways -> Seq(Owed)]
<1>1. fallback' \in [Gateways -> Fallbacks]
  BY EntrySet DEF SetLocal
<1>2. new.paused # "no" => OwedPause(new.paused, clock[g]) \in Owed
  BY ItemTypes, ClockFacts DEF KeyState, Reasons
<1>3. owed' \in [Gateways -> Seq(Owed)]
  BY <1>2 DEF SetLocal, GatewaysType
<1> QED
  BY <1>1, <1>3

LEMMA LockedEntry ==
  ASSUME ClockType, GatewaysType, NEW g \in Gateways
  PROVE  fallback[g].key \in KeyState /\ KeyLocked(fallback[g].key, 0, clock[g]) \in KeyState
BY ClockFacts, KeyLockedFields DEF GatewaysType

LEMMA NoteTypes ==
  ASSUME ClockType, GatewaysType, NEW g \in Gateways, NEW why \in KeyPauses
  PROVE  /\ [keysSeen EXCEPT ![g] = KeyNote(g, why)] \in [Gateways -> [why: KeyPauses, day: 0..MaxDay]]
         /\ [keysSeen EXCEPT ![g] = NoNote] \in [Gateways -> [why: KeyPauses, day: 0..MaxDay]]
<1>1. KeyNote(g, why) \in [why: KeyPauses, day: 0..MaxDay]
  BY ClockFacts, KeyedAssumption DEF KeyNote
<1>2. NoNote \in [why: KeyPauses, day: 0..MaxDay]
  BY KeyedAssumption DEF NoNote, KeyPauses
<1> QED
  BY <1>1, <1>2 DEF GatewaysType

LEMMA NotedType ==
  ASSUME ClockType, GatewaysType, StoreSafe', NEW g \in Gateways, NEW item, Noted(g, item)
  PROVE  keysSeen' \in [Gateways -> [why: KeyPauses, day: 0..MaxDay]]
<1>1. db'.key.paused \in KeyPauses
  BY DEF StoreSafe, StoreRecord, KeyState
<1> QED
  BY <1>1, NoteTypes DEF Noted, GatewaysType

LEMMA OwedMore ==
  ASSUME GatewaysType, NEW g \in Gateways, NEW item \in Owed
  PROVE  [owed EXCEPT ![g] = Append(@, item)] \in [Gateways -> Seq(Owed)]
BY DEF GatewaysType

LEMMA LocalResumeType ==
  ASSUME GatewaysType, NEW g \in Gateways, LocalResume(g)
  PROVE  fallback' \in [Gateways -> Fallbacks]
<1> DEFINE k == fallback[g].key
           new == IF k.paused = "no" THEN k ELSE ResumedKey(k)
<1>1. k \in KeyState /\ ResumedKey(k) \in KeyState
  BY ResumedKeyFields DEF GatewaysType
<1>2. fallback' = [fallback EXCEPT ![g].key = new]
  BY DEF LocalResume, GatewaysType
<1> HIDE DEF k
<1>3. new \in KeyState
  BY <1>1
<1> HIDE DEF new
<1> QED
  BY <1>2, <1>3, EntrySet

\* A thread that has moved.
LEMMA ThreadTypes ==
  ASSUME NEW g \in Gateways
  PROVE  /\ \A pc \in {"answered", "failed", "out", "done"}, where \in {"shared", "local"} :
              Thread(pc, g, where) \in Threads
         /\ Over \in Threads
<1>1. \A x \in Gateways, pc \in {"answered", "failed", "out", "done"}, where \in {"shared", "local"} :
        Thread(pc, x, where) \in Threads
  BY DEF Thread, Threads, Codes, KeyPauses
<1>2. (CHOOSE x \in Gateways : TRUE) \in Gateways
  OBVIOUS
<1> QED
  BY <1>1, <1>2 DEF Over

LEMMA ThreadSet ==
  ASSUME ThreadsType, NEW c \in Calls, NEW t \in Threads
  PROVE  [call EXCEPT ![c] = t] \in [Calls -> Threads]
BY DEF ThreadsType, Threads

GateTypes == ClockType /\ GatewaysType /\ ThreadsType

LEMMA AskType ==
  ASSUME KeysInv, NEW c \in Calls, NEW g \in Gateways, NEW again \in BOOLEAN, Ask(c, g, again)
  PROVE  GateTypes'
<1> DEFINE first == AdmitScript(db, c, Mode(c), clock[g])
           second == AdmitScript(first.db, c, Mode(c), clock[g])
           r == IF again THEN second ELSE first
           t == [Thread("answered", g, "shared") EXCEPT !.ok = r.ok, !.code = r.code]
<1>1. /\ call' = [call EXCEPT ![c] = t] /\ faults' = IF again THEN faults + 1 ELSE faults
      /\ again => faults < MaxFaults
      /\ UNCHANGED <<clock, degraded, caughtUp, fallback, keysSeen, owed, asked>>
  BY DEF Ask, gatewayVars
<1>2. clock[g] \in Nat /\ db \in StoreRecord
  BY ClockFacts DEF KeysInv, StoreSafe
<1>3. first.db \in StoreRecord /\ first.ok \in BOOLEAN /\ first.code \in Codes
  BY <1>2, AdmitFacts DEF Kept
<1> HIDE DEF first
<1>4. second.ok \in BOOLEAN /\ second.code \in Codes
  BY <1>2, <1>3, AdmitFacts
<1> HIDE DEF second
<1>5. r.ok \in BOOLEAN /\ r.code \in Codes
  BY <1>3, <1>4
<1> HIDE DEF r
<1>6. t \in Threads
  <2>1. Thread("answered", g, "shared") \in Threads
    BY ThreadTypes
  <2> QED
    BY <1>5, <2>1 DEF Threads
<1> HIDE DEF t
<1>7. call' \in [Calls -> Threads]
  BY <1>1, <1>6, ThreadSet DEF KeysInv
<1>8. faults' \in 0..MaxFaults
  BY <1>1, KeyedAssumption DEF KeysInv, ThreadsType
<1>9. ThreadsType'
  BY <1>1, <1>7, <1>8 DEF KeysInv, ThreadsType, Threads
<1>10. ClockType' /\ GatewaysType'
  BY <1>1 DEF KeysInv, ClockType, GatewaysType
<1> QED
  BY <1>9, <1>10 DEF GateTypes

\* A failure, with what it owes and remembers.
LEMMA FaultStep ==
  ASSUME KeysInv, NEW g \in Gateways, NEW starts \in BOOLEAN, Fault(g, starts),
         UNCHANGED <<clock, keysSeen, asked>>,
         owed' \in [Gateways -> Seq(Owed)], call' \in [Calls -> Threads]
  PROVE  GateTypes'
<1>1. /\ degraded' \in [Gateways -> BOOLEAN] /\ caughtUp' \in [Gateways -> BOOLEAN]
      /\ fallback' \in [Gateways -> Fallbacks] /\ faults' \in 0..MaxFaults
  BY FaultType DEF KeysInv
<1>2. ClockType'
  BY DEF KeysInv, ClockType
<1>3. GatewaysType'
  BY <1>1 DEF KeysInv, GatewaysType, Fallbacks
<1>4. ThreadsType'
  BY <1>1 DEF KeysInv, ThreadsType, Threads
<1> QED
  BY <1>2, <1>3, <1>4 DEF GateTypes

LEMMA ProcessType ==
  ASSUME KeysInv, NEW c \in Calls, Process(c)
  PROVE  GateTypes'
<1> DEFINE g == call[c].gw
           code == call[c].code
           t == IF call[c].ok THEN Thread("out", g, "shared") ELSE Over
<1>1. /\ keysSeen' = [keysSeen EXCEPT ![g] =
           IF code \in Reasons THEN KeyNote(g, code)
           ELSE IF code = "no" /\ Mode(c) # "bypass" THEN NoNote ELSE @]
      /\ call' = [call EXCEPT ![c] = t]
      /\ UNCHANGED <<clock, degraded, caughtUp, fallback, owed, asked, faults>>
  BY DEF Process
<1>2. g \in Gateways
  BY DEF KeysInv, ThreadsType
<1> HIDE DEF g, code
<1>3. code \in Reasons => code \in KeyPauses
  BY DEF Reasons
<1>4. "no" \in KeyPauses
  BY DEF KeyPauses
<1>5. keysSeen' \in [Gateways -> [why: KeyPauses, day: 0..MaxDay]]
  <2>1. CASE code \in Reasons
    BY <1>1, <1>2, <1>3, <2>1, NoteTypes DEF KeysInv
  <2>2. CASE code \notin Reasons /\ code = "no" /\ Mode(c) # "bypass"
    BY <1>1, <1>2, <1>4, <2>2, NoteTypes DEF KeysInv
  <2>3. CASE code \notin Reasons /\ ~(code = "no" /\ Mode(c) # "bypass")
    BY <1>1, <1>2, <2>3 DEF KeysInv, GatewaysType
  <2> QED
    BY <2>1, <2>2, <2>3
<1>6. t \in Threads
  BY <1>2, ThreadTypes
<1> HIDE DEF t
<1>7. call' \in [Calls -> Threads]
  BY <1>1, <1>6, ThreadSet DEF KeysInv
<1>8. ClockType' /\ GatewaysType'
  BY <1>1, <1>5 DEF KeysInv, ClockType, GatewaysType
<1>9. ThreadsType'
  BY <1>1, <1>7 DEF KeysInv, ThreadsType, Threads
<1> QED
  BY <1>8, <1>9 DEF GateTypes

LEMMA DecideType ==
  ASSUME KeysInv, NEW c \in Calls, NEW g \in Gateways, Decide(c, g)
  PROVE  GateTypes'
<1> DEFINE k == KeyLocked(fallback[g].key, 0, clock[g])
           hit == IF k.paused # "no" \/ Mode(c) = "bypass" THEN "no" ELSE KeyCap(k)
           why == IF hit = "no" THEN k.paused ELSE hit
           new == [k EXCEPT !.paused = IF hit = "no" THEN @ ELSE hit]
           ok  == new.paused = "no" \/ Mode(c) # "decide"
           more == [new EXCEPT !.inflight = @ + 1]
           after == IF ok THEN more ELSE new
           t == IF ok THEN Thread("out", g, "local") ELSE Over
<1>1. /\ SetLocal(g, k, after) /\ call' = [call EXCEPT ![c] = t]
      /\ UNCHANGED <<clock, degraded, caughtUp, keysSeen, asked, faults>>
  BY DEF Decide
<1>2. k \in KeyState /\ hit \in KeyPauses
  BY LockedEntry, CapsNamePauses DEF KeysInv, KeyPauses
<1> HIDE DEF k, hit
<1>3. new \in KeyState
  BY <1>2 DEF KeyState
<1> HIDE DEF new
<1>4. more \in KeyState
  BY <1>3 DEF KeyState
<1> HIDE DEF more, ok
<1>5. after \in KeyState
  BY <1>3, <1>4
<1>6. t \in Threads
  BY ThreadTypes
<1> HIDE DEF after, t
<1>7. fallback' \in [Gateways -> Fallbacks] /\ owed' \in [Gateways -> Seq(Owed)]
  BY <1>1, <1>5, SetLocalType DEF KeysInv
<1>8. call' \in [Calls -> Threads]
  BY <1>1, <1>6, ThreadSet DEF KeysInv
<1>9. ClockType' /\ GatewaysType'
  BY <1>1, <1>7 DEF KeysInv, ClockType, GatewaysType, Fallbacks
<1>10. ThreadsType'
  BY <1>1, <1>8 DEF KeysInv, ThreadsType, Threads
<1> QED
  BY <1>9, <1>10 DEF GateTypes

LEMMA SettleType ==
  ASSUME KeysInv, StoreSafe', NEW c \in Calls, Settle(c)
  PROVE  GateTypes'
<1> DEFINE g == call[c].gw
<1> PICK kind \in {"r", "l"}, cost \in Costs :
       \/ SettleLocal(c, kind, cost) \/ SettleShared(c, kind, cost)
       \/ \E ran, starts \in BOOLEAN : SettleFails(c, kind, cost, ran, starts)
  BY DEF Settle
<1>1. g \in Gateways /\ Settlement(kind, c, cost) \in Owed /\ cost \in Nat
  BY ItemTypes, KeyedAssumption DEF KeysInv, ThreadsType
<1>2. [call EXCEPT ![c] = Over] \in [Calls -> Threads]
  BY <1>1, ThreadTypes, ThreadSet DEF KeysInv
<1>3. CASE SettleLocal(c, kind, cost)
  <2> DEFINE k == KeyLocked(fallback[g].key, 0, clock[g])
  <2>1. /\ IF kind = "r" THEN SetLocal(g, k, SettleKey(k, cost))
            ELSE /\ fallback' = [fallback EXCEPT ![g].key = Released(@)]
                 /\ UNCHANGED owed
        /\ call' = [call EXCEPT ![c] = Over]
        /\ UNCHANGED <<clock, degraded, caughtUp, keysSeen, asked, faults>>
    BY <1>3 DEF SettleLocal
  <2>2. k \in KeyState /\ fallback[g].key \in KeyState
    BY <1>1, LockedEntry DEF KeysInv
  <2> HIDE DEF k
  <2>3. SettleKey(k, cost) \in KeyState /\ Released(fallback[g].key) \in KeyState
    BY <1>1, <2>2, SettleKeyFields, ReleasedKeyFields
  <2>4. fallback' \in [Gateways -> Fallbacks] /\ owed' \in [Gateways -> Seq(Owed)]
    <3>1. CASE kind = "r"
      BY <1>1, <2>1, <2>3, <3>1, SetLocalType DEF KeysInv
    <3>2. CASE kind # "r"
      <4>1. fallback' = [fallback EXCEPT ![g].key = Released(fallback[g].key)]
        BY <1>1, <2>1, <3>2 DEF KeysInv, GatewaysType
      <4>2. fallback' \in [Gateways -> Fallbacks]
        BY <1>1, <2>3, <4>1, EntrySet DEF KeysInv
      <4> QED
        BY <2>1, <3>2, <4>2 DEF KeysInv, GatewaysType
    <3> QED
      BY <3>1, <3>2
  <2>5. ClockType' /\ GatewaysType'
    BY <2>1, <2>4 DEF KeysInv, ClockType, GatewaysType, Fallbacks
  <2>6. ThreadsType'
    BY <1>2, <2>1 DEF KeysInv, ThreadsType, Threads
  <2> QED
    BY <2>5, <2>6 DEF GateTypes
<1>4. CASE SettleShared(c, kind, cost)
  <2> DEFINE item == Settlement(kind, c, cost)
  <2>1. /\ call' = [call EXCEPT ![c] = Over]
        /\ UNCHANGED <<clock, degraded, caughtUp, fallback, asked, faults>>
        /\ \/ owed' = [owed EXCEPT ![g] = Append(@, item)] /\ UNCHANGED keysSeen
           \/ Noted(g, item) /\ UNCHANGED owed
    BY <1>4 DEF SettleShared
  <2>2. owed' \in [Gateways -> Seq(Owed)]
    <3>1. [owed EXCEPT ![g] = Append(@, item)] \in [Gateways -> Seq(Owed)]
      BY <1>1, OwedMore DEF KeysInv
    <3>2. owed \in [Gateways -> Seq(Owed)]
      BY DEF KeysInv, GatewaysType
    <3> QED
      BY <2>1, <3>1, <3>2
  <2>3. keysSeen' \in [Gateways -> [why: KeyPauses, day: 0..MaxDay]]
    BY <1>1, <2>1, NotedType DEF KeysInv, GatewaysType
  <2>4. ClockType' /\ GatewaysType'
    BY <2>1, <2>2, <2>3 DEF KeysInv, ClockType, GatewaysType
  <2>5. ThreadsType'
    BY <1>2, <2>1 DEF KeysInv, ThreadsType, Threads
  <2> QED
    BY <2>4, <2>5 DEF GateTypes
<1>5. ASSUME NEW ran \in BOOLEAN, NEW starts \in BOOLEAN, SettleFails(c, kind, cost, ran, starts)
      PROVE  GateTypes'
  <2>1. owed' \in [Gateways -> Seq(Owed)]
    BY <1>1, <1>5, OwedMore DEF SettleFails, KeysInv
  <2> QED
    BY <1>1, <1>2, <1>5, <2>1, FaultStep DEF SettleFails
<1> QED
  BY <1>3, <1>4, <1>5

LEMMA DeliverType ==
  ASSUME KeysInv, StoreSafe', NEW g \in Gateways, Deliver(g)
  PROVE  GateTypes'
<1>1. /\ owed[g] # <<>> /\ Noted(g, Head(owed[g])) /\ owed' = [owed EXCEPT ![g] = Tail(@)]
      /\ UNCHANGED <<clock, degraded, caughtUp, fallback, call, asked, faults>>
  BY DEF Deliver
<1>2. owed' \in [Gateways -> Seq(Owed)]
  <2>1. Tail(owed[g]) \in Seq(Owed)
    BY <1>1, HeadOwed DEF KeysInv
  <2> QED
    BY <1>1, <2>1 DEF KeysInv, GatewaysType
<1>3. keysSeen' \in [Gateways -> [why: KeyPauses, day: 0..MaxDay]]
  BY <1>1, NotedType DEF KeysInv
<1>4. ClockType' /\ GatewaysType'
  BY <1>1, <1>2, <1>3 DEF KeysInv, ClockType, GatewaysType
<1>5. ThreadsType'
  BY <1>1 DEF KeysInv, ThreadsType
<1> QED
  BY <1>4, <1>5 DEF GateTypes

LEMMA RecoverType ==
  ASSUME KeysInv, NEW g \in Gateways, CatchUp(g) \/ Recover(g) \/ Status(g) \/ Midnight(g),
         StoreSafe'
  PROVE  GateTypes'
<1>1. ThreadsType'
  BY DEF CatchUp, Recover, Status, Midnight, KeysInv, ThreadsType
<1>2. CASE CatchUp(g)
  BY <1>1, <1>2 DEF CatchUp, KeysInv, ClockType, GatewaysType, GateTypes
<1>3. CASE Recover(g)
  <2>1. FreshFallback(g, FALSE) \in Fallbacks
    BY FreshType DEF KeysInv
  <2> QED
    BY <1>1, <1>3, <2>1 DEF Recover, KeysInv, ClockType, GatewaysType, GateTypes, Fallbacks
<1>4. CASE Status(g)
  <2>1. db'.key.paused \in KeyPauses
    BY DEF StoreSafe, StoreRecord, KeyState
  <2>2. keysSeen' \in [Gateways -> [why: KeyPauses, day: 0..MaxDay]]
    BY <1>4, <2>1, NoteTypes DEF Status, KeysInv
  <2> QED
    BY <1>1, <1>4, <2>2 DEF Status, KeysInv, ClockType, GatewaysType, GateTypes
<1>5. CASE Midnight(g)
  <2>1. ClockType'
    BY <1>5, KeyedAssumption DEF Midnight, KeysInv, ClockType
  <2>2. GatewaysType'
    BY <1>5 DEF Midnight, gatewayVars, KeysInv, GatewaysType
  <2> QED
    BY <1>1, <2>1, <2>2 DEF GateTypes
<1> QED
  BY <1>2, <1>3, <1>4, <1>5

LEMMA ResumeType ==
  ASSUME KeysInv, NEW g \in Gateways, NEW u \in Resumes, Resume(u, g)
  PROVE  GateTypes'
<1>1. /\ asked' = asked \cup {u} /\ keysSeen' = [keysSeen EXCEPT ![g] = NoNote]
      /\ LocalResume(g)
      /\ owed' = [owed EXCEPT ![g] = Append(@, OwedResume)] \/ UNCHANGED owed
      /\ UNCHANGED <<clock, degraded, caughtUp, call, faults>>
  BY DEF Resume
<1>2. fallback' \in [Gateways -> Fallbacks]
  BY <1>1, LocalResumeType DEF KeysInv
<1>3. owed' \in [Gateways -> Seq(Owed)]
  <2>1. [owed EXCEPT ![g] = Append(@, OwedResume)] \in [Gateways -> Seq(Owed)]
    BY ItemTypes, OwedMore DEF KeysInv
  <2>2. owed \in [Gateways -> Seq(Owed)]
    BY DEF KeysInv, GatewaysType
  <2> QED
    BY <1>1, <2>1, <2>2
<1>4. keysSeen' \in [Gateways -> [why: KeyPauses, day: 0..MaxDay]]
  BY <1>1, NoteTypes DEF KeysInv, KeyPauses
<1>5. ClockType' /\ GatewaysType'
  BY <1>1, <1>2, <1>3, <1>4 DEF KeysInv, ClockType, GatewaysType, Fallbacks
<1>6. ThreadsType'
  BY <1>1 DEF KeysInv, ThreadsType
<1> QED
  BY <1>5, <1>6 DEF GateTypes

LEMMA ResumeFailsType ==
  ASSUME KeysInv, NEW g \in Gateways, NEW u \in Resumes, NEW ran \in BOOLEAN,
         NEW starts \in BOOLEAN, ResumeFails(u, g, ran, starts)
  PROVE  GateTypes'
<1>1. /\ asked' = asked \cup {u} /\ keysSeen' = [keysSeen EXCEPT ![g] = NoNote]
      /\ faults < MaxFaults /\ faults' = faults + 1
      /\ owed' = [owed EXCEPT ![g] = Append(@, OwedResume)]
      /\ UNCHANGED <<clock, call>>
  BY DEF ResumeFails
<1>2. degraded' \in [Gateways -> BOOLEAN] /\ caughtUp' \in [Gateways -> BOOLEAN]
  BY DEF ResumeFails, KeysInv, GatewaysType
<1>3. fallback' \in [Gateways -> Fallbacks]
  <2>1. CASE starts
    <3>1. [key |-> NewKey, gap |-> TRUE] \in Fallbacks
      BY NewFields DEF Fallbacks
    <3> QED
      BY <2>1, <3>1 DEF ResumeFails, KeysInv, GatewaysType, Fallbacks
  <2>2. CASE ~starts
    BY <2>2, LocalResumeType DEF ResumeFails, KeysInv
  <2> QED
    BY <2>1, <2>2
<1>4. owed' \in [Gateways -> Seq(Owed)]
  BY <1>1, ItemTypes, OwedMore DEF KeysInv
<1>5. keysSeen' \in [Gateways -> [why: KeyPauses, day: 0..MaxDay]]
  BY <1>1, NoteTypes DEF KeysInv, KeyPauses
<1>6. faults' \in 0..MaxFaults
  BY <1>1, KeyedAssumption DEF KeysInv, ThreadsType
<1>7. ClockType' /\ GatewaysType'
  BY <1>1, <1>2, <1>3, <1>4, <1>5 DEF KeysInv, ClockType, GatewaysType, Fallbacks
<1>8. ThreadsType'
  BY <1>1, <1>6 DEF KeysInv, ThreadsType
<1> QED
  BY <1>7, <1>8 DEF GateTypes

LEMMA FailuresType ==
  ASSUME KeysInv, NEW g \in Gateways, NEW ran \in BOOLEAN, NEW starts \in BOOLEAN,
         \/ \E c \in Calls : AskFails(c, g, ran, starts)
         \/ DeliverFails(g, ran, starts)
  PROVE  GateTypes'
<1>1. owed \in [Gateways -> Seq(Owed)] /\ call \in [Calls -> Threads]
  BY DEF KeysInv, GatewaysType, ThreadsType, Threads
<1>2. ASSUME NEW c \in Calls, AskFails(c, g, ran, starts)
      PROVE  GateTypes'
  <2>1. call' = [call EXCEPT ![c] = Thread("failed", g, "local")]
    BY <1>2 DEF AskFails
  <2>2. call' \in [Calls -> Threads]
    BY <2>1, ThreadTypes, ThreadSet DEF KeysInv
  <2>3. Fault(g, starts) /\ UNCHANGED <<clock, keysSeen, owed, asked>>
    BY <1>2 DEF AskFails
  <2> QED
    BY <1>1, <2>2, <2>3, FaultStep
<1>3. CASE DeliverFails(g, ran, starts)
  <2>1. Fault(g, starts) /\ UNCHANGED <<clock, keysSeen, owed, call, asked>>
    BY <1>3 DEF DeliverFails
  <2> QED
    BY <1>1, <2>1, FaultStep
<1> QED
  BY <1>2, <1>3

-----------------------------------------------------------------------------
(* The caps over all gateways, and who ends a pause of the total cap: what *)
(* each script does to the tallies.                                        *)

CostsBounded == Grain = 1 /\ ~Shadow /\ ReservePerCall > 0 /\ \A cost \in Costs : cost <= ReservePerCall

\* WithinStoreCap of a record: i calls in flight, l calls excused.
Room(spend, i, cap, l) ==
  cap > 0 => spend + ReservePerCall * i < cap + ReservePerCall * (1 + l)

\* Both caps, and that the average cost never passes the reserve floor.
Within(k, l) ==
  /\ Room(k.lifeSpend, k.inflight, MaxSpendPerKey, l)
  /\ Room(k.daySpend, k.inflight, MaxSpendPerKeyDay, l)
  /\ k.lifeSpend <= ReservePerCall * k.lifeCalls

\* A step that tallies nothing.
Eases(k, new) ==
  /\ new.lifeSpend = k.lifeSpend /\ new.lifeCalls = k.lifeCalls
  /\ new.daySpend <= k.daySpend /\ new.inflight <= k.inflight

\* A step that neither cuts the total tally nor ends a pause of its cap.
Steady(h, new) ==
  /\ h.key.paused = "total" => new.key.paused = "total"
  /\ new.key.lifeSpend >= h.key.lifeSpend

LEMMA KeyFields ==
  ASSUME NEW k \in KeyState
  PROVE  /\ k.day \in Nat /\ k.dayCalls \in Nat /\ k.daySpend \in Nat /\ k.lifeCalls \in Nat
         /\ k.lifeSpend \in Nat /\ k.inflight \in Nat /\ k.paused \in KeyPauses
BY DEF KeyState

LEMMA RoomForm ==
  ASSUME NEW s \in Nat, NEW i \in Nat, NEW cap \in Nat, NEW l \in Nat
  PROVE  Room(s, i, cap, l) <=>
           (cap > 0 => s + ReservePerCall * i < cap + ReservePerCall + ReservePerCall * l)
<1>1. ReservePerCall \in Nat /\ 1 + l = l + 1
  BY PolicyAssumption
<1>2. ReservePerCall * (1 + l) = ReservePerCall * l + ReservePerCall /\ ReservePerCall * l \in Nat
  BY <1>1, Product
<1>3. cap + ReservePerCall * (1 + l) = cap + ReservePerCall + ReservePerCall * l
  BY <1>1, <1>2
<1> QED
  BY <1>3 DEF Room

LEMMA RoomLess ==
  ASSUME NEW s \in Nat, NEW i \in Nat, NEW cap \in Nat, NEW l \in Nat, Room(s, i, cap, l),
         NEW s2 \in Nat, NEW i2 \in Nat, NEW l2 \in Nat, s2 <= s, i2 <= i, l <= l2
  PROVE  Room(s2, i2, cap, l2)
<1>1. /\ ReservePerCall \in Nat /\ ReservePerCall * i \in Nat /\ ReservePerCall * i2 \in Nat
      /\ ReservePerCall * l \in Nat /\ ReservePerCall * l2 \in Nat
      /\ ReservePerCall * i2 <= ReservePerCall * i /\ ReservePerCall * l <= ReservePerCall * l2
  BY PolicyAssumption, Product, ProductMonotone
<1>2. cap > 0 => s + ReservePerCall * i < cap + ReservePerCall + ReservePerCall * l
  BY RoomForm
<1>3. cap > 0 => s2 + ReservePerCall * i2 < cap + ReservePerCall + ReservePerCall * l2
  BY <1>1, <1>2
<1> QED
  BY <1>3, RoomForm

\* A call admitted without a question is excused.
LEMMA RoomForced ==
  ASSUME NEW s \in Nat, NEW i \in Nat, NEW cap \in Nat, NEW l \in Nat, Room(s, i, cap, l)
  PROVE  Room(s, i + 1, cap, l + 1)
<1>1. /\ ReservePerCall \in Nat /\ ReservePerCall * i \in Nat /\ ReservePerCall * l \in Nat
      /\ ReservePerCall * (i + 1) = ReservePerCall * i + ReservePerCall
      /\ ReservePerCall * (l + 1) = ReservePerCall * l + ReservePerCall
  BY PolicyAssumption, Product
<1>2. i + 1 \in Nat /\ l + 1 \in Nat
  OBVIOUS
<1>3. cap > 0 => s + ReservePerCall * i < cap + ReservePerCall + ReservePerCall * l
  BY RoomForm
<1>4. cap > 0 => s + ReservePerCall * (i + 1) < cap + ReservePerCall + ReservePerCall * (l + 1)
  BY <1>1, <1>3
<1> QED
  BY <1>2, <1>4, RoomForm

\* A call admitted below the cap takes the room there was.
LEMMA RoomAdmit ==
  ASSUME NEW s \in Nat, NEW i \in Nat, NEW cap \in Nat, NEW l \in Nat,
         cap > 0 => s + ReservePerCall * i < cap
  PROVE  Room(s, i + 1, cap, l)
<1>1. /\ ReservePerCall \in Nat /\ ReservePerCall * i \in Nat /\ ReservePerCall * l \in Nat
      /\ ReservePerCall * (i + 1) = ReservePerCall * i + ReservePerCall
  BY PolicyAssumption, Product
<1>2. i + 1 \in Nat
  OBVIOUS
<1>3. cap > 0 => s + ReservePerCall * (i + 1) < cap + ReservePerCall + ReservePerCall * l
  BY <1>1
<1> QED
  BY <1>2, <1>3, RoomForm

\* A settlement returns what it spends, or is excused.
LEMMA RoomSettle ==
  ASSUME NEW s \in Nat, NEW i \in Nat, NEW cap \in Nat, NEW l \in Nat, Room(s, i, cap, l),
         NEW cost \in Nat, cost <= ReservePerCall
  PROVE  Room(s + cost, Dec(i), cap, l + IF i = 0 THEN 1 ELSE 0)
<1>1. ReservePerCall \in Nat /\ ReservePerCall * i \in Nat /\ ReservePerCall * l \in Nat
  BY PolicyAssumption, Product
<1>2. s + cost \in Nat
  OBVIOUS
<1>3. cap > 0 => s + ReservePerCall * i < cap + ReservePerCall + ReservePerCall * l
  BY RoomForm
<1>4. CASE i = 0
  <2>1. Dec(i) = i /\ l + 1 \in Nat /\ ReservePerCall * (l + 1) = ReservePerCall * l + ReservePerCall
    BY <1>1, <1>4, Product DEF Dec
  <2>2. cap > 0 => (s + cost) + ReservePerCall * i < cap + ReservePerCall + ReservePerCall * (l + 1)
    BY <1>1, <1>3, <2>1
  <2>3. Room(s + cost, i, cap, l + 1)
    BY <1>2, <2>1, <2>2, RoomForm
  <2> QED
    BY <1>4, <2>1, <2>3
<1>5. CASE i > 0
  <2>1. Dec(i) = i - 1 /\ i - 1 \in Nat /\ (l + IF i = 0 THEN 1 ELSE 0) = l
    BY <1>5 DEF Dec
  <2>2. ReservePerCall * i = ReservePerCall * (i - 1) + ReservePerCall /\ ReservePerCall * (i - 1) \in Nat
    <3>1. /\ ReservePerCall * ((i - 1) + 1) = ReservePerCall * (i - 1) + ReservePerCall
          /\ ReservePerCall * (i - 1) \in Nat
      BY <1>1, <2>1, Product
    <3> QED
      BY <3>1
  <2>3. cap > 0 => (s + cost) + ReservePerCall * (i - 1) < cap + ReservePerCall + ReservePerCall * l
    BY <1>1, <1>3, <2>2
  <2>4. Room(s + cost, i - 1, cap, l)
    BY <1>2, <2>1, <2>3, RoomForm
  <2> QED
    BY <2>1, <2>4
<1> QED
  BY <1>4, <1>5

LEMMA EasesWithin ==
  ASSUME NEW k \in KeyState, NEW new \in KeyState, NEW l \in Nat, NEW l2 \in Nat,
         Eases(k, new), Within(k, l), l <= l2
  PROVE  Within(new, l2)
<1>1. /\ new.lifeSpend = k.lifeSpend /\ new.lifeCalls = k.lifeCalls
      /\ new.daySpend <= k.daySpend /\ new.inflight <= k.inflight
      /\ k.lifeSpend <= ReservePerCall * k.lifeCalls
  BY DEF Eases, Within
<1>2. Room(k.lifeSpend, k.inflight, MaxSpendPerKey, l)
  BY DEF Within
<1>3. Room(k.daySpend, k.inflight, MaxSpendPerKeyDay, l)
  BY DEF Within
<1>4. /\ k.lifeSpend \in Nat /\ k.daySpend \in Nat /\ k.inflight \in Nat
      /\ new.lifeSpend \in Nat /\ new.daySpend \in Nat /\ new.inflight \in Nat
      /\ MaxSpendPerKey \in Nat /\ MaxSpendPerKeyDay \in Nat /\ new.lifeSpend <= k.lifeSpend
  BY <1>1, KeyFields, PolicyAssumption
<1>5. Room(new.lifeSpend, new.inflight, MaxSpendPerKey, l2)
  BY <1>1, <1>2, <1>4, RoomLess
<1>6. Room(new.daySpend, new.inflight, MaxSpendPerKeyDay, l2)
  BY <1>1, <1>3, <1>4, RoomLess
<1> QED
  BY <1>1, <1>5, <1>6 DEF Within

LEMMA NewDayTallies ==
  ASSUME NEW h \in StoreRecord, NEW d \in Nat
  PROVE  LET now == NewDay(h, d)
         IN  /\ now.key \in KeyState /\ Eases(h.key, now.key) /\ Steady(h, now)
             /\ h.key.paused # "day" => now.key.paused = h.key.paused
<1> DEFINE rolled == KeyNewDay(h.key, d)
           listed == h.listed /\ h.key.paused # "day"
           new    == [h EXCEPT !.key = rolled, !.listed = listed]
<1>1. h.key \in KeyState /\ h.listed \in BOOLEAN /\ h.key.day \in Nat /\ h.key.paused \in KeyPauses
  BY RecordFields
<1>2. NewDay(h, d) = IF d <= h.key.day THEN h ELSE new
  BY DEF NewDay
<1>3. /\ rolled \in KeyState /\ rolled.lifeSpend = h.key.lifeSpend /\ rolled.lifeCalls = h.key.lifeCalls
      /\ rolled.daySpend = 0 /\ rolled.inflight = 0
      /\ rolled.paused = IF h.key.paused = "day" THEN "no" ELSE h.key.paused
  BY <1>1 DEF KeyNewDay, KeyState, KeyPauses
<1> HIDE DEF rolled, listed
<1>4. new.key = rolled
  BY DEF StoreRecord
<1> HIDE DEF new
<1>5. /\ h.key.lifeSpend \in Nat /\ h.key.daySpend \in Nat /\ h.key.inflight \in Nat
  BY <1>1, KeyFields
<1>6. CASE d <= h.key.day
  BY <1>1, <1>2, <1>5, <1>6 DEF Eases, Steady
<1>7. CASE ~(d <= h.key.day)
  BY <1>1, <1>2, <1>3, <1>4, <1>5, <1>7 DEF Eases, Steady
<1> QED
  BY <1>6, <1>7

\* At a grain of one, a comparison of the store is one of amounts, and with the
\* average at or below the floor it reserves the floor for each call.
LEMMA MicroOne ==
  ASSUME Grain = 1, NEW v \in Nat
  PROVE  Micro(v) = v
BY DEF Micro

LEMMA BelowCaps ==
  ASSUME CostsBounded, NEW k \in KeyState, StoreKeyCap(k) = "no",
         k.lifeSpend <= ReservePerCall * k.lifeCalls
  PROVE  /\ MaxSpendPerKey > 0 => k.lifeSpend + ReservePerCall * k.inflight < MaxSpendPerKey
         /\ MaxSpendPerKeyDay > 0 => k.daySpend + ReservePerCall * k.inflight < MaxSpendPerKeyDay
<1>1. /\ k.lifeSpend \in Nat /\ k.daySpend \in Nat /\ k.inflight \in Nat
      /\ ReservePerCall \in Nat /\ MaxSpendPerKey \in Nat /\ MaxSpendPerKeyDay \in Nat
      /\ ReservePerCall * k.inflight \in Nat
  BY KeyFields, PolicyAssumption, Product
<1>2. /\ Micro(ReservePerCall) = ReservePerCall /\ Micro(MaxSpendPerKey) = MaxSpendPerKey
      /\ Micro(MaxSpendPerKeyDay) = MaxSpendPerKeyDay
  BY <1>1, MicroOne DEF CostsBounded
<1>3. ~(k.lifeSpend > ReservePerCall * k.lifeCalls)
  <2>1. ReservePerCall * k.lifeCalls \in Nat
    BY <1>1, KeyFields, Product
  <2> QED
    BY <1>1, <2>1
<1>4. \A base, cap : StoreProjection(base, k, cap) <=>
                       cap > 0 /\ base + ReservePerCall * k.inflight >= cap
  BY <1>2, <1>3 DEF StoreProjection
<1>5. ~StoreProjection(k.lifeSpend, k, MaxSpendPerKey) /\ ~StoreProjection(k.daySpend, k, MaxSpendPerKeyDay)
  BY <1>2 DEF StoreKeyCap
<1> QED
  BY <1>1, <1>4, <1>5

\* luaAdmit: an answer that was given before, a refusal, or one more call that
\* is out; a call that is decided got in because the caps left room.
LEMMA AdmitTallies ==
  ASSUME NEW h \in StoreRecord, NEW c \in Calls, NEW mode \in {"decide", "bypass", "shadow"},
         NEW d \in Nat
  PROVE  LET r   == AdmitScript(h, c, mode, d)
             now == NewDay(h, d).key
             new == r.db.key
         IN  \/ /\ r.db = h
                /\ \/ h.admits[c] = "served" /\ r.ok
                   \/ h.admits[c] # "served" /\ ~r.ok
             \/ /\ new.lifeSpend = now.lifeSpend /\ new.lifeCalls = now.lifeCalls
                /\ new.daySpend = now.daySpend
                /\ now.paused # "no" => new.paused = now.paused
                /\ \/ ~r.ok /\ mode = "decide" /\ new.inflight = now.inflight
                   \/ /\ r.ok /\ new.inflight = now.inflight + 1 /\ r.db.admits[c] = "served"
                      /\ mode = "decide" => StoreKeyCap(now) = "no"
<1> DEFINE now == NewDay(h, d)
           was == now.key.paused
           hit == IF was # "no" \/ mode = "bypass" THEN "no" ELSE StoreKeyCap(now.key)
           why == IF was # "no" THEN was ELSE hit
           ok == why = "no" \/ mode # "decide"
           listed == now.listed \/ hit # "no"
           k == [now.key EXCEPT !.paused = why]
           one == [k EXCEPT !.inflight = @ + 1]
           hitIn == [now EXCEPT !.key.paused = why, !.listed = listed]
           served == [hitIn EXCEPT !.key.inflight = @ + 1, !.admits[c] = "served"]
           stopped == [hitIn EXCEPT !.admits[c] = IF hit = "no" THEN @ ELSE hit]
           r == AdmitScript(h, c, mode, d)
<1>1. r = CASE h.admits[c] = "served"  -> [db |-> h, ok |-> TRUE, code |-> "dup"]
            [] h.admits[c] \in Reasons -> [db |-> h, ok |-> FALSE, code |-> h.admits[c]]
            [] h.admits[c] = "none" /\ ok ->
                 [db |-> served, ok |-> TRUE, code |-> IF mode = "bypass" THEN "no" ELSE why]
            [] OTHER -> [db |-> stopped, ok |-> FALSE, code |-> why]
  BY DEF AdmitScript
<1>2. /\ now \in StoreRecord /\ now.key \in KeyState
      /\ was \in KeyPauses /\ hit \in KeyPauses /\ why \in KeyPauses
  BY NewDayFacts, RecordFields, CapNames DEF Kept, KeyPauses
<1>3. /\ was # "no" => why = was
      /\ why = "no" /\ mode = "decide" => StoreKeyCap(now.key) = "no"
      /\ was = now.key.paused
      /\ ok <=> (why = "no" \/ mode # "decide")
  OBVIOUS
<1> SUFFICES \/ /\ r.db = h
                /\ \/ h.admits[c] = "served" /\ r.ok
                   \/ h.admits[c] # "served" /\ ~r.ok
             \/ /\ r.db.key.lifeSpend = now.key.lifeSpend /\ r.db.key.lifeCalls = now.key.lifeCalls
                /\ r.db.key.daySpend = now.key.daySpend
                /\ was # "no" => r.db.key.paused = was
                /\ \/ ~r.ok /\ mode = "decide" /\ r.db.key.inflight = now.key.inflight
                   \/ /\ r.ok /\ r.db.key.inflight = now.key.inflight + 1
                      /\ r.db.admits[c] = "served"
                      /\ mode = "decide" => StoreKeyCap(now.key) = "no"
  BY DEF r, now, was
<1> HIDE DEF now, was, hit, why, ok, listed, r
<1>4. /\ k.lifeSpend = now.key.lifeSpend /\ k.lifeCalls = now.key.lifeCalls
      /\ k.daySpend = now.key.daySpend /\ k.inflight = now.key.inflight /\ k.paused = why
      /\ one.lifeSpend = now.key.lifeSpend /\ one.lifeCalls = now.key.lifeCalls
      /\ one.daySpend = now.key.daySpend /\ one.inflight = now.key.inflight + 1 /\ one.paused = why
  BY <1>2 DEF KeyState
<1>5. hitIn.key = k /\ hitIn.admits = now.admits
  BY <1>2 DEF StoreRecord
<1>6. /\ served.key = one /\ stopped.key = k
      /\ served.admits[c] = "served"
  BY <1>2, <1>5, RecordFields DEF StoreRecord
<1> HIDE DEF k, one, hitIn, served, stopped
<1>7. CASE h.admits[c] = "served"
  BY <1>1, <1>7 DEF Reasons, KeyPauses
<1>8. CASE h.admits[c] \in Reasons
  <2>1. h.admits[c] # "served" /\ h.admits[c] # "none"
    BY <1>8 DEF Reasons, KeyPauses
  <2>2. r = [db |-> h, ok |-> FALSE, code |-> h.admits[c]]
    BY <1>1, <1>8, <2>1
  <2> QED
    BY <2>1, <2>2
<1>9. CASE h.admits[c] = "none"
  <2>1. h.admits[c] # "served" /\ h.admits[c] \notin Reasons
    BY <1>9 DEF Reasons, KeyPauses
  <2>2. CASE ok
    <3>1. r.db = served /\ r.ok
      BY <1>1, <1>9, <2>1, <2>2
    <3> QED
      BY <1>3, <1>4, <1>6, <2>2, <3>1
  <2>3. CASE ~ok
    <3>1. r.db = stopped /\ ~r.ok
      BY <1>1, <1>9, <2>1, <2>3
    <3>2. mode = "decide"
      BY <1>3, <2>3
    <3> QED
      BY <1>3, <1>4, <1>6, <3>1, <3>2
  <2> QED
    BY <2>2, <2>3
<1> QED
  BY <1>7, <1>8, <1>9, RecordFields

LEMMA AdmitSteady ==
  ASSUME NEW h \in StoreRecord, NEW c \in Calls, NEW mode \in {"decide", "bypass", "shadow"},
         NEW d \in Nat
  PROVE  Steady(h, AdmitScript(h, c, mode, d).db)
<1> DEFINE r == AdmitScript(h, c, mode, d)
           now == NewDay(h, d).key
<1>1. \/ r.db = h
      \/ r.db.key.lifeSpend = now.lifeSpend /\ (now.paused # "no" => r.db.key.paused = now.paused)
  BY AdmitTallies
<1>2. /\ now.lifeSpend = h.key.lifeSpend /\ h.key.lifeSpend \in Nat
      /\ h.key.paused # "day" => now.paused = h.key.paused
  BY NewDayTallies, RecordFields, KeyFields DEF Eases
<1> HIDE DEF r, now
<1>3. Steady(h, r.db)
  BY <1>1, <1>2 DEF Steady
<1> QED
  BY <1>3 DEF r

LEMMA AdmitWithin ==
  ASSUME CostsBounded, NEW h \in StoreRecord, NEW c \in Calls, NEW mode \in {"decide", "bypass"},
         NEW d \in Nat, NEW l \in Nat, Within(h.key, l)
  PROVE  LET r == AdmitScript(h, c, mode, d)
         IN  Within(r.db.key, l + IF r.ok /\ mode = "bypass" THEN 1 ELSE 0)
<1> DEFINE r == AdmitScript(h, c, mode, d)
           now == NewDay(h, d).key
           new == r.db.key
           more == l + IF r.ok /\ mode = "bypass" THEN 1 ELSE 0
<1>1. now \in KeyState /\ Eases(h.key, now) /\ h.key \in KeyState
  BY NewDayTallies, RecordFields
<1>2. \/ r.db = h
      \/ /\ new.lifeSpend = now.lifeSpend /\ new.lifeCalls = now.lifeCalls
         /\ new.daySpend = now.daySpend
         /\ \/ ~r.ok /\ new.inflight = now.inflight
            \/ /\ r.ok /\ new.inflight = now.inflight + 1
               /\ mode = "decide" => StoreKeyCap(now) = "no"
  BY AdmitTallies
<1>3. new \in KeyState
  BY AdmitFacts, RecordFields DEF Kept
<1>4. more \in Nat /\ l <= more /\ (r.ok /\ mode = "bypass" => more = l + 1)
  OBVIOUS
<1>5. r.db = h => new = h.key
  OBVIOUS
<1> SUFFICES Within(new, more)
  BY DEF new, more, r
<1> HIDE DEF r, now, new, more
<1>6. CASE r.db = h
  BY <1>1, <1>4, <1>5, <1>6, EasesWithin, KeyFields DEF Eases
<1>7. Within(now, l)
  BY <1>1, EasesWithin
<1>8. /\ Room(now.lifeSpend, now.inflight, MaxSpendPerKey, l)
      /\ Room(now.daySpend, now.inflight, MaxSpendPerKeyDay, l)
      /\ now.lifeSpend <= ReservePerCall * now.lifeCalls
      /\ now.lifeSpend \in Nat /\ now.daySpend \in Nat /\ now.inflight \in Nat
      /\ MaxSpendPerKey \in Nat /\ MaxSpendPerKeyDay \in Nat
  BY <1>1, <1>7, KeyFields, PolicyAssumption DEF Within
<1>9. ASSUME new.lifeSpend = now.lifeSpend, new.lifeCalls = now.lifeCalls,
             new.daySpend = now.daySpend, r.ok, new.inflight = now.inflight + 1,
             mode = "decide" => StoreKeyCap(now) = "no"
      PROVE  Within(new, more)
  <2>1. CASE mode = "bypass"
    <3>1. /\ Room(now.lifeSpend, now.inflight + 1, MaxSpendPerKey, l + 1)
          /\ Room(now.daySpend, now.inflight + 1, MaxSpendPerKeyDay, l + 1)
      BY <1>8, RoomForced
    <3> QED
      BY <1>4, <1>8, <1>9, <2>1, <3>1 DEF Within
  <2>2. CASE mode = "decide"
    <3>1. /\ MaxSpendPerKey > 0 => now.lifeSpend + ReservePerCall * now.inflight < MaxSpendPerKey
          /\ MaxSpendPerKeyDay > 0 => now.daySpend + ReservePerCall * now.inflight < MaxSpendPerKeyDay
      BY <1>1, <1>8, <1>9, <2>2, BelowCaps
    <3>2. /\ Room(now.lifeSpend, now.inflight + 1, MaxSpendPerKey, more)
          /\ Room(now.daySpend, now.inflight + 1, MaxSpendPerKeyDay, more)
      BY <1>4, <1>8, <3>1, RoomAdmit
    <3> QED
      BY <1>8, <1>9, <3>2 DEF Within
  <2> QED
    BY <2>1, <2>2
<1>10. ASSUME new.lifeSpend = now.lifeSpend, new.lifeCalls = now.lifeCalls,
              new.daySpend = now.daySpend, new.inflight = now.inflight
       PROVE  Within(new, more)
  BY <1>1, <1>3, <1>4, <1>7, <1>8, <1>10, EasesWithin DEF Eases
<1> QED
  BY <1>2, <1>6, <1>9, <1>10

\* A bypass is answered the same if its command is sent again.
LEMMA BypassAgain ==
  ASSUME NEW h \in StoreRecord, NEW c \in Calls, NEW d \in Nat
  PROVE  LET first == AdmitScript(h, c, "bypass", d)
             second == AdmitScript(first.db, c, "bypass", d)
         IN  second.db = first.db /\ second.ok = first.ok
<1> DEFINE first == AdmitScript(h, c, "bypass", d)
           second == AdmitScript(first.db, c, "bypass", d)
<1>1. \/ first.ok /\ first.db.admits[c] = "served"
      \/ ~first.ok /\ first.db = h /\ h.admits[c] # "served"
  BY AdmitTallies
<1>2. first.db \in StoreRecord /\ first.ok \in BOOLEAN
  BY AdmitFacts DEF Kept
<1>3. CASE first.ok /\ first.db.admits[c] = "served"
  <2>1. second = [db |-> first.db, ok |-> TRUE, code |-> "dup"]
    BY <1>3 DEF AdmitScript, Reasons, KeyPauses
  <2> HIDE DEF first, second
  <2>2. second.db = first.db /\ second.ok = first.ok
    BY <1>2, <1>3, <2>1
  <2> QED
    BY <2>2 DEF first, second
<1>4. CASE ~first.ok /\ first.db = h
  <2>1. second = first
    BY <1>4
  <2> QED
    BY <1>4, <2>1
<1> QED
  BY <1>1, <1>3, <1>4

\* luaRecord: a call that is settled already changes nothing; any other is
\* tallied after the day, and returns its reservation.
LEMMA RecordTallies ==
  ASSUME NEW h \in StoreRecord, NEW c \in Calls, NEW cost \in Nat, NEW d \in Nat
  PROVE  LET after == RecordScript(h, c, cost, d)
             now == NewDay(h, d).key
             new == after.key
         IN  \/ after = h
             \/ /\ after # h
                /\ new.lifeSpend = now.lifeSpend + Micro(cost) /\ new.lifeCalls = now.lifeCalls + 1
                /\ new.daySpend = now.daySpend + Micro(cost) /\ new.inflight = Dec(now.inflight)
                /\ now.paused # "no" => new.paused = now.paused
<1> DEFINE now == NewDay(h, d)
           k == [now.key EXCEPT !.inflight = Dec(@), !.dayCalls = @ + 1, !.lifeCalls = @ + 1,
                                !.daySpend = @ + Micro(cost), !.lifeSpend = @ + Micro(cost)]
           hit == IF k.paused # "no" THEN "no" ELSE SettledCap(k)
           k2 == IF hit = "no" THEN k ELSE [k EXCEPT !.paused = hit]
           listed == now.listed \/ hit # "no"
           settled == now.settled \cup {c}
           done == [now EXCEPT !.key = k2, !.listed = listed, !.settled = settled]
<1>1. RecordScript(h, c, cost, d) = IF c \in h.settled THEN h ELSE done
  BY DEF RecordScript
<1>2. now \in StoreRecord /\ now.key \in KeyState /\ now.settled = h.settled
  BY NewDayFacts, RecordFields DEF Kept
<1> SUFFICES \/ RecordScript(h, c, cost, d) = h
             \/ /\ RecordScript(h, c, cost, d) = done /\ done # h
                /\ done.key.lifeSpend = now.key.lifeSpend + Micro(cost)
                /\ done.key.lifeCalls = now.key.lifeCalls + 1
                /\ done.key.daySpend = now.key.daySpend + Micro(cost)
                /\ done.key.inflight = Dec(now.key.inflight)
                /\ now.key.paused # "no" => done.key.paused = now.key.paused
  BY DEF now
<1> HIDE DEF now
<1>3. /\ k.lifeSpend = now.key.lifeSpend + Micro(cost) /\ k.lifeCalls = now.key.lifeCalls + 1
      /\ k.daySpend = now.key.daySpend + Micro(cost) /\ k.inflight = Dec(now.key.inflight)
      /\ k.paused = now.key.paused
      /\ DOMAIN k = DOMAIN now.key
  BY <1>2 DEF KeyState
<1>4. k.paused # "no" => hit = "no"
  OBVIOUS
<1>5. /\ k2.lifeSpend = k.lifeSpend /\ k2.lifeCalls = k.lifeCalls /\ k2.daySpend = k.daySpend
      /\ k2.inflight = k.inflight /\ (hit = "no" => k2.paused = k.paused)
  OBVIOUS
<1> HIDE DEF k, hit, k2, listed
<1>6. done.key = k2 /\ done.settled = settled
  BY <1>2 DEF StoreRecord
<1>7. c \notin h.settled => done # h
  BY <1>2, <1>6
<1> HIDE DEF done
<1> QED
  BY <1>1, <1>3, <1>4, <1>5, <1>6, <1>7

LEMMA RecordSteady ==
  ASSUME NEW h \in StoreRecord, NEW c \in Calls, NEW cost \in Nat, NEW d \in Nat
  PROVE  Steady(h, RecordScript(h, c, cost, d))
<1> DEFINE new == RecordScript(h, c, cost, d)
           now == NewDay(h, d).key
<1>1. \/ new = h
      \/ /\ new.key.lifeSpend = now.lifeSpend + Micro(cost)
         /\ now.paused # "no" => new.key.paused = now.paused
  BY RecordTallies
<1>2. /\ now.lifeSpend = h.key.lifeSpend /\ h.key.lifeSpend \in Nat
      /\ h.key.paused # "day" => now.paused = h.key.paused
  BY NewDayTallies, RecordFields, KeyFields DEF Eases
<1>3. Micro(cost) \in Nat
  BY MicroType
<1> HIDE DEF new, now
<1>4. Steady(h, new)
  BY <1>1, <1>2, <1>3 DEF Steady
<1> QED
  BY <1>4 DEF new

LEMMA RecordWithin ==
  ASSUME CostsBounded, NEW h \in StoreRecord, NEW c \in Calls, NEW cost \in Nat,
         cost <= ReservePerCall, NEW d \in Nat, NEW l \in Nat, Within(h.key, l)
  PROVE  LET new == RecordScript(h, c, cost, d)
         IN  Within(new.key, l + IF new # h /\ NewDay(h, d).key.inflight = 0 THEN 1 ELSE 0)
<1> DEFINE after == RecordScript(h, c, cost, d)
           new == after.key
           now == NewDay(h, d).key
           more == l + IF after # h /\ now.inflight = 0 THEN 1 ELSE 0
<1>1. now \in KeyState /\ Eases(h.key, now) /\ h.key \in KeyState
  BY NewDayTallies, RecordFields
<1>2. \/ after = h
      \/ /\ after # h
         /\ new.lifeSpend = now.lifeSpend + Micro(cost) /\ new.lifeCalls = now.lifeCalls + 1
         /\ new.daySpend = now.daySpend + Micro(cost) /\ new.inflight = Dec(now.inflight)
  BY RecordTallies
<1>3. Micro(cost) = cost
  BY MicroOne DEF CostsBounded
<1>4. /\ after = h => more = l /\ new = h.key
      /\ after # h => more = l + IF now.inflight = 0 THEN 1 ELSE 0
  OBVIOUS
<1> SUFFICES Within(new, more)
  BY DEF new, more, after, now
<1> HIDE DEF after, new, now, more
<1>5. CASE after = h
  BY <1>4, <1>5
<1>6. CASE after # h
  <2>1. Within(now, l)
    BY <1>1, EasesWithin
  <2>2. /\ Room(now.lifeSpend, now.inflight, MaxSpendPerKey, l)
        /\ Room(now.daySpend, now.inflight, MaxSpendPerKeyDay, l)
        /\ now.lifeSpend <= ReservePerCall * now.lifeCalls
        /\ now.lifeSpend \in Nat /\ now.daySpend \in Nat /\ now.inflight \in Nat
        /\ now.lifeCalls \in Nat
        /\ MaxSpendPerKey \in Nat /\ MaxSpendPerKeyDay \in Nat
    BY <1>1, <2>1, KeyFields, PolicyAssumption DEF Within
  <2>3. /\ Room(now.lifeSpend + cost, Dec(now.inflight), MaxSpendPerKey, more)
        /\ Room(now.daySpend + cost, Dec(now.inflight), MaxSpendPerKeyDay, more)
    BY <1>4, <1>6, <2>2, RoomSettle
  <2>4. now.lifeSpend + cost <= ReservePerCall * (now.lifeCalls + 1)
    <3>1. /\ ReservePerCall * (now.lifeCalls + 1) = ReservePerCall * now.lifeCalls + ReservePerCall
          /\ ReservePerCall * now.lifeCalls \in Nat /\ ReservePerCall \in Nat
      BY <2>2, Product, PolicyAssumption
    <3> QED
      BY <2>2, <3>1
  <2> QED
    BY <1>2, <1>3, <1>6, <2>3, <2>4 DEF Within
<1> QED
  BY <1>5, <1>6

LEMMA ReleaseTallies ==
  ASSUME NEW h \in StoreRecord, NEW c \in Calls
  PROVE  LET new == ReleaseScript(h, c)
         IN  Eases(h.key, new.key) /\ Steady(h, new)
<1> DEFINE k == [h.key EXCEPT !.inflight = Dec(@)]
           done == Counted(h, k, h.settled \cup {c}, h.admits)
<1>1. h.key \in KeyState /\ h.key.lifeSpend \in Nat /\ h.key.daySpend \in Nat /\ h.key.inflight \in Nat
  BY RecordFields, KeyFields
<1>2. /\ k \in KeyState /\ k.day = h.key.day /\ k.paused = h.key.paused
      /\ k.lifeSpend = h.key.lifeSpend /\ k.lifeCalls = h.key.lifeCalls
      /\ k.daySpend = h.key.daySpend /\ k.inflight = Dec(h.key.inflight)
  BY <1>1, DecType DEF KeyState
<1>3. ReleaseScript(h, c) = IF c \in h.settled THEN h ELSE done
  BY RecordFields DEF ReleaseScript, Counted, StoreRecord
<1> HIDE DEF k
<1>4. done.key = k
  BY <1>2, RecordFields, CountedFacts
<1>5. Dec(h.key.inflight) <= h.key.inflight
  BY <1>1, DecType
<1> HIDE DEF done
<1> QED
  BY <1>1, <1>2, <1>3, <1>4, <1>5 DEF Eases, Steady

LEMMA PauseTallies ==
  ASSUME NEW h \in StoreRecord, NEW why \in Reasons, NEW on \in Nat
  PROVE  LET new == PauseScript(h, why, on)
         IN  /\ Eases(h.key, new.key)
             /\ new.key.paused \in {h.key.paused, why}
<1> DEFINE rolled == [h.key EXCEPT !.day = on, !.dayCalls = 0, !.daySpend = 0, !.inflight = 0]
           k == IF why = "day" /\ on > h.key.day THEN rolled ELSE h.key
           k2 == [k EXCEPT !.paused = why]
           done == [h EXCEPT !.key = k2, !.listed = TRUE]
<1>1. h.key \in KeyState /\ h.key.lifeSpend \in Nat /\ h.key.daySpend \in Nat /\ h.key.inflight \in Nat
  BY RecordFields, KeyFields
<1>2. /\ rolled \in KeyState /\ rolled.lifeSpend = h.key.lifeSpend
      /\ rolled.lifeCalls = h.key.lifeCalls /\ rolled.daySpend = 0 /\ rolled.inflight = 0
  BY <1>1 DEF KeyState
<1>3. PauseScript(h, why, on) = IF why = "day" /\ on < h.key.day THEN h ELSE done
  BY DEF PauseScript
<1> HIDE DEF rolled
<1>4. /\ k \in KeyState /\ k.lifeSpend = h.key.lifeSpend /\ k.lifeCalls = h.key.lifeCalls
      /\ k.daySpend <= h.key.daySpend /\ k.inflight <= h.key.inflight
  BY <1>1, <1>2
<1> HIDE DEF k
<1>5. /\ k2.lifeSpend = k.lifeSpend /\ k2.lifeCalls = k.lifeCalls /\ k2.daySpend = k.daySpend
      /\ k2.inflight = k.inflight /\ k2.paused = why
  BY <1>4 DEF KeyState
<1> HIDE DEF k2
<1>6. done.key = k2
  BY DEF StoreRecord
<1>7. why \in {"day", "total"}
  BY DEF Reasons, KeyPauses
<1> HIDE DEF done
<1> QED
  BY <1>1, <1>4, <1>3, <1>5, <1>6, <1>7 DEF Eases

LEMMA PauseDays ==
  ASSUME NEW item \in Owed, item.kind = "P"
  PROVE  item.why \in {"day", "total"} /\ item.onDay \in 1..MaxDay
<1>1. item \in [kind: {"P"}, why: Reasons, onDay: 1..MaxDay]
  BY DEF Owed
<1> QED
  BY <1>1 DEF Reasons, KeyPauses

LEMMA ResumeTallies ==
  ASSUME NEW h \in StoreRecord
  PROVE  LET new == ResumeScript(h)
         IN  /\ h.key.paused = "total" =>
                  /\ new.key.lifeSpend = 0 /\ new.key.daySpend = 0
                  /\ new.key.inflight = 0 /\ new.key.lifeCalls = 0
             /\ h.key.paused # "total" => Eases(h.key, new.key)
<1> DEFINE k == ResumedKey(h.key)
           done == [h EXCEPT !.key = k, !.listed = FALSE]
<1>1. /\ h.key \in KeyState /\ h.key.lifeSpend \in Nat /\ h.key.daySpend \in Nat
      /\ h.key.inflight \in Nat /\ h.key.paused \in KeyPauses
  BY RecordFields, KeyFields
<1>2. ResumeScript(h) = IF h.key.paused = "no" THEN h ELSE done
  BY DEF ResumeScript
<1>3. /\ k.daySpend = 0 /\ k.inflight = 0
      /\ k.lifeSpend = IF h.key.paused = "day" THEN h.key.lifeSpend ELSE 0
      /\ k.lifeCalls = IF h.key.paused = "day" THEN h.key.lifeCalls ELSE 0
  BY <1>1 DEF ResumedKey, KeyState
<1> HIDE DEF k
<1>4. done.key = k
  BY DEF StoreRecord
<1> HIDE DEF done
<1>5. CASE h.key.paused = "no"
  BY <1>1, <1>2, <1>5 DEF Eases
<1>6. CASE h.key.paused = "day"
  BY <1>1, <1>2, <1>3, <1>4, <1>6 DEF Eases
<1>7. CASE h.key.paused = "total"
  BY <1>2, <1>3, <1>4, <1>7
<1> QED
  BY <1>1, <1>5, <1>6, <1>7 DEF KeyPauses

-----------------------------------------------------------------------------
(* Every step of the store keeps within the caps and leaves a pause of the *)
(* total cap to a person.                                                  *)

CapInv == CostsBounded => Within(db.key, loose)

\* The action of TotalKept.
TotalKeeps ==
  /\ db.key.paused = "total" /\ db'.key.paused # "total" =>
       db' = ResumeScript(db) \/ \E onDay \in 1..MaxDay : db' = PauseScript(db, "day", onDay)
  /\ db'.key.lifeSpend < db.key.lifeSpend =>
       db.key.paused = "total" /\ db' = ResumeScript(db)

Guarded == TotalKeeps /\ (CapInv => CapInv')

LEMMA SteadyKeeps ==
  ASSUME StoreSafe, StoreSafe', Steady(db, db')
  PROVE  TotalKeeps
<1>1. db.key.lifeSpend \in Nat /\ db'.key.lifeSpend \in Nat
  BY RecordFields, KeyFields DEF StoreSafe
<1> QED
  BY <1>1 DEF Steady, TotalKeeps

LEMMA GuardedKept ==
  ASSUME StoreSafe, UNCHANGED <<db, loose>>
  PROVE  Guarded
<1>1. db.key.lifeSpend \in Nat
  BY RecordFields, KeyFields DEF StoreSafe
<1> QED
  BY <1>1 DEF Guarded, TotalKeeps, CapInv

\* Nothing tallied, nothing reserved, and the excuses only grow.
LEMMA EasesGuarded ==
  ASSUME StoreSafe, StoreSafe', Eases(db.key, db'.key), loose <= loose'
  PROVE  CapInv => CapInv'
<1>1. db.key \in KeyState /\ db'.key \in KeyState /\ loose \in Nat /\ loose' \in Nat
  BY RecordFields DEF StoreSafe
<1> QED
  BY <1>1, EasesWithin DEF CapInv

LEMMA WithinFresh ==
  ASSUME CostsBounded, NEW k \in KeyState,
         k.lifeSpend = 0, k.daySpend = 0, k.inflight = 0, k.lifeCalls = 0
  PROVE  Within(k, 0)
<1>1. ReservePerCall \in Nat /\ ReservePerCall > 0 /\ ReservePerCall * 0 = 0
  BY PolicyAssumption, Product DEF CostsBounded
<1>2. ASSUME NEW cap \in Nat
      PROVE  Room(0, 0, cap, 0)
  BY <1>1, RoomForm
<1> QED
  BY <1>1, <1>2, PolicyAssumption DEF Within

LEMMA TakenGuarded ==
  ASSUME StoreSafe, StoreSafe', ClockType, NEW g \in Gateways, NEW item \in Owed,
         TakenBy(g, item)
  PROVE  Guarded
<1> DEFINE d == clock[g]
           extra == IF /\ item.kind = "r" /\ db' # db
                       /\ NewDay(db, d).key.inflight = 0 THEN 1 ELSE 0
<1>1. d \in Nat /\ db \in StoreRecord /\ db' \in StoreRecord /\ loose \in Nat /\ loose' \in Nat
  BY ClockFacts DEF StoreSafe
<1>2. /\ db' = TakeScript(g, item)
      /\ loose' = IF item.kind = "U" /\ db.key.paused = "total" THEN 0 ELSE loose + extra
  BY DEF TakenBy
<1>3. CASE item.kind = "r"
  <2>1. db' = RecordScript(db, item.call, item.cost, d)
    BY <1>2, <1>3 DEF TakeScript
  <2>2. item.call \in Calls /\ item.cost \in Nat /\ item.cost \in Costs
    BY <1>3, OwedParts DEF Owed
  <2>3. loose' = loose + IF db' # db /\ NewDay(db, d).key.inflight = 0 THEN 1 ELSE 0
    BY <1>2, <1>3
  <2>4. Steady(db, db')
    BY <1>1, <2>1, <2>2, RecordSteady
  <2>5. ASSUME CostsBounded, Within(db.key, loose)
        PROVE  Within(db'.key, loose')
    <3>1. item.cost <= ReservePerCall
      BY <2>2, <2>5 DEF CostsBounded
    <3> QED
      BY <1>1, <2>1, <2>2, <2>3, <2>5, <3>1, RecordWithin
  <2> QED
    BY <2>4, <2>5, SteadyKeeps DEF Guarded, CapInv
<1>4. CASE item.kind = "l"
  <2>1. db' = ReleaseScript(db, item.call) /\ item.call \in Calls /\ loose' = loose
    BY <1>1, <1>2, <1>4, OwedParts DEF TakeScript
  <2>2. Eases(db.key, db'.key) /\ Steady(db, db')
    BY <1>1, <2>1, ReleaseTallies
  <2> QED
    BY <1>1, <2>1, <2>2, SteadyKeeps, EasesGuarded DEF Guarded
<1>5. CASE item.kind = "P"
  <2>1. /\ db' = PauseScript(db, item.why, item.onDay) /\ loose' = loose
        /\ item.why \in Reasons /\ item.onDay \in Nat
    BY <1>1, <1>2, <1>5, OwedParts DEF TakeScript
  <2>2. Eases(db.key, db'.key) /\ db'.key.paused \in {db.key.paused, item.why}
    BY <1>1, <2>1, PauseTallies
  <2>3. db.key.lifeSpend \in Nat
    BY <1>1, RecordFields, KeyFields
  <2>4. TotalKeeps
    <3>1. db.key.paused = "total" /\ db'.key.paused # "total" => item.why = "day" /\ item.onDay \in 1..MaxDay
      BY <1>1, <1>5, <2>1, PauseTallies, PauseDays
    <3> QED
      BY <2>1, <2>2, <2>3, <3>1 DEF TotalKeeps, Eases
  <2> QED
    BY <1>1, <2>1, <2>2, <2>4, EasesGuarded DEF Guarded
<1>6. CASE item.kind = "U"
  <2>1. /\ db' = ResumeScript(db)
        /\ loose' = IF db.key.paused = "total" THEN 0 ELSE loose
    BY <1>1, <1>2, <1>6 DEF TakeScript
  <2>2. /\ db.key.paused = "total" =>
             /\ db'.key.lifeSpend = 0 /\ db'.key.daySpend = 0
             /\ db'.key.inflight = 0 /\ db'.key.lifeCalls = 0
        /\ db.key.paused # "total" => Eases(db.key, db'.key)
    BY <1>1, <2>1, ResumeTallies
  <2>3. db.key.lifeSpend \in Nat /\ db'.key \in KeyState
    BY <1>1, RecordFields, KeyFields
  <2>4. TotalKeeps
    BY <2>1, <2>2, <2>3 DEF TotalKeeps, Eases
  <2>5. CASE db.key.paused = "total"
    BY <2>1, <2>2, <2>3, <2>4, <2>5, WithinFresh DEF Guarded, CapInv
  <2>6. CASE db.key.paused # "total"
    BY <1>1, <2>1, <2>2, <2>4, <2>6, EasesGuarded DEF Guarded
  <2> QED
    BY <2>5, <2>6
<1> QED
  BY <1>3, <1>4, <1>5, <1>6, OwedParts

LEMMA Modes ==
  ASSUME NEW c \in Calls
  PROVE  Mode(c) \in {"decide", "bypass", "shadow"} /\ (CostsBounded => Mode(c) \in {"decide", "bypass"})
BY DEF Mode, CostsBounded

LEMMA AskGuarded ==
  ASSUME StoreSafe, StoreSafe', ClockType, NEW c \in Calls, NEW g \in Gateways,
         NEW again \in BOOLEAN, Ask(c, g, again)
  PROVE  Guarded
<1> DEFINE d == clock[g]
           m == Mode(c)
           first == AdmitScript(db, c, m, d)
           second == AdmitScript(first.db, c, m, d)
           r == IF again THEN second ELSE first
<1>1. db' = r.db /\ loose' = loose + IF r.ok /\ m = "bypass" THEN 1 ELSE 0
  BY DEF Ask
<1>2. /\ d \in Nat /\ db \in StoreRecord /\ loose \in Nat
      /\ m \in {"decide", "bypass", "shadow"} /\ (CostsBounded => m \in {"decide", "bypass"})
  BY ClockFacts, Modes DEF StoreSafe
<1>3. m = "bypass" => second.db = first.db /\ second.ok = first.ok
  BY <1>2, BypassAgain
<1> HIDE DEF d, m
<1>4. /\ Steady(db, first.db) /\ first.db \in StoreRecord
      /\ CostsBounded /\ Within(db.key, loose) =>
           Within(first.db.key, loose + IF first.ok /\ m = "bypass" THEN 1 ELSE 0)
  BY <1>2, AdmitSteady, AdmitFacts, AdmitWithin DEF Kept
<1>5. /\ Steady(first.db, second.db)
      /\ CostsBounded /\ Within(first.db.key, loose) =>
           Within(second.db.key, loose + IF second.ok /\ m = "bypass" THEN 1 ELSE 0)
  <2> HIDE DEF first
  <2> QED
    BY <1>2, <1>4, AdmitSteady, AdmitWithin
<1> HIDE DEF first, second
<1>6. second.db \in StoreRecord \/ ~again
  BY <1>1 DEF StoreSafe
<1>7. Steady(db, r.db)
  <2>1. /\ db.key.lifeSpend \in Nat /\ first.db.key.lifeSpend \in Nat
        /\ again => second.db.key.lifeSpend \in Nat
    BY <1>2, <1>4, <1>6, RecordFields, KeyFields
  <2> QED
    BY <1>4, <1>5, <2>1 DEF Steady
<1>8. ASSUME CostsBounded, Within(db.key, loose)
      PROVE  Within(db'.key, loose')
  <2>1. CASE m = "bypass"
    BY <1>1, <1>3, <1>4, <1>8, <2>1
  <2>2. CASE m = "decide"
    <3>1. Within(first.db.key, loose)
      BY <1>2, <1>4, <1>8, <2>2
    <3>2. Within(second.db.key, loose)
      BY <1>2, <1>5, <1>8, <2>2, <3>1
    <3> QED
      BY <1>1, <1>2, <2>2, <3>1, <3>2
  <2> QED
    BY <1>2, <1>8, <2>1, <2>2
<1> QED
  BY <1>1, <1>7, <1>8, SteadyKeeps DEF Guarded, CapInv

LEMMA AskFailsGuarded ==
  ASSUME StoreSafe, StoreSafe', ClockType, NEW c \in Calls, NEW g \in Gateways,
         NEW ran \in BOOLEAN, NEW starts \in BOOLEAN, AskFails(c, g, ran, starts)
  PROVE  Guarded
<1> DEFINE d == clock[g]
           m == Mode(c)
           r == AdmitScript(db, c, m, d)
<1>1. /\ db' = IF ran THEN r.db ELSE db
      /\ loose' = loose + IF ran /\ r.ok /\ m = "bypass" THEN 1 ELSE 0
  BY DEF AskFails
<1>2. /\ d \in Nat /\ db \in StoreRecord /\ loose \in Nat
      /\ m \in {"decide", "bypass", "shadow"} /\ (CostsBounded => m \in {"decide", "bypass"})
  BY ClockFacts, Modes DEF StoreSafe
<1> HIDE DEF d, m
<1>3. /\ Steady(db, r.db)
      /\ CostsBounded /\ Within(db.key, loose) =>
           Within(r.db.key, loose + IF r.ok /\ m = "bypass" THEN 1 ELSE 0)
  BY <1>2, AdmitSteady, AdmitWithin
<1> HIDE DEF r
<1>4. CASE ran
  <2>1. db' = r.db /\ loose' = loose + IF r.ok /\ m = "bypass" THEN 1 ELSE 0
    BY <1>1, <1>4
  <2> QED
    BY <1>3, <2>1, SteadyKeeps DEF Guarded, CapInv
<1>5. CASE ~ran
  BY <1>1, <1>2, <1>5, GuardedKept
<1> QED
  BY <1>4, <1>5

LEMMA SettleGuarded ==
  ASSUME StoreSafe, StoreSafe', ClockType, ThreadsType, NEW c \in Calls, Settle(c)
  PROVE  Guarded
<1> PICK kind \in {"r", "l"}, cost \in Costs :
       \/ SettleLocal(c, kind, cost) \/ SettleShared(c, kind, cost)
       \/ \E ran, starts \in BOOLEAN : SettleFails(c, kind, cost, ran, starts)
  BY DEF Settle
<1>1. call[c].gw \in Gateways /\ Settlement(kind, c, cost) \in Owed
  BY ItemTypes DEF ThreadsType
<1>2. CASE SettleLocal(c, kind, cost)
  BY <1>2, GuardedKept DEF SettleLocal
<1>3. CASE SettleShared(c, kind, cost)
  <2>1. CASE degraded[call[c].gw]
    BY <1>3, <2>1, GuardedKept DEF SettleShared
  <2>2. CASE ~degraded[call[c].gw]
    BY <1>1, <1>3, <2>2, TakenGuarded DEF SettleShared
  <2> QED
    BY <2>1, <2>2
<1>4. ASSUME NEW ran \in BOOLEAN, NEW starts \in BOOLEAN, SettleFails(c, kind, cost, ran, starts)
      PROVE  Guarded
  <2>1. CASE ran
    BY <1>1, <1>4, <2>1, TakenGuarded DEF SettleFails
  <2>2. CASE ~ran
    BY <1>4, <2>2, GuardedKept DEF SettleFails
  <2> QED
    BY <2>1, <2>2
<1> QED
  BY <1>2, <1>3, <1>4

LEMMA StatusGuarded ==
  ASSUME StoreSafe, ClockType, NEW g \in Gateways, Status(g)
  PROVE  Guarded
<1>1. db' = StatusScript(db, clock[g]) /\ loose' = loose
  BY DEF Status
<1>2. db \in StoreRecord /\ clock[g] \in Nat /\ db.key.lifeSpend \in Nat
  BY ClockFacts, RecordFields, KeyFields DEF StoreSafe
<1>3. db'.key = db.key
  BY <1>1, <1>2, StatusFacts
<1> QED
  BY <1>1, <1>2, <1>3 DEF Guarded, TotalKeeps, CapInv

LEMMA GuardedStep == KeysInv /\ [Next]_vars => Guarded
<1> SUFFICES ASSUME KeysInv, [Next]_vars
             PROVE  Guarded
  OBVIOUS
<1>0. StoreSafe' /\ StoreSafe /\ ClockType /\ GatewaysType /\ ThreadsType
  BY StoreStep DEF KeysInv
<1>1. CASE UNCHANGED vars
  BY <1>0, <1>1, GuardedKept DEF vars
<1>2. ASSUME NEW c \in Calls, Process(c) \/ Settle(c)
      PROVE  Guarded
  BY <1>0, <1>2, SettleGuarded, GuardedKept DEF Process
<1>3. ASSUME NEW c \in Calls, NEW g \in Gateways, Decide(c, g)
      PROVE  Guarded
  BY <1>0, <1>3, GuardedKept DEF Decide
<1>4. ASSUME NEW g \in Gateways, Deliver(g)
      PROVE  Guarded
  BY <1>0, <1>4, HeadOwed, TakenGuarded DEF Deliver
<1>5. ASSUME NEW g \in Gateways, NEW ran \in BOOLEAN, NEW starts \in BOOLEAN,
             DeliverFails(g, ran, starts)
      PROVE  Guarded
  BY <1>0, <1>5, HeadOwed, TakenGuarded, GuardedKept DEF DeliverFails
<1>6. ASSUME NEW g \in Gateways, CatchUp(g) \/ Recover(g) \/ Midnight(g)
      PROVE  Guarded
  BY <1>0, <1>6, GuardedKept DEF CatchUp, Recover, Midnight
<1>7. ASSUME NEW g \in Gateways, NEW u \in Resumes, Resume(u, g)
      PROVE  Guarded
  BY <1>0, <1>7, ItemTypes, TakenGuarded, GuardedKept DEF Resume
<1>8. ASSUME NEW g \in Gateways, NEW u \in Resumes, NEW ran \in BOOLEAN, NEW starts \in BOOLEAN,
             ResumeFails(u, g, ran, starts)
      PROVE  Guarded
  BY <1>0, <1>8, ItemTypes, TakenGuarded, GuardedKept DEF ResumeFails
<1> QED
  BY <1>0, <1>1, <1>2, <1>3, <1>4, <1>5, <1>6, <1>7, <1>8, AskGuarded, AskFailsGuarded,
     StatusGuarded DEF Next

-----------------------------------------------------------------------------
(* The theorems. *)

LEMMA KeysInit == Init => KeysInv
<1> SUFFICES ASSUME Init PROVE KeysInv
  OBVIOUS
<1> DEFINE g0 == CHOOSE g \in Gateways : TRUE
<1>1. g0 \in Gateways
  BY KeyedAssumption
<1> HIDE DEF g0
<1>2. /\ EmptyStore \in StoreRecord /\ EmptyStore.key.paused = "no"
  BY NewFields DEF EmptyStore, StoreRecord
<1>3. StoreSafe
  BY <1>2 DEF Init, StoreSafe, DailyPauseIsOfItsDay, ListedWhilePaused
<1>4. ClockType
  BY KeyedAssumption DEF Init, ClockType
<1>5. NoNote \in [why: KeyPauses, day: 0..MaxDay]
  BY KeyedAssumption DEF NoNote, KeyPauses
<1>6. [key |-> NewKey, gap |-> FALSE] \in Fallbacks
  BY NewFields DEF Fallbacks
<1>7. GatewaysType
  BY <1>5, <1>6 DEF Init, GatewaysType, Fallbacks
<1>8. Thread("idle", g0, "local") \in Threads
  BY <1>1 DEF Thread, Threads, Codes, KeyPauses
<1>9. ThreadsType
  <2>1. call = [c \in Calls |-> Thread("idle", g0, "local")] /\ asked = {} /\ faults = 0
    BY DEF Init, g0
  <2>2. 0 \in 0..MaxFaults
    BY KeyedAssumption
  <2> QED
    BY <1>8, <2>1, <2>2 DEF ThreadsType, Threads
<1> QED
  BY <1>3, <1>4, <1>7, <1>9 DEF KeysInv

LEMMA KeysStep == KeysInv /\ [Next]_vars => KeysInv'
<1> SUFFICES ASSUME KeysInv, [Next]_vars PROVE KeysInv'
  OBVIOUS
<1>1. StoreSafe'
  BY StoreStep
<1>2. GateTypes'
  <2>1. CASE UNCHANGED vars
    BY <2>1 DEF vars, gatewayVars, KeysInv, GateTypes, ClockType, GatewaysType, ThreadsType
  <2>2. CASE Next
    BY <1>1, <2>2, AskType, ProcessType, SettleType, DecideType, DeliverType, RecoverType,
       ResumeType, ResumeFailsType, FailuresType DEF Next
  <2> QED
    BY <2>1, <2>2
<1> QED
  BY <1>1, <1>2 DEF KeysInv, GateTypes

\* Whatever the gateways' clocks, gaps, lost answers and late write-backs: the
\* store's record of a key, the entries of the gateways and what they owe keep
\* their types (redisCounter, counter_redis.go).
THEOREM KeysTypeCorrect == Spec => []TypeOK
<1>1. KeysInv => TypeOK
  BY InvParts
<1> QED
  BY <1>1, KeysInit, KeysStep, PTL DEF Spec

\* For any number of gateways, calls, days and failures, a daily pause in the
\* store was made for the store's day: no call is refused today for what was
\* spent yesterday (luaKeyPause, and the day check of luaAdmit and luaRecord).
THEOREM DailyPauseCorrect == Spec => []DailyPauseIsOfItsDay
<1>1. KeysInv => DailyPauseIsOfItsDay
  BY InvParts
<1> QED
  BY <1>1, KeysInit, KeysStep, PTL DEF Spec

\* For any number of gateways, calls, days and failures, a paused key is in the
\* set the status endpoint lists, unless a gateway whose clock is past the day
\* of a daily pause took it off (luaStatus, pausedkeys).
THEOREM ListedCorrect == Spec => []ListedWhilePaused
<1>1. KeysInv => ListedWhilePaused
  BY InvParts
<1> QED
  BY <1>1, KeysInit, KeysStep, PTL DEF Spec

\* For any number of gateways, calls, days and failures: when no call costs more
\* than the reserve floor, what the store has tallied and reserved for a key stays
\* within one floor of each cap, and one more for each call that was forced or
\* tallied without a reservation (luaAdmit, luaRecord, luaRelease, luaKeyPause,
\* luaKeyResume).
THEOREM SharedKeyCapCorrect == Spec => []SharedKeyCapHolds
<1>1. Init => CapInv
  <2> SUFFICES ASSUME Init, CostsBounded PROVE Within(db.key, loose)
    BY DEF CapInv
  <2>1. db.key = NewKey /\ loose = 0 /\ NewKey \in KeyState /\ NewKey.lifeCalls = 0
    BY NewFields DEF Init, EmptyStore, NewKey
  <2> QED
    BY <2>1, NewFields, WithinFresh
<1>2. KeysInv /\ CapInv /\ [Next]_vars => CapInv'
  BY GuardedStep DEF Guarded
<1>3. CapInv => SharedKeyCapHolds
  BY DEF CapInv, CostsBounded, Within, Room, SharedKeyCapHolds, WithinStoreCap
<1> QED
  BY <1>1, <1>2, <1>3, KeysInit, KeysStep, PTL DEF Spec

\* For any number of gateways, calls, days and failures: in the store a pause for
\* the total cap ends only where an operator's resume takes effect, sent at once or
\* written back, or a gap's daily pause is written over it, and only the resume
\* cuts the total tally (luaKeyResume, luaKeyPause).
THEOREM TotalCorrect == Spec => TotalKept
<1>1. KeysInv /\ [Next]_vars =>
        [/\ db.key.paused = "total" /\ db'.key.paused # "total" =>
              db' = ResumeScript(db) \/ \E onDay \in 1..MaxDay : db' = PauseScript(db, "day", onDay)
         /\ db'.key.lifeSpend < db.key.lifeSpend =>
              db.key.paused = "total" /\ db' = ResumeScript(db)]_vars
  BY GuardedStep DEF Guarded, TotalKeeps
<1> QED
  BY <1>1, KeysInit, KeysStep, PTL DEF Spec, TotalKept
=============================================================================
