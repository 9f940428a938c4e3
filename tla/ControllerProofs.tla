-------------------------- MODULE ControllerProofs --------------------------
(***************************************************************************)
(* Proofs about Controller.tla for every set of runs, keys and calls and   *)
(* every policy: reservations, the call cap and the spend caps; then what  *)
(* a step may do: it is a step of Budget.tla, so that what the handler     *)
(* relies on holds of the in-memory controller, and it never lifts a pause *)
(* or loses the tally of a key.                                            *)
(***************************************************************************)
EXTENDS Controller, ControlRulesProofs, FiniteSetTheorems, TLAPS

-----------------------------------------------------------------------------
(* What the methods' parts do: types and the fields they change. *)

LEMMA RunOfFields ==
  ASSUME TypeOK, NEW r \in Runs \cup {NoRun}
  PROVE  /\ RunOf(r) \in RunState
         /\ r \in Runs => /\ RunOf(r).inflight = runs[r].inflight
                          /\ RunOf(r).calls = runs[r].calls
                          /\ RunOf(r).spend = runs[r].spend
                          /\ RunOf(r).maxSpend = runs[r].maxSpend
                          /\ RunOf(r).paused = runs[r].paused
<1>1. CASE r = NoRun
  BY <1>1, NewFields, IdsAssumption DEF RunOf
<1>2. CASE r \in Runs
  <2> DEFINE st == runs[r]
  <2>1. st \in RunState /\ now \in Nat /\ r # NoRun
    BY <1>2, IdsAssumption DEF TypeOK
  <2>2. RunOf(r) = [st EXCEPT !.tracked = TRUE, !.lastSeen = now]
    BY <2>1 DEF RunOf, SeenRun
  <2> HIDE DEF st
  <2>3. /\ RunOf(r) \in RunState
        /\ RunOf(r).inflight = st.inflight /\ RunOf(r).calls = st.calls
        /\ RunOf(r).spend = st.spend /\ RunOf(r).maxSpend = st.maxSpend
        /\ RunOf(r).paused = st.paused
    BY <2>1, <2>2 DEF RunState
  <2> QED
    BY <2>3 DEF st
<1> QED
  BY <1>1, <1>2

LEMMA KeyOfFields ==
  ASSUME TypeOK, NEW k \in Keys \cup {NoKey}
  PROVE  /\ KeyOf(k) \in KeyState
         /\ k \in Keys => /\ KeyOf(k).inflight \in {0, keys[k].inflight}
                          /\ KeyOf(k).daySpend \in {0, keys[k].daySpend}
                          /\ KeyOf(k).lifeSpend = keys[k].lifeSpend
                          /\ KeyOf(k).lifeCalls = keys[k].lifeCalls
<1>1. CASE k = NoKey
  BY <1>1, NewFields, IdsAssumption DEF KeyOf
<1>2. CASE k \in Keys
  <2>1. keys[k] \in KeyState /\ now \in Nat /\ today \in Nat /\ k # NoKey
    BY <1>2, IdsAssumption DEF TypeOK
  <2> QED
    BY <2>1, KeyLockedFields DEF KeyOf
<1> QED
  BY <1>1, <1>2

\* The map of runs with one entry replaced, and the map of keys.
LEMMA WithRunFields ==
  ASSUME TypeOK, NEW r \in Runs \cup {NoRun}, NEW st \in RunState
  PROVE  /\ WithRun(r, st) \in [Runs -> RunState]
         /\ \A x \in Runs : WithRun(r, st)[x] = IF x = r THEN st ELSE runs[x]
BY IdsAssumption DEF TypeOK, WithRun

LEMMA WithKeyFields ==
  ASSUME TypeOK, NEW k \in Keys \cup {NoKey}, NEW ks \in KeyState
  PROVE  /\ WithKey(k, ks) \in [Keys -> KeyState]
         /\ \A x \in Keys : WithKey(k, ks)[x] = IF x = k THEN ks ELSE keys[x]
BY IdsAssumption DEF TypeOK, WithKey

\* A reserved entry: one more in flight, perhaps paused.
LEMMA ReserveRunFields ==
  ASSUME NEW st \in RunState, NEW hit \in RunPauses
  PROVE  /\ PauseFor(st, hit) \in RunState
         /\ PauseFor(st, hit).inflight = st.inflight
         /\ PauseFor(st, hit).calls = st.calls
         /\ PauseFor(st, hit).spend = st.spend
         /\ Reserve(PauseFor(st, hit)) \in RunState
         /\ Reserve(PauseFor(st, hit)).inflight = st.inflight + 1
         /\ Reserve(PauseFor(st, hit)).calls = st.calls
         /\ Reserve(PauseFor(st, hit)).spend = st.spend
<1> DEFINE p == PauseFor(st, hit)
<1>1. /\ p \in RunState
      /\ p.inflight = st.inflight /\ p.calls = st.calls /\ p.spend = st.spend
  BY DEF PauseFor, RunState
<1> HIDE DEF p
<1>2. /\ Reserve(p) \in RunState
      /\ Reserve(p).inflight = p.inflight + 1 /\ Reserve(p).calls = p.calls
      /\ Reserve(p).spend = p.spend
  BY <1>1 DEF Reserve, RunState
<1> QED
  BY <1>1, <1>2 DEF p

LEMMA ReserveKeyFields ==
  ASSUME NEW ks \in KeyState, NEW hit \in KeyPauses
  PROVE  /\ PauseFor(ks, hit) \in KeyState
         /\ PauseFor(ks, hit).inflight = ks.inflight
         /\ PauseFor(ks, hit).daySpend = ks.daySpend
         /\ PauseFor(ks, hit).lifeSpend = ks.lifeSpend
         /\ Reserve(PauseFor(ks, hit)) \in KeyState
         /\ Reserve(PauseFor(ks, hit)).inflight = ks.inflight + 1
         /\ Reserve(PauseFor(ks, hit)).daySpend = ks.daySpend
         /\ Reserve(PauseFor(ks, hit)).lifeSpend = ks.lifeSpend
<1> DEFINE p == PauseFor(ks, hit)
<1>1. /\ p \in KeyState /\ p.inflight = ks.inflight
      /\ p.daySpend = ks.daySpend /\ p.lifeSpend = ks.lifeSpend
  BY DEF PauseFor, KeyState
<1> HIDE DEF p
<1>2. /\ Reserve(p) \in KeyState
      /\ Reserve(p).inflight = p.inflight + 1 /\ Reserve(p).daySpend = p.daySpend
      /\ Reserve(p).lifeSpend = p.lifeSpend
  BY <1>1 DEF Reserve, KeyState
<1> QED
  BY <1>1, <1>2 DEF p

\* Events keep the queue typed.
LEMMA StopType ==
  ASSUME NEW x, NEW reason \in RunPauses \cup KeyPauses,
         reason = "no" \/ x \in Runs \cup Keys
  PROVE  Stop(x, reason) \in Seq(Event)
<1>1. reason # "no" => [id |-> x, reason |-> reason] \in Event
  BY DEF Event
<1> QED
  BY <1>1 DEF Stop

-----------------------------------------------------------------------------
(* What each action does to the entries, with the types. *)

One(u) == IF u THEN 1 ELSE 0

\* A call let through reserves one on its run and one on its key.
LEMMA LetThroughEffect ==
  ASSUME TypeOK, NEW c \in Calls,
         NEW r \in Runs \cup {NoRun}, NEW k \in Keys \cup {NoKey},
         NEW runHit \in RunPauses, NEW keyHit \in KeyPauses, NEW u \in BOOLEAN,
         runHit = "no" \/ r \in Runs, keyHit = "no" \/ k \in Keys,
         LetThrough(c, r, k, runHit, keyHit, u)
  PROVE  /\ TypeOK'
         /\ \A x \in Runs : /\ runs'[x].calls = runs[x].calls
                            /\ runs'[x].spend = runs[x].spend
                            /\ runs'[x].inflight = runs[x].inflight + One(x = r)
                            /\ loose'[x] = loose[x] + One(u /\ x = r)
                            /\ admitted'[x] = admitted[x] + One(x = r)
                            /\ slack'[x] = slack[x] + One(u /\ x = r)
         /\ \A x \in Keys :
              \/ keys'[x] = NewKey /\ loose'[x] = 0
              \/ /\ x # k /\ keys'[x] = keys[x] /\ loose'[x] = loose[x]
              \/ /\ x = k
                 /\ keys'[x].inflight = KeyOf(k).inflight + 1
                 /\ keys'[x].daySpend = KeyOf(k).daySpend
                 /\ keys'[x].lifeSpend = KeyOf(k).lifeSpend
                 /\ loose'[x] = loose[x] + One(u)
<1> DEFINE st  == Reserve(PauseFor(RunOf(r), runHit))
           ks  == Reserve(PauseFor(KeyOf(k), keyHit))
           map == WithKey(k, ks)
<1>1. /\ st \in RunState
      /\ r \in Runs => /\ st.inflight = runs[r].inflight + 1
                       /\ st.calls = runs[r].calls /\ st.spend = runs[r].spend
  BY RunOfFields, ReserveRunFields
<1>2. /\ ks \in KeyState /\ ks.inflight = KeyOf(k).inflight + 1
      /\ ks.daySpend = KeyOf(k).daySpend /\ ks.lifeSpend = KeyOf(k).lifeSpend
  BY KeyOfFields, ReserveKeyFields
<1>3. runs' = WithRun(r, st)
  BY DEF LetThrough
<1>4. PICK V : /\ keys' = Without(map, V, NewKey)
               /\ loose' = [x \in DOMAIN loose |->
                              IF x \in V THEN 0
                              ELSE IF x \in {r, k} THEN loose[x] + One(u) ELSE loose[x]]
               /\ V \subseteq Keys
  <2>1. \A V \in (IF k = NoKey THEN {{}} ELSE Victims(map)) : V \subseteq DOMAIN map
    BY DEF Victims
  <2>2. DOMAIN map = Keys
    BY <1>2, WithKeyFields
  <2> QED
    BY <2>1, <2>2 DEF LetThrough, One
<1> HIDE DEF st, ks
<1>5. /\ runs' \in [Runs -> RunState]
      /\ \A x \in Runs : runs'[x] = IF x = r THEN st ELSE runs[x]
  BY <1>1, <1>3, WithRunFields
<1>6. /\ map \in [Keys -> KeyState]
      /\ \A x \in Keys : map[x] = IF x = k THEN ks ELSE keys[x]
  BY <1>2, WithKeyFields
<1> HIDE DEF map
<1>7. /\ keys' \in [Keys -> KeyState]
      /\ \A x \in Keys : keys'[x] = IF x \in V THEN NewKey ELSE IF x = k THEN ks ELSE keys[x]
  <2>1. NewKey \in KeyState
    BY NewFields
  <2>2. /\ Without(map, V, NewKey) \in [Keys -> KeyState]
        /\ \A x \in Keys : Without(map, V, NewKey)[x] = IF x \in V THEN NewKey ELSE map[x]
    BY <1>6, <2>1 DEF Without
  <2> QED
    BY <1>4, <1>6, <2>2
<1>8. /\ loose' \in [Runs \cup Keys -> Nat]
      /\ \A x \in Runs : loose'[x] = loose[x] + One(u /\ x = r)
      /\ \A x \in Keys : loose'[x] = IF x \in V THEN 0 ELSE loose[x] + One(u /\ x = k)
  BY <1>4, IdsAssumption DEF TypeOK, One
<1>9. pending' \in Seq(Event)
  <2>1. Stop(k, keyHit) \in Seq(Event) /\ Stop(r, runHit) \in Seq(Event)
    BY StopType
  <2> QED
    BY <2>1 DEF LetThrough, TypeOK
<1>10. calls' \in [Calls -> [phase: Phases, run: Runs \cup {NoRun}, key: Keys \cup {NoKey}]]
  BY DEF LetThrough, TypeOK, Phases
<1>11. /\ admitted' \in [Runs -> Int] /\ slack' \in [Runs -> Nat]
       /\ \A x \in Runs : /\ admitted'[x] = admitted[x] + One(x = r)
                          /\ slack'[x] = slack[x] + One(u /\ x = r)
  BY SMTT(30) DEF LetThrough, TypeOK, Add, One
<1>12. TypeOK'
  BY <1>5, <1>7, <1>8, <1>9, <1>10, <1>11 DEF LetThrough, TypeOK
<1>13. \A x \in Runs : /\ runs'[x].calls = runs[x].calls
                       /\ runs'[x].spend = runs[x].spend
                       /\ runs'[x].inflight = runs[x].inflight + One(x = r)
  <2> SUFFICES ASSUME NEW x \in Runs
               PROVE  /\ runs'[x].calls = runs[x].calls
                      /\ runs'[x].spend = runs[x].spend
                      /\ runs'[x].inflight = runs[x].inflight + One(x = r)
    OBVIOUS
  <2>1. runs[x].inflight \in Nat
    BY DEF TypeOK, RunState
  <2>2. CASE x = r
    BY <1>1, <1>5, <2>1, <2>2 DEF One
  <2>3. CASE x # r
    BY <1>5, <2>1, <2>3 DEF One
  <2> QED
    BY <2>2, <2>3
<1>14. \A x \in Keys :
              \/ keys'[x] = NewKey /\ loose'[x] = 0
              \/ /\ x # k /\ keys'[x] = keys[x] /\ loose'[x] = loose[x]
              \/ /\ x = k
                 /\ keys'[x].inflight = KeyOf(k).inflight + 1
                 /\ keys'[x].daySpend = KeyOf(k).daySpend
                 /\ keys'[x].lifeSpend = KeyOf(k).lifeSpend
                 /\ loose'[x] = loose[x] + One(u)
  BY <1>2, <1>7, <1>8 DEF One, TypeOK
<1> QED
  BY <1>8, <1>11, <1>12, <1>13, <1>14

\* A settled call moves one reservation, if the entry holds any, to the tally.
LEMMA RecordEffect ==
  ASSUME TypeOK, NEW c \in Calls, NEW cost \in Costs, NEW l \in BOOLEAN,
         Record(c, cost, l)
  PROVE  LET r == calls[c].run
             k == calls[c].key
         IN
         /\ TypeOK'
         /\ \A x \in Runs :
              \/ /\ runs'[x] = NewRun /\ loose'[x] = 0
                 /\ slack'[x] >= slack[x] + runs[x].calls + runs[x].inflight
              \/ /\ x # r /\ runs'[x] = runs[x]
                 /\ loose'[x] = loose[x] /\ slack'[x] = slack[x]
              \/ /\ x = r
                 /\ runs'[x].inflight = Dec(runs[x].inflight)
                 /\ runs'[x].calls = runs[x].calls + 1
                 /\ runs'[x].spend = runs[x].spend + cost
                 /\ loose'[x] = loose[x] + One(runs[x].inflight = 0)
                 /\ slack'[x] = slack[x]
         /\ \A x \in Keys :
              \/ keys'[x] = NewKey /\ loose'[x] = 0
              \/ x # k /\ keys'[x] = keys[x] /\ loose'[x] = loose[x]
              \/ /\ x = k
                 /\ keys'[x].inflight = Dec(KeyOf(k).inflight)
                 /\ keys'[x].daySpend = KeyOf(k).daySpend + cost
                 /\ keys'[x].lifeSpend = KeyOf(k).lifeSpend + cost
                 /\ loose'[x] = loose[x] + One(KeyOf(k).inflight = 0)
<1> DEFINE r  == calls[c].run
           k  == calls[c].key
           st == SettleRun(RunOf(r), cost, l)
           ks == SettleKey(KeyOf(k), cost)
           runMap == WithRun(r, st)
           keyMap == WithKey(k, ks)
           unreserved == {x \in {r} : RunOf(r).inflight = 0} \cup {x \in {k} : KeyOf(k).inflight = 0}
<1>1. r \in Runs \cup {NoRun} /\ k \in Keys \cup {NoKey} /\ cost \in Nat
  BY CallerAssumption DEF TypeOK
<1>2. PICK VR, VK :
        /\ VR \subseteq DOMAIN runMap /\ VK \subseteq DOMAIN keyMap
        /\ runs' = Without(runMap, VR, NewRun)
        /\ keys' = Without(keyMap, VK, NewKey)
        /\ slack' = [x \in Runs |-> slack[x] + IF x \in VR THEN runMap[x].calls + runMap[x].inflight ELSE 0]
        /\ loose' = [x \in DOMAIN loose |->
                       IF x \in VR \cup VK THEN 0
                       ELSE IF x \in unreserved THEN loose[x] + 1 ELSE loose[x]]
  <2>1. \A V \in (IF r = NoRun THEN {{}} ELSE Victims(runMap)) : V \subseteq DOMAIN runMap
    BY DEF Victims
  <2>2. \A V \in (IF k = NoKey THEN {{}} ELSE Victims(keyMap)) : V \subseteq DOMAIN keyMap
    BY DEF Victims
  <2>3. PICK VR \in (IF r = NoRun THEN {{}} ELSE Victims(runMap)),
             VK \in (IF k = NoKey THEN {{}} ELSE Victims(keyMap)) :
          /\ runs' = Without(runMap, VR, NewRun)
          /\ keys' = Without(keyMap, VK, NewKey)
          /\ slack' = [x \in Runs |-> slack[x] + IF x \in VR THEN runMap[x].calls + runMap[x].inflight ELSE 0]
          /\ loose' = [x \in DOMAIN loose |->
                         IF x \in VR \cup VK THEN 0
                         ELSE IF x \in unreserved THEN loose[x] + 1 ELSE loose[x]]
    BY Zenon DEF Record
  <2> HIDE DEF r, k, runMap, keyMap, unreserved
  <2> QED
    BY <2>1, <2>2, <2>3, Zenon
<1>3. /\ calls' = [calls EXCEPT ![c] = [Idle EXCEPT !.phase = "done"]]
      /\ UNCHANGED <<now, today, killed, admitted, stale>>
      /\ pending' = pending \o (IF k = NoKey THEN <<>> ELSE StopIf(k, KeyOf(k), ks))
                            \o (IF r = NoRun THEN <<>> ELSE StopIf(r, RunOf(r), st))
  BY DEF Record
<1>4. /\ st \in RunState
      /\ r \in Runs => /\ st.inflight = Dec(runs[r].inflight)
                       /\ st.calls = runs[r].calls + 1 /\ st.spend = runs[r].spend + cost
  BY <1>1, RunOfFields, SettleRunFields
<1>5. /\ ks \in KeyState
      /\ ks.inflight = Dec(KeyOf(k).inflight)
      /\ ks.daySpend = KeyOf(k).daySpend + cost
      /\ ks.lifeSpend = KeyOf(k).lifeSpend + cost
  BY <1>1, KeyOfFields, SettleKeyFields
<1>6. pending' \in Seq(Event)
  <2>1. StopIf(k, KeyOf(k), ks) \in Seq(Event) \/ k = NoKey
    BY <1>1, <1>5, StopType DEF StopIf, KeyState, KeyPauses
  <2>2. StopIf(r, RunOf(r), st) \in Seq(Event) \/ r = NoRun
    BY <1>1, <1>4, StopType DEF StopIf, RunState, RunPauses
  <2> QED
    BY <1>3, <2>1, <2>2 DEF TypeOK
<1>7. calls' \in [Calls -> [phase: Phases, run: Runs \cup {NoRun}, key: Keys \cup {NoKey}]]
  BY <1>3 DEF TypeOK, Phases, Idle
<1> HIDE DEF st, ks, r, k
<1>8. /\ runMap \in [Runs -> RunState] /\ keyMap \in [Keys -> KeyState]
      /\ \A x \in Runs : runMap[x] = IF x = r THEN st ELSE runs[x]
      /\ \A x \in Keys : keyMap[x] = IF x = k THEN ks ELSE keys[x]
  <2>1. /\ runMap \in [Runs -> RunState]
        /\ \A x \in Runs : runMap[x] = IF x = r THEN st ELSE runs[x]
    BY <1>1, <1>4, WithRunFields
  <2>2. /\ keyMap \in [Keys -> KeyState]
        /\ \A x \in Keys : keyMap[x] = IF x = k THEN ks ELSE keys[x]
    BY <1>1, <1>5, WithKeyFields
  <2> QED
    BY <2>1, <2>2
<1>9. /\ \A x \in Runs : x \in unreserved <=> x = r /\ runs[x].inflight = 0
      /\ \A x \in Keys : x \in unreserved <=> x = k /\ KeyOf(k).inflight = 0
  BY <1>1, RunOfFields, IdsAssumption
<1> HIDE DEF runMap, keyMap, unreserved
<1>10. /\ runs' \in [Runs -> RunState]
       /\ \A x \in Runs : runs'[x] = IF x \in VR THEN NewRun ELSE runMap[x]
  BY <1>2, <1>8, NewFields DEF Without
<1>11. /\ keys' \in [Keys -> KeyState]
       /\ \A x \in Keys : keys'[x] = IF x \in VK THEN NewKey ELSE keyMap[x]
  BY <1>2, <1>8, NewFields DEF Without
<1>12. /\ slack' \in [Runs -> Nat]
       /\ \A x \in Runs : x \notin VR => slack'[x] = slack[x]
       /\ \A x \in Runs : x \in VR => slack'[x] = slack[x] + (runMap[x].calls + runMap[x].inflight)
  <2>1. \A x \in Runs : runMap[x].calls \in Nat /\ runMap[x].inflight \in Nat /\ slack[x] \in Nat
    BY <1>8 DEF TypeOK, RunState
  <2> QED
    BY <1>2, <2>1
<1>13. /\ loose' \in [Runs \cup Keys -> Nat]
       /\ \A x \in Runs : loose'[x] = IF x \in VR THEN 0 ELSE loose[x] + One(x = r /\ runs[x].inflight = 0)
       /\ \A x \in Keys : loose'[x] = IF x \in VK THEN 0 ELSE loose[x] + One(x = k /\ KeyOf(k).inflight = 0)
  <2>1. /\ DOMAIN loose = Runs \cup Keys
        /\ \A x \in Runs \cup Keys : loose[x] \in Nat /\ loose[x] + 1 \in Nat
    BY DEF TypeOK
  <2>2. VR \cap Keys = {} /\ VK \cap Runs = {}
    BY <1>2, <1>8, IdsAssumption
  <2>3. loose' \in [Runs \cup Keys -> Nat]
    BY <1>2, <2>1
  <2> QED
    BY <1>2, <1>9, <2>1, <2>2, <2>3 DEF One
<1>14. TypeOK'
  BY <1>3, <1>6, <1>7, <1>10, <1>11, <1>12, <1>13 DEF TypeOK
<1>15. ASSUME NEW x \in Runs
       PROVE  \/ /\ runs'[x] = NewRun /\ loose'[x] = 0
                 /\ slack'[x] >= slack[x] + runs[x].calls + runs[x].inflight
              \/ /\ x # r /\ runs'[x] = runs[x]
                 /\ loose'[x] = loose[x] /\ slack'[x] = slack[x]
              \/ /\ x = r
                 /\ runs'[x].inflight = Dec(runs[x].inflight)
                 /\ runs'[x].calls = runs[x].calls + 1
                 /\ runs'[x].spend = runs[x].spend + cost
                 /\ loose'[x] = loose[x] + One(runs[x].inflight = 0)
                 /\ slack'[x] = slack[x]
  <2>1. /\ runs[x].calls \in Nat /\ runs[x].inflight \in Nat
        /\ slack[x] \in Nat /\ loose[x] \in Nat
    BY DEF TypeOK, RunState
  <2>2. Dec(runs[x].inflight) \in Nat /\ Dec(runs[x].inflight) >= runs[x].inflight - 1
    BY <2>1, DecType
  <2>3. CASE x \in VR /\ x = r
    BY <1>4, <1>8, <1>10, <1>12, <1>13, <2>1, <2>2, <2>3
  <2>4. CASE x \in VR /\ x # r
    BY <1>8, <1>10, <1>12, <1>13, <2>1, <2>4
  <2>5. CASE x \notin VR /\ x = r
    BY <1>4, <1>8, <1>10, <1>12, <1>13, <2>5
  <2>6. CASE x \notin VR /\ x # r
    BY <1>8, <1>10, <1>12, <1>13, <2>1, <2>6 DEF One
  <2> QED
    BY <2>3, <2>4, <2>5, <2>6
<1>16. ASSUME NEW x \in Keys
       PROVE  \/ keys'[x] = NewKey /\ loose'[x] = 0
              \/ x # k /\ keys'[x] = keys[x] /\ loose'[x] = loose[x]
              \/ /\ x = k
                 /\ keys'[x].inflight = Dec(KeyOf(k).inflight)
                 /\ keys'[x].daySpend = KeyOf(k).daySpend + cost
                 /\ keys'[x].lifeSpend = KeyOf(k).lifeSpend + cost
                 /\ loose'[x] = loose[x] + One(KeyOf(k).inflight = 0)
  <2>1. loose[x] \in Nat
    BY DEF TypeOK
  <2> QED
    BY <1>5, <1>8, <1>11, <1>13, <2>1 DEF One
<1> QED
  BY <1>14, <1>15, <1>16 DEF r, k

\* A refused call leaves the tallies and the reservations as they were.
LEMMA RefusedEffect ==
  ASSUME TypeOK, NEW c \in Calls,
         NEW r \in Runs \cup {NoRun}, NEW k \in Keys \cup {NoKey},
         AdmitRefused(c, r, k)
  PROVE  /\ TypeOK'
         /\ \A x \in Runs : /\ runs'[x].calls = runs[x].calls
                            /\ runs'[x].spend = runs[x].spend
                            /\ runs'[x].inflight = runs[x].inflight
         /\ \A x \in Keys : \/ keys'[x] = keys[x]
                            \/ /\ x = k
                               /\ keys'[x].inflight = KeyOf(k).inflight
                               /\ keys'[x].daySpend = KeyOf(k).daySpend
                               /\ keys'[x].lifeSpend = KeyOf(k).lifeSpend
         /\ UNCHANGED history
<1> DEFINE st == PauseFor(RunOf(r), RunHit(r, k))
           ks == PauseFor(KeyOf(k), KeyHit(r, k))
<1>1. /\ RunHit(r, k) \in RunPauses /\ (RunHit(r, k) = "no" \/ r \in Runs)
      /\ KeyHit(r, k) \in KeyPauses /\ (KeyHit(r, k) = "no" \/ k \in Keys)
  BY CapsNamePauses DEF RunHit, KeyHit, RunPauses, KeyPauses
<1>2. /\ st \in RunState
      /\ r \in Runs => /\ st.inflight = runs[r].inflight
                       /\ st.calls = runs[r].calls /\ st.spend = runs[r].spend
  BY <1>1, RunOfFields, ReserveRunFields
<1>3. /\ ks \in KeyState /\ ks.inflight = KeyOf(k).inflight
      /\ ks.daySpend = KeyOf(k).daySpend /\ ks.lifeSpend = KeyOf(k).lifeSpend
  BY <1>1, KeyOfFields, ReserveKeyFields
<1>4. runs' = WithRun(r, st) /\ keys' = WithKey(k, ks)
  BY DEF AdmitRefused
<1> HIDE DEF st, ks
<1>5. /\ runs' \in [Runs -> RunState]
      /\ \A x \in Runs : runs'[x] = IF x = r THEN st ELSE runs[x]
  BY <1>2, <1>4, WithRunFields
<1>6. /\ keys' \in [Keys -> KeyState]
      /\ \A x \in Keys : keys'[x] = IF x = k THEN ks ELSE keys[x]
  BY <1>3, <1>4, WithKeyFields
<1>7. pending' \in Seq(Event)
  <2>1. Stop(k, KeyHit(r, k)) \in Seq(Event) /\ Stop(r, RunHit(r, k)) \in Seq(Event)
    BY <1>1, StopType
  <2> QED
    BY <2>1 DEF AdmitRefused, TypeOK
<1>8. calls' \in [Calls -> [phase: Phases, run: Runs \cup {NoRun}, key: Keys \cup {NoKey}]]
  BY DEF AdmitRefused, TypeOK, Phases, Idle
<1>9. TypeOK' /\ UNCHANGED history
  BY <1>5, <1>6, <1>7, <1>8 DEF AdmitRefused, TypeOK, history
<1> QED
  BY <1>2, <1>3, <1>5, <1>6, <1>9

\* A released call returns one reservation of each entry that holds any.
LEMMA ReleaseEffect ==
  ASSUME TypeOK, NEW c \in Calls, Release(c)
  PROVE  LET r == calls[c].run
             k == calls[c].key
         IN
         /\ TypeOK'
         /\ \A x \in Runs :
              /\ runs'[x].calls = runs[x].calls /\ runs'[x].spend = runs[x].spend
              /\ runs'[x].inflight = IF x = r THEN Dec(runs[x].inflight) ELSE runs[x].inflight
              /\ admitted'[x] = admitted[x] - One(x = r /\ c \notin stale)
              /\ slack'[x] = slack[x] + One(x = r /\ c \in stale)
              /\ loose'[x] = loose[x]
         /\ \A x \in Keys :
              /\ keys'[x].daySpend = keys[x].daySpend /\ keys'[x].lifeSpend = keys[x].lifeSpend
              /\ keys'[x].inflight = IF x = k THEN Dec(keys[x].inflight) ELSE keys[x].inflight
              /\ loose'[x] = loose[x]
<1> DEFINE r == calls[c].run
           k == calls[c].key
<1>1. r \in Runs \cup {NoRun} /\ k \in Keys \cup {NoKey}
  BY DEF TypeOK
<1>2. /\ \A st \in RunState : /\ Released(st) \in RunState
                              /\ Released(st).inflight = Dec(st.inflight)
                              /\ Released(st).calls = st.calls /\ Released(st).spend = st.spend
      /\ \A ks \in KeyState : /\ Released(ks) \in KeyState
                              /\ Released(ks).inflight = Dec(ks.inflight)
                              /\ Released(ks).daySpend = ks.daySpend
                              /\ Released(ks).lifeSpend = ks.lifeSpend
  BY DecType DEF Released, RunState, KeyState
<1>3. /\ runs' \in [Runs -> RunState]
      /\ \A x \in Runs : runs'[x] = IF x = r THEN Released(runs[x]) ELSE runs[x]
  BY <1>1, <1>2, IdsAssumption DEF Release, TypeOK
<1>4. /\ keys' \in [Keys -> KeyState]
      /\ \A x \in Keys : keys'[x] = IF x = k THEN Released(keys[x]) ELSE keys[x]
  BY <1>1, <1>2, IdsAssumption DEF Release, TypeOK
<1>5. calls' \in [Calls -> [phase: Phases, run: Runs \cup {NoRun}, key: Keys \cup {NoKey}]]
  BY DEF Release, TypeOK, Phases, Idle
<1>6. /\ admitted' \in [Runs -> Int] /\ slack' \in [Runs -> Nat]
      /\ \A x \in Runs : /\ admitted'[x] = admitted[x] - One(x = r /\ c \notin stale)
                         /\ slack'[x] = slack[x] + One(x = r /\ c \in stale)
  BY DEF Release, TypeOK, Add, One
<1>7. TypeOK' /\ loose' = loose
  BY <1>3, <1>4, <1>5, <1>6 DEF Release, TypeOK
<1>8. \A x \in Runs : runs[x] \in RunState
  BY DEF TypeOK
<1>9. \A x \in Keys : keys[x] \in KeyState
  BY DEF TypeOK
<1> QED
  BY <1>2, <1>3, <1>4, <1>6, <1>7, <1>8, <1>9

\* The steps that are not a call's: the entry of a run is evicted, keeps its
\* tally, or is resumed; that of a key is evicted, looked up or resumed.
RunKept(x) ==
  \/ /\ runs'[x] = NewRun /\ loose'[x] = 0 /\ admitted'[x] = admitted[x]
     /\ slack'[x] >= slack[x] + runs[x].calls + runs[x].inflight
  \/ /\ runs'[x].calls = runs[x].calls /\ runs'[x].spend = runs[x].spend
     /\ runs'[x].inflight = runs[x].inflight
     /\ loose'[x] = loose[x] /\ admitted'[x] = admitted[x] /\ slack'[x] = slack[x]
  \/ /\ runs'[x].calls = 0 /\ runs'[x].spend = 0 /\ runs'[x].inflight = 0
     /\ admitted'[x] = 0

KeyKept(x) ==
  \/ keys'[x] = NewKey /\ loose'[x] = 0
  \/ /\ keys'[x].inflight \in {0, keys[x].inflight}
     /\ keys'[x].daySpend \in {0, keys[x].daySpend}
     /\ \/ keys'[x].lifeSpend = keys[x].lifeSpend /\ loose'[x] = loose[x]
        \/ keys'[x].lifeSpend = 0 /\ keys'[x].daySpend = 0 /\ keys'[x].inflight = 0

OtherStep ==
  \/ \E r \in Runs : RunStep(r)
  \/ \E k \in Keys : KeyStep(k)
  \/ \E on \in BOOLEAN : SetKilled(on)
  \/ Dispatch
  \/ Tick
  \/ \E d \in 0..MaxDay : WallClock(d)

\* An eviction among runs.
LEMMA EvictRunEffect ==
  ASSUME TypeOK, NEW map \in [Runs -> RunState], NEW V \in Victims(map),
         \A x \in Runs : /\ map[x].calls = runs[x].calls /\ map[x].spend = runs[x].spend
                         /\ map[x].inflight = runs[x].inflight,
         runs' = Without(map, V, NewRun), admitted' = admitted,
         slack' = [x \in Runs |-> slack[x] + IF x \in V THEN map[x].calls + map[x].inflight ELSE 0],
         loose' = [x \in DOMAIN loose |-> IF x \in V THEN 0 ELSE loose[x]]
  PROVE  /\ runs' \in [Runs -> RunState] /\ slack' \in [Runs -> Nat]
         /\ loose' \in [Runs \cup Keys -> Nat]
         /\ \A x \in Runs : RunKept(x)
         /\ \A x \in Keys : loose'[x] = loose[x]
<1>1. /\ runs' \in [Runs -> RunState]
      /\ \A x \in Runs : runs'[x] = IF x \in V THEN NewRun ELSE map[x]
  BY NewFields DEF Without
<1>2. V \subseteq Runs
  BY DEF Victims
<1>3. /\ loose' \in [Runs \cup Keys -> Nat]
      /\ \A x \in Runs : loose'[x] = IF x \in V THEN 0 ELSE loose[x]
      /\ \A x \in Keys : loose'[x] = loose[x]
  BY <1>2, IdsAssumption DEF TypeOK
<1>4. \A x \in Runs : /\ map[x].calls \in Nat /\ map[x].inflight \in Nat /\ slack[x] \in Nat
                      /\ slack[x] + 0 = slack[x]
                      /\ slack[x] + (map[x].calls + map[x].inflight) = slack[x] + map[x].calls + map[x].inflight
                      /\ slack[x] + (map[x].calls + map[x].inflight) \in Nat
  BY SMTT(30) DEF TypeOK, RunState
<1>5. slack' \in [Runs -> Nat]
  BY <1>4
<1>6. ASSUME NEW x \in Runs PROVE RunKept(x)
  <2>1. CASE x \in V
    BY <1>1, <1>3, <1>4, <2>1 DEF RunKept
  <2>2. CASE x \notin V
    BY <1>1, <1>3, <1>4, <2>2 DEF RunKept
  <2> QED
    BY <2>1, <2>2
<1> QED
  BY <1>1, <1>3, <1>5, <1>6

LEMMA OtherEffect ==
  ASSUME TypeOK, OtherStep
  PROVE  /\ TypeOK' /\ calls' = calls
         /\ \A x \in Runs : RunKept(x)
         /\ \A x \in Keys : KeyKept(x)
<1>1. ASSUME NEW r \in Runs, NoteRun(r) \/ \E reason \in RunPauses \ {"no"} : MarkPaused(r, reason)
      PROVE  /\ TypeOK' /\ calls' = calls
             /\ \A x \in Runs : RunKept(x)
             /\ \A x \in Keys : KeyKept(x)
  <2>1. /\ runs' \in [Runs -> RunState]
        /\ \A x \in Runs : /\ runs'[x].calls = runs[x].calls /\ runs'[x].spend = runs[x].spend
                           /\ runs'[x].inflight = runs[x].inflight
    <3>1. CASE NoteRun(r)
      BY <3>1, ZenonT(60) DEF NoteRun, TypeOK, RunState
    <3>2. ASSUME NEW reason \in RunPauses \ {"no"}, MarkPaused(r, reason)
          PROVE  /\ runs' \in [Runs -> RunState]
                 /\ \A x \in Runs : /\ runs'[x].calls = runs[x].calls /\ runs'[x].spend = runs[x].spend
                                    /\ runs'[x].inflight = runs[x].inflight
      <4> DEFINE new == [[runs[r] EXCEPT !.tracked = TRUE] EXCEPT !.paused = reason]
      <4>1. /\ new \in RunState /\ new.calls = runs[r].calls
            /\ new.spend = runs[r].spend /\ new.inflight = runs[r].inflight
        BY DEF TypeOK, RunState
      <4>2. runs' = [runs EXCEPT ![r] = new]
        BY <3>2 DEF MarkPaused, TypeOK
      <4> HIDE DEF new
      <4> QED
        BY <4>1, <4>2 DEF TypeOK
    <3> QED
      BY <1>1, <3>1, <3>2
  <2> QED
    BY <1>1, <2>1 DEF NoteRun, MarkPaused, TypeOK, RunKept, KeyKept, history
<1>2. ASSUME NEW r \in Runs, NEW cap \in RequestCaps, SetRunCap(r, cap)
      PROVE  /\ TypeOK' /\ calls' = calls
             /\ \A x \in Runs : RunKept(x)
             /\ \A x \in Keys : KeyKept(x)
  <2> DEFINE map == [runs EXCEPT ![r] = [SeenRun(@, now) EXCEPT !.maxSpend = cap]]
             st == SeenRun(runs[r], now)
  <2>1. /\ st \in RunState /\ st.calls = runs[r].calls
        /\ st.spend = runs[r].spend /\ st.inflight = runs[r].inflight
    BY RunOfFields, IdsAssumption DEF RunOf
  <2>2. map = [runs EXCEPT ![r] = [st EXCEPT !.maxSpend = cap]]
    OBVIOUS
  <2> HIDE DEF st, map
  <2>3. cap \in Nat
    BY CallerAssumption
  <2>4. [st EXCEPT !.maxSpend = cap] \in RunState
    BY <2>1, <2>3 DEF RunState
  <2>5. /\ map \in [Runs -> RunState]
        /\ \A x \in Runs : /\ map[x].calls = runs[x].calls /\ map[x].spend = runs[x].spend
                           /\ map[x].inflight = runs[x].inflight
    BY <2>1, <2>2, <2>4 DEF TypeOK, RunState
  <2>6. PICK V \in Victims(map) :
          /\ runs' = Without(map, V, NewRun)
          /\ slack' = [x \in Runs |-> slack[x] + IF x \in V THEN map[x].calls + map[x].inflight ELSE 0]
          /\ loose' = [x \in DOMAIN loose |-> IF x \in V THEN 0 ELSE loose[x]]
    BY <1>2 DEF SetRunCap, map
  <2>7. admitted' = admitted /\ calls' = calls /\ keys' = keys
    BY <1>2 DEF SetRunCap
  <2>8. /\ runs' \in [Runs -> RunState] /\ slack' \in [Runs -> Nat]
        /\ loose' \in [Runs \cup Keys -> Nat]
        /\ \A x \in Runs : RunKept(x)
        /\ \A x \in Keys : loose'[x] = loose[x]
    BY <2>5, <2>6, <2>7, EvictRunEffect
  <2>9. TypeOK'
    BY <1>2, <2>8 DEF SetRunCap, TypeOK
  <2> QED
    BY <2>7, <2>8, <2>9 DEF KeyKept
<1>3. ASSUME NEW r \in Runs, ResumeRun(r)
      PROVE  /\ TypeOK' /\ calls' = calls
             /\ \A x \in Runs : RunKept(x)
             /\ \A x \in Keys : KeyKept(x)
  <2>1. /\ ResumedRun(runs[r]) \in RunState /\ ResumedRun(runs[r]).calls = 0
        /\ ResumedRun(runs[r]).spend = 0 /\ ResumedRun(runs[r]).inflight = 0
    BY DEF TypeOK, RunState, RunPauses, ResumedRun
  <2>2. /\ runs' \in [Runs -> RunState]
        /\ \A x \in Runs : runs'[x] = IF x = r THEN ResumedRun(runs[r]) ELSE runs[x]
    BY <1>3, <2>1 DEF ResumeRun, TypeOK
  <2>3. /\ admitted' \in [Runs -> Int] /\ slack' \in [Runs -> Nat]
        /\ loose' \in [Runs \cup Keys -> Nat]
        /\ admitted'[r] = 0
        /\ \A x \in Runs \ {r} : admitted'[x] = admitted[x] /\ slack'[x] = slack[x]
        /\ \A x \in (Runs \cup Keys) \ {r} : loose'[x] = loose[x]
    BY <1>3 DEF ResumeRun, TypeOK
  <2>4. TypeOK'
    BY <1>3, <2>2, <2>3 DEF ResumeRun, TypeOK, FlyingOn
  <2>5. \A x \in Runs : RunKept(x)
    BY <2>1, <2>2, <2>3 DEF RunKept
  <2>6. \A x \in Keys : KeyKept(x)
    BY <1>3, <2>3, IdsAssumption DEF ResumeRun, KeyKept
  <2> QED
    BY <1>3, <2>4, <2>5, <2>6 DEF ResumeRun
<1>4. ASSUME NEW k \in Keys, NoteKey(k)
      PROVE  /\ TypeOK' /\ calls' = calls
             /\ \A x \in Runs : RunKept(x)
             /\ \A x \in Keys : KeyKept(x)
  <2> DEFINE map == WithKey(k, KeyOf(k))
  <2>1. /\ KeyOf(k) \in KeyState
        /\ KeyOf(k).inflight \in {0, keys[k].inflight}
        /\ KeyOf(k).daySpend \in {0, keys[k].daySpend}
        /\ KeyOf(k).lifeSpend = keys[k].lifeSpend
    BY KeyOfFields
  <2>2. /\ map \in [Keys -> KeyState]
        /\ \A x \in Keys : map[x] = IF x = k THEN KeyOf(k) ELSE keys[x]
    BY <2>1, WithKeyFields
  <2>3. PICK V \in Victims(map) :
          /\ keys' = Without(map, V, NewKey)
          /\ loose' = [x \in DOMAIN loose |-> IF x \in V THEN 0 ELSE loose[x]]
    BY <1>4 DEF NoteKey
  <2> HIDE DEF map
  <2>4. V \subseteq Keys
    BY <2>2 DEF Victims
  <2>5. /\ keys' \in [Keys -> KeyState]
        /\ \A x \in Keys : keys'[x] = IF x \in V THEN NewKey ELSE map[x]
    BY <2>2, <2>3, NewFields DEF Without
  <2>6. /\ loose' \in [Runs \cup Keys -> Nat]
        /\ \A x \in Keys : loose'[x] = IF x \in V THEN 0 ELSE loose[x]
        /\ \A x \in Runs : loose'[x] = loose[x]
    BY <2>3, <2>4, IdsAssumption DEF TypeOK
  <2>7. TypeOK'
    BY <1>4, <2>5, <2>6 DEF NoteKey, TypeOK
  <2>8. \A x \in Keys : KeyKept(x)
    BY <2>1, <2>2, <2>5, <2>6 DEF KeyKept
  <2>9. \A x \in Runs : RunKept(x)
    BY <1>4, <2>6 DEF NoteKey, RunKept
  <2> QED
    BY <1>4, <2>7, <2>8, <2>9 DEF NoteKey
<1>5. ASSUME NEW k \in Keys, ResumeKey(k)
      PROVE  /\ TypeOK' /\ calls' = calls
             /\ \A x \in Runs : RunKept(x)
             /\ \A x \in Keys : KeyKept(x)
  <2> DEFINE ks == keys[k]
             new == ResumedKey(ks)
  <2>0. ks \in KeyState
    BY DEF TypeOK
  <2> HIDE DEF ks
  <2>1. /\ new \in KeyState /\ new.inflight = 0 /\ new.daySpend = 0
        /\ new.lifeSpend = IF ks.paused = "day" THEN ks.lifeSpend ELSE 0
    BY <2>0 DEF KeyState, KeyPauses, ResumedKey
  <2> HIDE DEF new
  <2>2. /\ keys' \in [Keys -> KeyState]
        /\ \A x \in Keys : keys'[x] = IF x = k THEN new ELSE keys[x]
    BY <1>5, <2>1 DEF ResumeKey, TypeOK, new, ks
  <2>3. /\ loose' \in [Runs \cup Keys -> Nat]
        /\ ks.paused = "day" => loose'[k] = loose[k]
        /\ \A x \in (Runs \cup Keys) \ {k} : loose'[x] = loose[x]
    BY <1>5 DEF ResumeKey, TypeOK, ks
  <2>4. TypeOK'
    BY <1>5, <2>2, <2>3 DEF ResumeKey, TypeOK
  <2>5. \A x \in Keys : KeyKept(x)
    BY <2>1, <2>2, <2>3 DEF KeyKept, ks
  <2>6. \A x \in Runs : RunKept(x)
    BY <1>5, <2>3, IdsAssumption DEF ResumeKey, RunKept
  <2> QED
    BY <1>5, <2>4, <2>5, <2>6 DEF ResumeKey
<1>6. ASSUME NEW k \in Keys, NEW reason \in KeyPauses \ {"no"}, MarkKeyPaused(k, reason)
      PROVE  /\ TypeOK' /\ calls' = calls
             /\ \A x \in Runs : RunKept(x)
             /\ \A x \in Keys : KeyKept(x)
  <2> DEFINE old == KeyLocked(keys[k], now, today)
             new == [old EXCEPT !.paused = reason]
  <2>1. /\ old \in KeyState
        /\ old.inflight \in {0, keys[k].inflight}
        /\ old.daySpend \in {0, keys[k].daySpend}
        /\ old.lifeSpend = keys[k].lifeSpend
    BY KeyOfFields, IdsAssumption DEF KeyOf
  <2>2. keys' = [keys EXCEPT ![k] = new]
    BY <1>6 DEF MarkKeyPaused
  <2> HIDE DEF old
  <2>3. /\ new \in KeyState /\ new.inflight = old.inflight
        /\ new.daySpend = old.daySpend /\ new.lifeSpend = old.lifeSpend
    BY <2>1 DEF KeyState
  <2> HIDE DEF new
  <2>4. /\ keys' \in [Keys -> KeyState]
        /\ \A x \in Keys : keys'[x] = IF x = k THEN new ELSE keys[x]
    BY <2>2, <2>3 DEF TypeOK
  <2>5. TypeOK'
    BY <1>6, <2>4 DEF MarkKeyPaused, TypeOK, history
  <2>6. (\A x \in Keys : KeyKept(x)) /\ (\A x \in Runs : RunKept(x))
    BY <1>6, <2>1, <2>3, <2>4 DEF MarkKeyPaused, KeyKept, RunKept, history
  <2> QED
    BY <1>6, <2>5, <2>6 DEF MarkKeyPaused
<1>7. ASSUME \/ \E on \in BOOLEAN : SetKilled(on)
             \/ Dispatch
             \/ Tick
             \/ \E d \in 0..MaxDay : WallClock(d)
      PROVE  /\ TypeOK' /\ calls' = calls
             /\ \A x \in Runs : RunKept(x)
             /\ \A x \in Keys : KeyKept(x)
  <2>1. TypeOK'
    <3>1. CASE \E on \in BOOLEAN : SetKilled(on)
      BY <3>1 DEF TypeOK, SetKilled, history
    <3>2. CASE Dispatch
      BY <3>2 DEF TypeOK, Dispatch, history
    <3>3. CASE Tick
      BY <3>3, CallerAssumption DEF TypeOK, Tick, history
    <3>4. CASE \E d \in 0..MaxDay : WallClock(d)
      BY <3>4 DEF TypeOK, WallClock, history
    <3> QED
      BY <1>7, <3>1, <3>2, <3>3, <3>4
  <2>2. UNCHANGED <<runs, keys, calls, history>>
    BY <1>7 DEF SetKilled, Dispatch, Tick, WallClock, history
  <2> QED
    BY <2>1, <2>2 DEF RunKept, KeyKept, history
<1> QED
  BY <1>1, <1>2, <1>3, <1>4, <1>5, <1>6, <1>7 DEF OtherStep, RunStep, KeyStep

\* The three ways to be let through are typed uses of LetThrough, and only
\* the checked one is not counted as unchecked.
LEMMA AdmitIsLetThrough ==
  ASSUME TypeOK, NEW c \in Calls,
         NEW r \in Runs \cup {NoRun}, NEW k \in Keys \cup {NoKey},
         AdmitServed(c, r, k) \/ AdmitForced(c, r, k) \/ AdmitShadow(c, r, k)
  PROVE  \E runHit \in RunPauses, keyHit \in KeyPauses, u \in BOOLEAN :
           /\ runHit = "no" \/ r \in Runs
           /\ keyHit = "no" \/ k \in Keys
           /\ calls[c].phase = "idle"
           /\ ~u => ~Stopped(r, k)
           /\ LetThrough(c, r, k, runHit, keyHit, u)
<1>1. /\ RunHit(r, k) \in RunPauses /\ (RunHit(r, k) = "no" \/ r \in Runs)
      /\ KeyHit(r, k) \in KeyPauses /\ (KeyHit(r, k) = "no" \/ k \in Keys)
      /\ "no" \in RunPauses /\ "no" \in KeyPauses
  BY CapsNamePauses DEF RunHit, KeyHit, RunPauses, KeyPauses
<1>2. CASE AdmitServed(c, r, k)
  BY <1>1, <1>2 DEF AdmitServed
<1>3. CASE AdmitForced(c, r, k)
  BY <1>1, <1>3 DEF AdmitForced
<1>4. CASE AdmitShadow(c, r, k)
  BY <1>1, <1>4 DEF AdmitShadow
<1> QED
  BY <1>2, <1>3, <1>4

LEMMA KilledEffect ==
  ASSUME TypeOK, NEW c \in Calls, AdmitKilled(c)
  PROVE  /\ TypeOK' /\ UNCHANGED <<runs, keys, history>>
         /\ calls[c].phase = "idle"
         /\ calls' = [calls EXCEPT ![c] = [Idle EXCEPT !.phase = "done"]]
<1>1. calls' \in [Calls -> [phase: Phases, run: Runs \cup {NoRun}, key: Keys \cup {NoKey}]]
  BY DEF AdmitKilled, TypeOK, Phases, Idle
<1> QED
  BY <1>1 DEF AdmitKilled, TypeOK, history

LEMMA StutterEffect ==
  ASSUME TypeOK, UNCHANGED vars
  PROVE  TypeOK' /\ UNCHANGED <<runs, keys, calls, history>>
BY DEF TypeOK, vars, history

LEMMA InitType == Init => TypeOK
<1> SUFFICES ASSUME Init PROVE TypeOK
  OBVIOUS
<1>1. calls \in [Calls -> [phase: Phases, run: Runs \cup {NoRun}, key: Keys \cup {NoKey}]]
  BY DEF Init, Idle, Phases
<1>2. runs \in [Runs -> RunState] /\ keys \in [Keys -> KeyState]
  BY NewFields DEF Init
<1>3. now \in 1..MaxNow /\ today \in 0..MaxDay
  BY CallerAssumption DEF Init
<1>5. pending \in Seq(Event)
  <2>1. pending = <<>>
    BY DEF Init
  <2> QED
    BY <2>1
<1>6. killed \in BOOLEAN
  BY DEF Init
<1>4. /\ admitted \in [Runs -> Int] /\ slack \in [Runs -> Nat] /\ stale \subseteq Calls
      /\ loose \in [Runs \cup Keys -> Nat]
  BY DEF Init
<1> QED
  BY <1>1, <1>2, <1>3, <1>4, <1>5, <1>6 DEF TypeOK

LEMMA StepType == TypeOK /\ [Next]_vars => TypeOK'
<1> SUFFICES ASSUME TypeOK, [Next]_vars PROVE TypeOK'
  OBVIOUS
<1>1. ASSUME NEW c \in Calls, CallStep(c) PROVE TypeOK'
  <2>1. ASSUME NEW r \in Runs \cup {NoRun}, NEW k \in Keys \cup {NoKey},
               AdmitServed(c, r, k) \/ AdmitForced(c, r, k) \/ AdmitShadow(c, r, k)
        PROVE  TypeOK'
    BY <2>1, AdmitIsLetThrough, LetThroughEffect, SMTT(30)
  <2>2. ASSUME NEW r \in Runs \cup {NoRun}, NEW k \in Keys \cup {NoKey}, AdmitRefused(c, r, k)
        PROVE  TypeOK'
    BY <2>2, RefusedEffect
  <2>3. CASE AdmitKilled(c)
    BY <2>3, KilledEffect
  <2>4. ASSUME NEW cost \in Costs, NEW l \in BOOLEAN, Record(c, cost, l) PROVE TypeOK'
    BY <2>4, RecordEffect
  <2>5. CASE Release(c)
    BY <2>5, ReleaseEffect
  <2> QED
    BY <1>1, <2>1, <2>2, <2>3, <2>4, <2>5 DEF CallStep
<1>2. CASE OtherStep
  BY <1>2, OtherEffect
<1>3. CASE UNCHANGED vars
  BY <1>3, StutterEffect
<1> QED
  BY <1>1, <1>2, <1>3 DEF Next, OtherStep

\* Every reachable state of the controller is well typed: in particular no
\* tally and no reservation count goes below zero.
THEOREM TypeCorrect == Spec => []TypeOK
BY InitType, StepType, PTL DEF Spec

-----------------------------------------------------------------------------
(* Reservations. *)

\* A call that takes off or lands moves the set of calls in flight by itself.
LEMMA FlyingFinite ==
  ASSUME NEW x
  PROVE  IsFiniteSet(FlyingOn(x)) /\ Cardinality(FlyingOn(x)) \in Nat
BY CallerAssumption, FS_Subset, FS_CardinalityType DEF FlyingOn

LEMMA TakeOff ==
  ASSUME TypeOK, NEW c \in Calls, calls[c].phase = "idle",
         NEW r \in Runs \cup {NoRun}, NEW k \in Keys \cup {NoKey}, NEW x \in Runs \cup Keys,
         calls' = [calls EXCEPT ![c] = [phase |-> "flying", run |-> r, key |-> k]]
  PROVE  Cardinality(FlyingOn(x)') = Cardinality(FlyingOn(x)) + One(x \in {r, k})
<1>1. c \notin FlyingOn(x)
  BY DEF FlyingOn
<1>2. CASE x \in {r, k}
  <2>1. FlyingOn(x)' = FlyingOn(x) \cup {c}
    BY <1>2 DEF FlyingOn, TypeOK
  <2> QED
    BY <1>1, <1>2, <2>1, FlyingFinite, FS_AddElement DEF One
<1>3. CASE x \notin {r, k}
  <2>1. FlyingOn(x)' = FlyingOn(x)
    BY <1>1, <1>3 DEF FlyingOn, TypeOK
  <2> QED
    BY <1>3, <2>1, FlyingFinite DEF One
<1> QED
  BY <1>2, <1>3

LEMMA Landing ==
  ASSUME TypeOK, NEW c \in Calls, NEW x \in Runs \cup Keys,
         calls' = [calls EXCEPT ![c] = [Idle EXCEPT !.phase = "done"]]
  PROVE  Cardinality(FlyingOn(x)') =
           Cardinality(FlyingOn(x)) - One(calls[c].phase = "flying" /\ x \in {calls[c].run, calls[c].key})
<1>1. FlyingOn(x)' = FlyingOn(x) \ {c}
  BY IdsAssumption DEF FlyingOn, TypeOK, Idle
<1> DEFINE cond == calls[c].phase = "flying" /\ x \in {calls[c].run, calls[c].key}
<1>2. c \in FlyingOn(x) <=> cond
  BY DEF FlyingOn
<1> HIDE DEF cond
<1>3. CASE cond
  <2>1. Cardinality(FlyingOn(x) \ {c}) = Cardinality(FlyingOn(x)) - 1
    BY <1>2, <1>3, FlyingFinite, FS_RemoveElement
  <2> QED
    BY <1>1, <1>3, <2>1 DEF One, cond
<1>4. CASE ~cond
  <2>1. FlyingOn(x)' = FlyingOn(x)
    BY <1>1, <1>2, <1>4
  <2>2. Cardinality(FlyingOn(x)') = Cardinality(FlyingOn(x)) - 0
    BY <2>1, FlyingFinite
  <2> QED
    BY <1>4, <2>2 DEF One, cond
<1> QED
  BY <1>3, <1>4

LEMMA StepReservation == TypeOK /\ NoPhantomReservation /\ [Next]_vars => NoPhantomReservation'
<1> SUFFICES ASSUME TypeOK, NoPhantomReservation, [Next]_vars
             PROVE  NoPhantomReservation'
  OBVIOUS
<1> USE DEF NoPhantomReservation
<1>0. /\ \A x \in Runs : runs[x].inflight \in Nat
      /\ \A x \in Keys : keys[x].inflight \in Nat
      /\ \A x \in Runs \cup Keys : Cardinality(FlyingOn(x)) \in Nat
  BY FlyingFinite DEF TypeOK, RunState, KeyState
<1>k. \A k \in Keys : KeyOf(k).inflight \in Nat /\ KeyOf(k).inflight <= Cardinality(FlyingOn(k))
  BY <1>0, KeyOfFields
<1>n. NewRun.inflight = 0 /\ NewKey.inflight = 0
  BY NewFields
<1>1. ASSUME NEW c \in Calls, CallStep(c) PROVE NoPhantomReservation'
  <2>1. ASSUME NEW r \in Runs \cup {NoRun}, NEW k \in Keys \cup {NoKey},
               AdmitServed(c, r, k) \/ AdmitForced(c, r, k) \/ AdmitShadow(c, r, k)
        PROVE  NoPhantomReservation'
    <3>1. PICK runHit \in RunPauses, keyHit \in KeyPauses, u \in BOOLEAN :
            /\ runHit = "no" \/ r \in Runs
            /\ keyHit = "no" \/ k \in Keys
            /\ calls[c].phase = "idle"
            /\ LetThrough(c, r, k, runHit, keyHit, u)
      BY <2>1, AdmitIsLetThrough
    <3>2. \A x \in Runs \cup Keys :
            Cardinality(FlyingOn(x)') = Cardinality(FlyingOn(x)) + One(x \in {r, k})
      BY <3>1, TakeOff DEF LetThrough
    <3>3. /\ \A x \in Runs : runs'[x].inflight = runs[x].inflight + One(x = r)
          /\ \A x \in Keys : \/ keys'[x] = NewKey
                             \/ x # k /\ keys'[x] = keys[x]
                             \/ x = k /\ keys'[x].inflight = KeyOf(k).inflight + 1
      BY <3>1, LetThroughEffect
    <3>4. ASSUME NEW x \in Runs PROVE (runs[x].inflight <= Cardinality(FlyingOn(x)))'
      BY <1>0, <3>2, <3>3, IdsAssumption DEF One
    <3>5. ASSUME NEW x \in Keys PROVE (keys[x].inflight <= Cardinality(FlyingOn(x)))'
      <4>1. Cardinality(FlyingOn(x)') = Cardinality(FlyingOn(x)) + One(x = k)
        BY <3>2, IdsAssumption DEF One
      <4>2. Cardinality(FlyingOn(x)) \in Nat /\ One(x = k) \in {0, 1} /\ (x = k => One(x = k) = 1)
        BY <1>0 DEF One
      <4> QED
        BY <1>0, <1>k, <1>n, <3>3, <4>1, <4>2
    <3> QED
      BY <3>4, <3>5
  <2>2. ASSUME NEW r \in Runs \cup {NoRun}, NEW k \in Keys \cup {NoKey}, AdmitRefused(c, r, k)
        PROVE  NoPhantomReservation'
    <3>1. \A x \in Runs \cup Keys : Cardinality(FlyingOn(x)') = Cardinality(FlyingOn(x))
      <4>1. /\ calls[c].phase # "flying"
            /\ calls' = [calls EXCEPT ![c] = [Idle EXCEPT !.phase = "done"]]
        BY <2>2 DEF AdmitRefused
      <4>2. \A x \in Runs \cup Keys : Cardinality(FlyingOn(x)') = Cardinality(FlyingOn(x)) - One(FALSE)
        BY <4>1, Landing DEF One
      <4> QED
        BY <1>0, <4>2 DEF One
    <3>2. /\ \A x \in Runs : runs'[x].inflight = runs[x].inflight
          /\ \A x \in Keys : \/ keys'[x] = keys[x]
                             \/ x = k /\ keys'[x].inflight = KeyOf(k).inflight
      <4> HIDE DEF NoPhantomReservation
      <4> QED
        BY <2>2, RefusedEffect
    <3> QED
      BY <1>0, <1>k, <3>1, <3>2
  <2>3. CASE AdmitKilled(c)
    <3>1. \A x \in Runs \cup Keys : Cardinality(FlyingOn(x)') = Cardinality(FlyingOn(x))
      BY <1>0, <2>3, Landing, KilledEffect DEF One
    <3> QED
      BY <1>0, <2>3, <3>1, KilledEffect
  <2>4. ASSUME NEW cost \in Costs, NEW l \in BOOLEAN, Record(c, cost, l)
        PROVE  NoPhantomReservation'
    <3> DEFINE r == calls[c].run
               k == calls[c].key
    <3>1. \A x \in Runs \cup Keys :
            Cardinality(FlyingOn(x)') = Cardinality(FlyingOn(x)) - One(x \in {r, k})
      BY <2>4, Landing DEF Record, One
    <3>2. /\ \A x \in Runs : \/ runs'[x] = NewRun
                             \/ x # r /\ runs'[x] = runs[x]
                             \/ x = r /\ runs'[x].inflight = Dec(runs[x].inflight)
          /\ \A x \in Keys : \/ keys'[x] = NewKey
                             \/ x # k /\ keys'[x] = keys[x]
                             \/ x = k /\ keys'[x].inflight = Dec(KeyOf(k).inflight)
      BY <2>4, RecordEffect
    <3>3. r \in Runs \cup {NoRun} /\ k \in Keys \cup {NoKey}
      BY DEF TypeOK
    <3>4. \A x \in {r, k} : x \in Runs \cup Keys => Cardinality(FlyingOn(x)) >= 1
      <4>1. \A x \in {r, k} : x \in Runs \cup Keys => c \in FlyingOn(x)
        BY <2>4 DEF Record, FlyingOn
      <4> QED
        BY <1>0, <4>1, FlyingFinite, FS_EmptySet
    <3> HIDE DEF r, k
    <3>5. ASSUME NEW x \in Runs PROVE (runs[x].inflight <= Cardinality(FlyingOn(x)))'
      <4>1. /\ Cardinality(FlyingOn(x)') = Cardinality(FlyingOn(x)) - One(x = r)
            /\ x = r => Cardinality(FlyingOn(x)) >= 1
        BY <3>1, <3>3, <3>4, IdsAssumption DEF One
      <4>2. /\ Cardinality(FlyingOn(x)) \in Nat /\ (x = r => One(x = r) = 1) /\ (x # r => One(x = r) = 0)
        BY <1>0 DEF One
      <4> QED
        BY <1>0, <1>n, <3>2, <4>1, <4>2 DEF Dec
    <3>6. ASSUME NEW x \in Keys PROVE (keys[x].inflight <= Cardinality(FlyingOn(x)))'
      <4>1. /\ Cardinality(FlyingOn(x)') = Cardinality(FlyingOn(x)) - One(x = k)
            /\ x = k => Cardinality(FlyingOn(x)) >= 1
        BY <3>1, <3>3, <3>4, IdsAssumption DEF One
      <4>2. /\ Cardinality(FlyingOn(x)) \in Nat /\ (x = k => One(x = k) = 1) /\ (x # k => One(x = k) = 0)
        BY <1>0 DEF One
      <4> QED
        BY <1>0, <1>k, <1>n, <3>2, <4>1, <4>2 DEF Dec
    <3> QED
      BY <3>5, <3>6
  <2>5. CASE Release(c)
    <3> DEFINE r == calls[c].run
               k == calls[c].key
    <3>1. \A x \in Runs \cup Keys :
            Cardinality(FlyingOn(x)') = Cardinality(FlyingOn(x)) - One(x \in {r, k})
      BY <2>5, Landing DEF Release, One
    <3>2. /\ \A x \in Runs : runs'[x].inflight = IF x = r THEN Dec(runs[x].inflight) ELSE runs[x].inflight
          /\ \A x \in Keys : keys'[x].inflight = IF x = k THEN Dec(keys[x].inflight) ELSE keys[x].inflight
      BY <2>5, ReleaseEffect
    <3>3. r \in Runs \cup {NoRun} /\ k \in Keys \cup {NoKey}
      BY DEF TypeOK
    <3>4. \A x \in {r, k} : x \in Runs \cup Keys => Cardinality(FlyingOn(x)) >= 1
      <4>1. \A x \in {r, k} : x \in Runs \cup Keys => c \in FlyingOn(x)
        BY <2>5 DEF Release, FlyingOn
      <4> QED
        BY <1>0, <4>1, FlyingFinite, FS_EmptySet
    <3> HIDE DEF r, k
    <3>5. ASSUME NEW x \in Runs PROVE (runs[x].inflight <= Cardinality(FlyingOn(x)))'
      <4>1. /\ Cardinality(FlyingOn(x)') = Cardinality(FlyingOn(x)) - One(x = r)
            /\ x = r => Cardinality(FlyingOn(x)) >= 1
        BY <3>1, <3>3, <3>4, IdsAssumption DEF One
      <4> QED
        BY <1>0, <3>2, <4>1 DEF Dec, One
    <3>6. ASSUME NEW x \in Keys PROVE (keys[x].inflight <= Cardinality(FlyingOn(x)))'
      <4>1. /\ Cardinality(FlyingOn(x)') = Cardinality(FlyingOn(x)) - One(x = k)
            /\ x = k => Cardinality(FlyingOn(x)) >= 1
        BY <3>1, <3>3, <3>4, IdsAssumption DEF One
      <4> QED
        BY <1>0, <3>2, <4>1 DEF Dec, One
    <3> QED
      BY <3>5, <3>6
  <2> QED
    BY <1>1, <2>1, <2>2, <2>3, <2>4, <2>5 DEF CallStep
<1>2. CASE OtherStep
  <2>1. \A x : FlyingOn(x)' = FlyingOn(x)
    BY <1>2, OtherEffect DEF FlyingOn
  <2>2. /\ \A x \in Runs : runs'[x].inflight \in {0, runs[x].inflight}
        /\ \A x \in Keys : keys'[x].inflight \in {0, keys[x].inflight}
    BY <1>2, <1>n, OtherEffect DEF RunKept, KeyKept
  <2> QED
    BY <1>0, <2>1, <2>2
<1>3. CASE UNCHANGED vars
  BY <1>3, StutterEffect DEF FlyingOn
<1> QED
  BY <1>1, <1>2, <1>3 DEF Next, OtherStep

\* No reservation outlives its call: in every reachable state the in-flight
\* count of a run or a key is at most the number of its admitted calls that
\* are not yet recorded or released.
THEOREM ReservationsReturned == Spec => []NoPhantomReservation
<1>1. Init => NoPhantomReservation
  <2> SUFFICES ASSUME Init PROVE NoPhantomReservation
    OBVIOUS
  <2>1. /\ \A r \in Runs : runs[r].inflight = 0
        /\ \A k \in Keys : keys[k].inflight = 0
    BY NewFields DEF Init
  <2>2. \A x : Cardinality(FlyingOn(x)) \in Nat
    BY FlyingFinite
  <2> QED
    BY <2>1, <2>2 DEF NoPhantomReservation
<1> QED
  BY <1>1, InitType, StepType, StepReservation, PTL DEF Spec

-----------------------------------------------------------------------------
(* The call cap.  CallCapHolds alone is not inductive: what an admit checks  *)
(* is the run's own count, so the count must cover what was let through.     *)

CountCovers ==
  \A r \in Runs : admitted[r] <= runs[r].calls + runs[r].inflight + slack[r]

LEMMA RunTypes ==
  ASSUME TypeOK, NEW x \in Runs
  PROVE  /\ runs[x].calls \in Nat /\ runs[x].inflight \in Nat /\ runs[x].spend \in Nat
         /\ slack[x] \in Nat /\ admitted[x] \in Int /\ loose[x] \in Nat
BY DEF TypeOK, RunState

\* What the checked admit knows of its run and its key.
LEMMA NotStopped ==
  ASSUME NEW r \in Runs \cup {NoRun}, NEW k \in Keys \cup {NoKey}, ~Stopped(r, k)
  PROVE  /\ r \in Runs => RunCap(RunOf(r)) = "no"
         /\ k \in Keys => KeyCap(KeyOf(k)) = "no"
BY IdsAssumption DEF Stopped, RunHit, KeyHit

LEMMA StepCallCap ==
  TypeOK /\ CountCovers /\ CallCapHolds /\ [Next]_vars => CountCovers' /\ CallCapHolds'
<1> SUFFICES ASSUME TypeOK, CountCovers, CallCapHolds, [Next]_vars
             PROVE  CountCovers' /\ CallCapHolds'
  OBVIOUS
<1> DEFINE Good(x) == /\ admitted[x] <= runs[x].calls + runs[x].inflight + slack[x]
                      /\ MaxCallsPerRun > 0 => admitted[x] <= MaxCallsPerRun + slack[x]
<1>0. \A x \in Runs : Good(x)
  BY DEF CountCovers, CallCapHolds
<1> SUFFICES ASSUME NEW x \in Runs PROVE Good(x)'
  BY DEF CountCovers, CallCapHolds
<1>t. /\ runs[x].calls \in Nat /\ runs[x].inflight \in Nat
      /\ slack[x] \in Nat /\ admitted[x] \in Int
      /\ slack'[x] \in Nat /\ MaxCallsPerRun \in Nat
  BY RunTypes, StepType, PolicyAssumption DEF TypeOK
<1>n. NewRun.calls = 0 /\ NewRun.inflight = 0
  BY NewFields
<1>1. ASSUME NEW c \in Calls, CallStep(c) PROVE Good(x)'
  <2>1. ASSUME NEW r \in Runs \cup {NoRun}, NEW k \in Keys \cup {NoKey},
               AdmitServed(c, r, k) \/ AdmitForced(c, r, k) \/ AdmitShadow(c, r, k)
        PROVE  Good(x)'
    <3>1. PICK runHit \in RunPauses, keyHit \in KeyPauses, u \in BOOLEAN :
            /\ runHit = "no" \/ r \in Runs
            /\ keyHit = "no" \/ k \in Keys
            /\ ~u => ~Stopped(r, k)
            /\ LetThrough(c, r, k, runHit, keyHit, u)
      BY <2>1, AdmitIsLetThrough
    <3>2. /\ runs'[x].calls = runs[x].calls
          /\ runs'[x].inflight = runs[x].inflight + One(x = r)
          /\ admitted'[x] = admitted[x] + One(x = r)
          /\ slack'[x] = slack[x] + One(u /\ x = r)
      BY <3>1, LetThroughEffect
    <3>3. CASE x # r
      <4>1. One(x = r) = 0 /\ One(u /\ x = r) = 0
        BY <3>3 DEF One
      <4> QED
        BY <1>0, <1>t, <3>2, <4>1
    <3>4. CASE x = r /\ u
      <4>1. One(x = r) = 1 /\ One(u /\ x = r) = 1
        BY <3>4 DEF One
      <4> QED
        BY <1>0, <1>t, <3>2, <4>1
    <3>5. CASE x = r /\ ~u
      <4>1. One(x = r) = 1 /\ One(u /\ x = r) = 0
        BY <3>5 DEF One
      <4>2. MaxCallsPerRun > 0 => runs[x].calls + runs[x].inflight < MaxCallsPerRun
        <5>1. RunOf(x).calls = runs[x].calls /\ RunOf(x).inflight = runs[x].inflight
          BY RunOfFields
        <5>2. RunCap(RunOf(x)) = "no"
          BY <3>1, <3>5, NotStopped
        <5> QED
          BY <1>t, <5>1, <5>2 DEF RunCap
      <4> QED
        BY <1>0, <1>t, <3>2, <4>1, <4>2
    <3> QED
      BY <3>3, <3>4, <3>5
  <2>2. ASSUME NEW r \in Runs \cup {NoRun}, NEW k \in Keys \cup {NoKey}, AdmitRefused(c, r, k)
        PROVE  Good(x)'
    <3>1. /\ runs'[x].calls = runs[x].calls /\ runs'[x].inflight = runs[x].inflight
          /\ UNCHANGED history
      BY <2>2, RefusedEffect
    <3> QED
      BY <1>0, <3>1 DEF history
  <2>3. CASE AdmitKilled(c)
    BY <1>0, <2>3, KilledEffect DEF history
  <2>4. ASSUME NEW cost \in Costs, NEW l \in BOOLEAN, Record(c, cost, l)
        PROVE  Good(x)'
    <3>1. \/ /\ runs'[x] = NewRun
             /\ slack'[x] >= slack[x] + runs[x].calls + runs[x].inflight
          \/ runs'[x] = runs[x] /\ slack'[x] = slack[x]
          \/ /\ runs'[x].inflight = Dec(runs[x].inflight)
             /\ runs'[x].calls = runs[x].calls + 1
             /\ slack'[x] = slack[x]
      BY <2>4, RecordEffect
    <3>2. admitted' = admitted
      BY <2>4 DEF Record
    <3>3. Dec(runs[x].inflight) \in Nat /\ Dec(runs[x].inflight) >= runs[x].inflight - 1
      BY <1>t, DecType
    <3> QED
      BY <1>0, <1>t, <1>n, <3>1, <3>2, <3>3
  <2>5. CASE Release(c)
    <3> DEFINE r == calls[c].run
    <3>1. /\ runs'[x].calls = runs[x].calls
          /\ runs'[x].inflight = IF x = r THEN Dec(runs[x].inflight) ELSE runs[x].inflight
          /\ admitted'[x] = admitted[x] - One(x = r /\ c \notin stale)
          /\ slack'[x] = slack[x] + One(x = r /\ c \in stale)
      BY <2>5, ReleaseEffect
    <3>2. Dec(runs[x].inflight) \in Nat /\ Dec(runs[x].inflight) >= runs[x].inflight - 1
      BY <1>t, DecType
    <3> HIDE DEF r
    <3> QED
      BY <1>0, <1>t, <3>1, <3>2 DEF One
  <2> QED
    BY <1>1, <2>1, <2>2, <2>3, <2>4, <2>5 DEF CallStep
<1>2. CASE OtherStep
  <2>1. RunKept(x)
    BY <1>2, OtherEffect
  <2> QED
    BY <1>0, <1>t, <1>n, <2>1 DEF RunKept
<1>3. CASE UNCHANGED vars
  BY <1>0, <1>3, StutterEffect DEF history
<1> QED
  BY <1>1, <1>2, <1>3 DEF Next, OtherStep

\* The call cap holds under every interleaving of admits, settles, releases,
\* resumes and evictions, for every number of runs and concurrent calls.
THEOREM CallCapCorrect == Spec => []CallCapHolds
<1>1. Init => CountCovers /\ CallCapHolds
  <2> SUFFICES ASSUME Init PROVE CountCovers /\ CallCapHolds
    OBVIOUS
  <2>1. \A r \in Runs : /\ runs[r].calls = 0 /\ runs[r].inflight = 0
                        /\ admitted[r] = 0 /\ slack[r] = 0
    BY NewFields DEF Init
  <2> QED
    BY <2>1, PolicyAssumption DEF CountCovers, CallCapHolds
<1> QED
  BY <1>1, InitType, StepType, StepCallCap, PTL DEF Spec

-----------------------------------------------------------------------------
(***************************************************************************)
(* The spend caps for every policy: when no call costs more than the       *)
(* reserve floor, what a run or a key has settled and reserved stays       *)
(* within one floor of its cap.                                            *)
(***************************************************************************)

-----------------------------------------------------------------------------
(* Arithmetic of the bound. *)

F == ReservePerCall

LEMMA MicroType ==
  ASSUME NEW v \in Nat
  PROVE  Micro(v) \in Int /\ CapLine(v) \in Int
BY PolicyAssumption DEF Micro, CapLine

LEMMA MicroMonotone ==
  ASSUME NEW v \in Nat, NEW w \in Nat, v <= w
  PROVE  Micro(v) <= Micro(w)
BY PolicyAssumption DEF Micro

LEMMA MicroZero == Micro(0) = 0
BY PolicyAssumption DEF Micro

LEMMA LineMonotone ==
  ASSUME NEW v \in Nat, NEW w \in Nat, v <= w
  PROVE  CapLine(v) <= CapLine(w)
<1>1. Micro(v) <= Micro(w) /\ Micro(v) \in Int /\ Micro(w) \in Int
  BY MicroMonotone, MicroType
<1> HIDE DEF Micro
<1> QED
  BY <1>1, PolicyAssumption DEF CapLine

LEMMA LinePositive ==
  ASSUME NEW cap \in Nat, Micro(cap) > 0
  PROVE  cap > 0 /\ CapLine(cap) > 0
<1>1. Micro(cap) \in Int
  BY MicroType
<1>2. cap > 0
  BY MicroZero
<1> QED
  BY <1>1, <1>2, PolicyAssumption DEF CapLine

LEMMA Cancel ==
  ASSUME NEW a \in Int, NEW b \in Int, NEW n \in Nat, n > 0, a * n < b * n
  PROVE  a < b
OBVIOUS

\* WithinCap with the products named.
LEMMA WithinCapForm ==
  ASSUME NEW s \in Nat, NEW i \in Nat, NEW cap \in Nat, NEW e \in Nat
  PROVE  WithinCap(s, i, cap, e) <=>
           (Micro(cap) > 0 => 2 * (s + F * i) < CapLine(cap) + 2 * F + 2 * (F * e))
<1>1. F \in Nat /\ CapLine(cap) \in Int
  BY PolicyAssumption, MicroType DEF F
<1>2. 2 * F * (1 + e) = 2 * F + 2 * (F * e)
  BY <1>1
<1>3. 2 * F * (1 + e) \in Int /\ 2 * F \in Int /\ 2 * (F * e) \in Int
  BY <1>1
<1>4. CapLine(cap) + 2 * F * (1 + e) = CapLine(cap) + 2 * F + 2 * (F * e)
  BY <1>1, <1>2, <1>3
<1> QED
  BY <1>4 DEF WithinCap, F

LEMMA WithinNew ==
  ASSUME NEW cap \in Nat, NEW e \in Nat
  PROVE  WithinCap(0, 0, cap, e)
<1>1. F \in Nat /\ F * e \in Nat /\ F * 0 = 0 /\ CapLine(cap) \in Int
  BY PolicyAssumption, MicroType, Product DEF F
<1>2. Micro(cap) > 0 => CapLine(cap) > 0
  BY LinePositive
<1>3. Micro(cap) > 0 => 2 * (0 + F * 0) < CapLine(cap) + 2 * F + 2 * (F * e)
  BY <1>1, <1>2
<1> QED
  BY <1>3, WithinCapForm

LEMMA WithinLess ==
  ASSUME NEW s \in Nat, NEW i \in Nat, NEW cap \in Nat, NEW e \in Nat,
         WithinCap(s, i, cap, e),
         NEW s2 \in Nat, NEW i2 \in Nat, NEW e2 \in Nat,
         s2 <= s, i2 <= i, e2 >= e
  PROVE  WithinCap(s2, i2, cap, e2)
<1>1. /\ F \in Nat /\ F * i \in Nat /\ F * i2 \in Nat /\ F * e \in Nat /\ F * e2 \in Nat
      /\ F * i2 <= F * i /\ F * e <= F * e2 /\ CapLine(cap) \in Int
  BY PolicyAssumption, MicroType, Product, ProductMonotone DEF F
<1>2. Micro(cap) > 0 => 2 * (s + F * i) < CapLine(cap) + 2 * F + 2 * (F * e)
  BY WithinCapForm
<1>3. Micro(cap) > 0 => 2 * (s2 + F * i2) < CapLine(cap) + 2 * F + 2 * (F * e2)
  BY <1>1, <1>2
<1> QED
  BY <1>3, WithinCapForm

LEMMA WithinUnchecked ==
  ASSUME NEW s \in Nat, NEW i \in Nat, NEW cap \in Nat, NEW e \in Nat,
         WithinCap(s, i, cap, e)
  PROVE  WithinCap(s, i + 1, cap, e + 1)
<1>1. /\ F \in Nat /\ F * i \in Nat /\ F * e \in Nat /\ CapLine(cap) \in Int
      /\ F * (i + 1) = F * i + F /\ F * (e + 1) = F * e + F
  BY PolicyAssumption, MicroType, Product DEF F
<1>2. i + 1 \in Nat /\ e + 1 \in Nat
  OBVIOUS
<1>3. Micro(cap) > 0 => 2 * (s + F * i) < CapLine(cap) + 2 * F + 2 * (F * e)
  BY WithinCapForm
<1>4. Micro(cap) > 0 => 2 * (s + F * (i + 1)) < CapLine(cap) + 2 * F + 2 * (F * (e + 1))
  BY <1>1, <1>3
<1> QED
  BY <1>2, <1>4, WithinCapForm

LEMMA WithinSettle ==
  ASSUME NEW s \in Nat, NEW i \in Nat, NEW cap \in Nat, NEW e \in Nat,
         NEW cost \in Nat, cost <= F,
         WithinCap(s, i, cap, e)
  PROVE  WithinCap(s + cost, Dec(i), cap, e + One(i = 0))
<1>1. F \in Nat /\ F * i \in Nat /\ F * e \in Nat /\ CapLine(cap) \in Int
  BY PolicyAssumption, MicroType, Product DEF F
<1>2. s + cost \in Nat
  OBVIOUS
<1>5. Micro(cap) > 0 => 2 * (s + F * i) < CapLine(cap) + 2 * F + 2 * (F * e)
  BY WithinCapForm
<1>3. CASE i = 0
  <2>1. Dec(i) = i /\ e + One(i = 0) = e + 1 /\ e + 1 \in Nat /\ F * (e + 1) = F * e + F
    BY <1>1, <1>3, Product DEF Dec, One, F
  <2>2. Micro(cap) > 0 => 2 * ((s + cost) + F * i) < CapLine(cap) + 2 * F + 2 * (F * (e + 1))
    BY <1>1, <1>5, <2>1
  <2> QED
    BY <1>2, <2>1, <2>2, WithinCapForm
<1>4. CASE i > 0
  <2>1. Dec(i) = i - 1 /\ e + One(i = 0) = e /\ i - 1 \in Nat
    BY <1>4 DEF Dec, One
  <2>2. F * i = F * (i - 1) + F /\ F * (i - 1) \in Nat
    <3>1. F * ((i - 1) + 1) = F * (i - 1) + F /\ F * (i - 1) \in Nat
      BY <1>1, <2>1, Product
    <3> QED
      BY <3>1
  <2>3. Micro(cap) > 0 => 2 * ((s + cost) + F * (i - 1)) < CapLine(cap) + 2 * F + 2 * (F * e)
    BY <1>1, <1>5, <2>2
  <2> QED
    BY <1>2, <2>1, <2>3, WithinCapForm
<1> QED
  BY <1>3, <1>4

\* An admit that found the projection below the cap leaves room for one more.
LEMMA WithinAdmit ==
  ASSUME NEW base \in Nat, NEW spend \in Nat, NEW n \in Nat, NEW i \in Nat,
         NEW cap \in Nat, NEW limit \in Nat, NEW e \in Nat,
         cap > 0, cap <= limit,
         ~ProjectionReached(base, spend, n, i, cap)
  PROVE  WithinCap(base, i + 1, limit, e)
<1>1. /\ F \in Nat /\ F * i \in Nat /\ F * (i + 1) = F * i + F /\ F * e \in Nat
      /\ CapLine(cap) \in Int /\ CapLine(limit) \in Int /\ CapLine(cap) <= CapLine(limit)
  BY PolicyAssumption, MicroType, LineMonotone, Product DEF F
<1>2. \A num \in Nat, den \in Nat : ~MeetsCap(num, den, cap) => 2 * num < CapLine(cap) * den
  <2> SUFFICES ASSUME NEW num \in Nat, NEW den \in Nat, ~MeetsCap(num, den, cap)
               PROVE  2 * num < CapLine(cap) * den
    OBVIOUS
  <2>1. Micro(cap) \in Int /\ Grain \in Nat
    BY MicroType, PolicyAssumption
  <2>2. 2 * num < (2 * Micro(cap) - 1) * (den * Grain)
    BY <2>1 DEF MeetsCap
  <2>3. (2 * Micro(cap) - 1) * (den * Grain) = ((2 * Micro(cap) - 1) * Grain) * den
    BY <2>1
  <2> QED
    BY <2>2, <2>3 DEF CapLine
<1>3. 2 * (base + F * i) < CapLine(cap)
  <2>1. CASE n > 0 /\ spend > F * n
    <3>1. 2 * (base * n + spend * i) < CapLine(cap) * n
      <4>1. base * n + spend * i \in Nat
        BY Product
      <4> QED
        BY <1>2, <2>1, <4>1 DEF ProjectionReached, F
    <3>2. (F * n) * i <= spend * i
      BY <1>1, <2>1, Product, ProductMonotone
    <3>3. (base + F * i) * n = base * n + (F * n) * i
      BY <1>1
    <3>4. /\ base * n \in Nat /\ (F * n) * i \in Nat /\ spend * i \in Nat
          /\ base + F * i \in Nat /\ (base + F * i) * n \in Nat
      BY <1>1, Product
    <3>5. (2 * (base + F * i)) * n = 2 * ((base + F * i) * n)
      BY <3>4
    <3>6. CapLine(cap) * n \in Int
      BY <1>1
    <3>7. (2 * (base + F * i)) * n < CapLine(cap) * n
      BY <3>1, <3>2, <3>3, <3>4, <3>5, <3>6
    <3> QED
      BY <1>1, <2>1, <3>4, <3>7, Cancel
  <2>2. CASE ~(n > 0 /\ spend > F * n)
    <3>1. base + F * i \in Nat
      BY <1>1
    <3>2. 2 * (base + F * i) < CapLine(cap) * 1
      BY <1>2, <2>2, <3>1 DEF ProjectionReached, F
    <3> QED
      BY <1>1, <3>2
  <2> QED
    BY <2>1, <2>2
<1>4. i + 1 \in Nat
  OBVIOUS
<1>5. Micro(limit) > 0 => 2 * (base + F * (i + 1)) < CapLine(limit) + 2 * F + 2 * (F * e)
  BY <1>1, <1>3
<1> QED
  BY <1>4, <1>5, WithinCapForm

\* A cap of 0 is off.
LEMMA WithinOff ==
  ASSUME NEW s, NEW i, NEW e
  PROVE  WithinCap(s, i, 0, e)
BY MicroZero DEF WithinCap

LEMMA KeyTypes ==
  ASSUME TypeOK, NEW x \in Keys
  PROVE  /\ keys[x] \in KeyState /\ keys[x].inflight \in Nat
         /\ keys[x].daySpend \in Nat /\ keys[x].lifeSpend \in Nat /\ loose[x] \in Nat
BY DEF TypeOK, KeyState

-----------------------------------------------------------------------------
(* Runs. *)

\* A checked admit of a run leaves it within the server's cap.
LEMMA RunAdmitted ==
  ASSUME TypeOK, NEW x \in Runs, RunCap(RunOf(x)) = "no"
  PROVE  WithinCap(runs[x].spend, runs[x].inflight + 1, MaxSpendPerRun, loose[x])
<1> DEFINE st == RunOf(x)
<1>1. /\ st \in RunState /\ st.spend = runs[x].spend /\ st.inflight = runs[x].inflight
  BY RunOfFields
<1>2. ~ProjectionReached(st.spend, st.spend, st.calls, st.inflight, SpendCap(st))
  BY DEF RunCap
<1> HIDE DEF st
<1>3. st.spend \in Nat /\ st.calls \in Nat /\ st.inflight \in Nat /\ st.maxSpend \in Nat
  BY <1>1 DEF RunState
<1>4. loose[x] \in Nat /\ MaxSpendPerRun \in Nat
  BY RunTypes, PolicyAssumption
<1>5. CASE MaxSpendPerRun = 0
  BY <1>5, WithinOff
<1>6. CASE MaxSpendPerRun > 0
  <2>1. SpendCap(st) \in Nat /\ SpendCap(st) > 0 /\ SpendCap(st) <= MaxSpendPerRun
    BY <1>3, <1>4, <1>6 DEF SpendCap
  <2>2. WithinCap(st.spend, st.inflight + 1, MaxSpendPerRun, loose[x])
    BY <1>2, <1>3, <1>4, <2>1, WithinAdmit
  <2> QED
    BY <1>1, <2>2
<1> QED
  BY <1>4, <1>5, <1>6

LEMMA StepRunSpend == TypeOK /\ RunSpendHolds /\ [Next]_vars => RunSpendHolds'
<1> SUFFICES ASSUME TypeOK, RunSpendHolds, [Next]_vars, CostsWithinReserve, NEW x \in Runs
             PROVE  WithinCap(runs[x].spend, runs[x].inflight, MaxSpendPerRun, loose[x])'
  BY DEF RunSpendHolds, CostsWithinReserve
<1>0. WithinCap(runs[x].spend, runs[x].inflight, MaxSpendPerRun, loose[x])
  BY DEF RunSpendHolds
<1>t. /\ runs[x].inflight \in Nat /\ runs[x].spend \in Nat /\ loose[x] \in Nat
      /\ loose'[x] \in Nat /\ MaxSpendPerRun \in Nat
  BY RunTypes, StepType, PolicyAssumption DEF TypeOK
<1>n. NewRun.spend = 0 /\ NewRun.inflight = 0
  BY NewFields
<1> DEFINE Goal == WithinCap(runs'[x].spend, runs'[x].inflight, MaxSpendPerRun, loose'[x])
<1> SUFFICES Goal
  BY DEF WithinCap, CapLine, Micro
<1>1. ASSUME NEW c \in Calls, CallStep(c) PROVE Goal
  <2>1. ASSUME NEW r \in Runs \cup {NoRun}, NEW k \in Keys \cup {NoKey},
               AdmitServed(c, r, k) \/ AdmitForced(c, r, k) \/ AdmitShadow(c, r, k)
        PROVE  Goal
    <3>1. PICK runHit \in RunPauses, keyHit \in KeyPauses, u \in BOOLEAN :
            /\ runHit = "no" \/ r \in Runs
            /\ keyHit = "no" \/ k \in Keys
            /\ ~u => ~Stopped(r, k)
            /\ LetThrough(c, r, k, runHit, keyHit, u)
      BY <2>1, AdmitIsLetThrough
    <3>2. /\ runs'[x].spend = runs[x].spend
          /\ runs'[x].inflight = runs[x].inflight + One(x = r)
          /\ loose'[x] = loose[x] + One(u /\ x = r)
      BY <3>1, LetThroughEffect
    <3>3. CASE x # r
      <4>1. runs'[x].inflight = runs[x].inflight /\ loose'[x] = loose[x]
        BY <1>t, <3>2, <3>3 DEF One
      <4> QED
        BY <1>0, <3>2, <4>1
    <3>4. CASE x = r /\ u
      <4>1. runs'[x].inflight = runs[x].inflight + 1 /\ loose'[x] = loose[x] + 1
        BY <3>2, <3>4 DEF One
      <4> QED
        BY <1>0, <1>t, <3>2, <4>1, WithinUnchecked
    <3>5. CASE x = r /\ ~u
      <4>1. runs'[x].inflight = runs[x].inflight + 1 /\ loose'[x] = loose[x]
        BY <1>t, <3>2, <3>5 DEF One
      <4>2. RunCap(RunOf(x)) = "no"
        BY <3>1, <3>5, NotStopped
      <4> QED
        BY <3>2, <4>1, <4>2, RunAdmitted
    <3> QED
      BY <3>3, <3>4, <3>5
  <2>2. ASSUME NEW r \in Runs \cup {NoRun}, NEW k \in Keys \cup {NoKey}, AdmitRefused(c, r, k)
        PROVE  Goal
    <3>1. /\ runs'[x].spend = runs[x].spend /\ runs'[x].inflight = runs[x].inflight
          /\ UNCHANGED history
      BY <2>2, RefusedEffect
    <3> QED
      BY <1>0, <3>1 DEF history
  <2>3. CASE AdmitKilled(c)
    BY <1>0, <2>3, KilledEffect DEF history
  <2>4. ASSUME NEW cost \in Costs, NEW l \in BOOLEAN, Record(c, cost, l)
        PROVE  Goal
    <3>1. \/ runs'[x] = NewRun /\ loose'[x] = 0
          \/ runs'[x] = runs[x] /\ loose'[x] = loose[x]
          \/ /\ runs'[x].inflight = Dec(runs[x].inflight)
             /\ runs'[x].spend = runs[x].spend + cost
             /\ loose'[x] = loose[x] + One(runs[x].inflight = 0)
      BY <2>4, RecordEffect
    <3>2. cost \in Nat /\ cost <= F
      BY CallerAssumption DEF CostsWithinReserve, F
    <3>3. WithinCap(0, 0, MaxSpendPerRun, 0)
      BY <1>t, WithinNew
    <3>4. WithinCap(runs[x].spend + cost, Dec(runs[x].inflight), MaxSpendPerRun,
                    loose[x] + One(runs[x].inflight = 0))
      BY <1>0, <1>t, <3>2, WithinSettle
    <3> QED
      BY <1>0, <1>n, <3>1, <3>3, <3>4
  <2>5. CASE Release(c)
    <3>1. /\ runs'[x].spend = runs[x].spend /\ loose'[x] = loose[x]
          /\ \/ runs'[x].inflight = Dec(runs[x].inflight)
             \/ runs'[x].inflight = runs[x].inflight
      BY <2>5, ReleaseEffect
    <3>2. Dec(runs[x].inflight) \in Nat /\ Dec(runs[x].inflight) <= runs[x].inflight
      BY <1>t, DecType
    <3>3. WithinCap(runs[x].spend, Dec(runs[x].inflight), MaxSpendPerRun, loose[x])
      <4>1. runs[x].spend <= runs[x].spend /\ loose[x] >= loose[x]
        BY <1>t
      <4> QED
        BY <1>0, <1>t, <3>2, <4>1, WithinLess
    <3> QED
      BY <1>0, <3>1, <3>3
  <2> QED
    BY <1>1, <2>1, <2>2, <2>3, <2>4, <2>5 DEF CallStep
<1>2. CASE OtherStep
  <2>1. RunKept(x)
    BY <1>2, OtherEffect
  <2>2. \A e \in Nat : WithinCap(0, 0, MaxSpendPerRun, e)
    BY <1>t, WithinNew
  <2> QED
    BY <1>0, <1>t, <1>n, <2>1, <2>2 DEF RunKept
<1>3. CASE UNCHANGED vars
  BY <1>0, <1>3, StutterEffect DEF history
<1> QED
  BY <1>1, <1>2, <1>3 DEF Next, OtherStep

\* Under a reserve floor no call's cost exceeds, a run's settled spend and
\* reservations never pass its cap by more than one floor (and one for each
\* unchecked or unreserved call), however its calls interleave.
THEOREM RunSpendCorrect == Spec => []RunSpendHolds
<1>1. Init => RunSpendHolds
  <2> SUFFICES ASSUME Init, NEW r \in Runs
               PROVE  WithinCap(runs[r].spend, runs[r].inflight, MaxSpendPerRun, loose[r])
    BY DEF RunSpendHolds
  <2>1. runs[r].spend = 0 /\ runs[r].inflight = 0 /\ loose[r] = 0
    BY NewFields DEF Init
  <2> QED
    BY <2>1, WithinNew, PolicyAssumption
<1> QED
  BY <1>1, InitType, StepType, StepRunSpend, PTL DEF Spec

-----------------------------------------------------------------------------
(* Keys: the daily and the total cap share one reservation count. *)

BothWithin(ks, e) ==
  /\ WithinCap(ks.lifeSpend, ks.inflight, MaxSpendPerKey, e)
  /\ WithinCap(ks.daySpend, ks.inflight, MaxSpendPerKeyDay, e)

\* Less spent, less reserved, more excess: still within both caps.
LEMMA BothLess ==
  ASSUME NEW ks, ks.inflight \in Nat, ks.lifeSpend \in Nat, ks.daySpend \in Nat,
         NEW e \in Nat, BothWithin(ks, e),
         NEW new, new.inflight \in Nat, new.lifeSpend \in Nat, new.daySpend \in Nat,
         new.inflight <= ks.inflight, new.lifeSpend <= ks.lifeSpend, new.daySpend <= ks.daySpend
  PROVE  BothWithin(new, e)
<1>1. MaxSpendPerKey \in Nat /\ MaxSpendPerKeyDay \in Nat /\ e >= e
  BY PolicyAssumption
<1>2. WithinCap(new.lifeSpend, new.inflight, MaxSpendPerKey, e)
  BY <1>1, WithinLess DEF BothWithin
<1>3. WithinCap(new.daySpend, new.inflight, MaxSpendPerKeyDay, e)
  BY <1>1, WithinLess DEF BothWithin
<1> QED
  BY <1>2, <1>3 DEF BothWithin

LEMMA BothNew ==
  ASSUME NEW new, new.inflight = 0, new.lifeSpend = 0, new.daySpend = 0, NEW e \in Nat
  PROVE  BothWithin(new, e)
BY WithinNew, PolicyAssumption DEF BothWithin

\* A checked admit of a key leaves it within both caps.
LEMMA KeyAdmitted ==
  ASSUME NEW ks \in KeyState, KeyCap(ks) = "no", NEW e \in Nat
  PROVE  /\ WithinCap(ks.lifeSpend, ks.inflight + 1, MaxSpendPerKey, e)
         /\ WithinCap(ks.daySpend, ks.inflight + 1, MaxSpendPerKeyDay, e)
<1>1. /\ ks.lifeSpend \in Nat /\ ks.daySpend \in Nat /\ ks.lifeCalls \in Nat /\ ks.inflight \in Nat
      /\ MaxSpendPerKey \in Nat /\ MaxSpendPerKeyDay \in Nat
      /\ MaxSpendPerKey <= MaxSpendPerKey /\ MaxSpendPerKeyDay <= MaxSpendPerKeyDay
  BY PolicyAssumption DEF KeyState
<1>2. /\ ~ProjectionReached(ks.lifeSpend, ks.lifeSpend, ks.lifeCalls, ks.inflight, MaxSpendPerKey)
      /\ ~ProjectionReached(ks.daySpend, ks.lifeSpend, ks.lifeCalls, ks.inflight, MaxSpendPerKeyDay)
  BY DEF KeyCap
<1>3. WithinCap(ks.lifeSpend, ks.inflight + 1, MaxSpendPerKey, e)
  <2>1. CASE MaxSpendPerKey = 0
    BY <2>1, WithinOff
  <2>2. CASE MaxSpendPerKey > 0
    BY <1>1, <1>2, <2>2, WithinAdmit
  <2> QED
    BY <1>1, <2>1, <2>2
<1>4. WithinCap(ks.daySpend, ks.inflight + 1, MaxSpendPerKeyDay, e)
  <2>1. CASE MaxSpendPerKeyDay = 0
    BY <2>1, WithinOff
  <2>2. CASE MaxSpendPerKeyDay > 0
    BY <1>1, <1>2, <2>2, WithinAdmit
  <2> QED
    BY <1>1, <2>1, <2>2
<1> QED
  BY <1>3, <1>4

LEMMA StepKeySpend == TypeOK /\ KeySpendHolds /\ [Next]_vars => KeySpendHolds'
<1> SUFFICES ASSUME TypeOK, KeySpendHolds, [Next]_vars, CostsWithinReserve, NEW x \in Keys
             PROVE  BothWithin(keys'[x], loose'[x])
  <2>1. \A x \in Keys : BothWithin(keys[x], loose[x])' <=>
          (/\ WithinCap(keys[x].lifeSpend, keys[x].inflight, MaxSpendPerKey, loose[x])
           /\ WithinCap(keys[x].daySpend, keys[x].inflight, MaxSpendPerKeyDay, loose[x]))'
    BY DEF BothWithin
  <2>2. \A x \in Keys : BothWithin(keys[x], loose[x])' <=> BothWithin(keys'[x], loose'[x])
    BY DEF BothWithin, WithinCap, CapLine, Micro
  <2> QED
    BY <2>1, <2>2 DEF KeySpendHolds, CostsWithinReserve
<1>0. BothWithin(keys[x], loose[x])
  BY DEF KeySpendHolds, BothWithin
<1>t. /\ keys[x].inflight \in Nat /\ keys[x].daySpend \in Nat /\ keys[x].lifeSpend \in Nat
      /\ loose[x] \in Nat /\ MaxSpendPerKey \in Nat /\ MaxSpendPerKeyDay \in Nat
  BY KeyTypes, PolicyAssumption
<1>p. /\ keys'[x].inflight \in Nat /\ keys'[x].daySpend \in Nat /\ keys'[x].lifeSpend \in Nat
      /\ loose'[x] \in Nat
  BY StepType DEF TypeOK, KeyState
<1>n. NewKey.lifeSpend = 0 /\ NewKey.daySpend = 0 /\ NewKey.inflight = 0
  BY NewFields
<1>e. BothWithin(NewKey, 0)
  BY <1>n, BothNew
<1> DEFINE ks == KeyOf(x)
<1>1. /\ ks \in KeyState /\ ks.inflight \in Nat /\ ks.daySpend \in Nat /\ ks.lifeSpend \in Nat
      /\ ks.inflight <= keys[x].inflight /\ ks.daySpend <= keys[x].daySpend
      /\ ks.lifeSpend <= keys[x].lifeSpend
  <2>1. /\ ks \in KeyState /\ ks.inflight \in {0, keys[x].inflight}
        /\ ks.daySpend \in {0, keys[x].daySpend} /\ ks.lifeSpend = keys[x].lifeSpend
    BY KeyOfFields
  <2> QED
    BY <1>t, <2>1
<1> HIDE DEF ks
<1>2. BothWithin(ks, loose[x])
  BY <1>0, <1>t, <1>1, BothLess
<1>3. ASSUME NEW c \in Calls, CallStep(c) PROVE BothWithin(keys'[x], loose'[x])
  <2>1. ASSUME NEW r \in Runs \cup {NoRun}, NEW k \in Keys \cup {NoKey},
               AdmitServed(c, r, k) \/ AdmitForced(c, r, k) \/ AdmitShadow(c, r, k)
        PROVE  BothWithin(keys'[x], loose'[x])
    <3>1. PICK runHit \in RunPauses, keyHit \in KeyPauses, u \in BOOLEAN :
            /\ runHit = "no" \/ r \in Runs
            /\ keyHit = "no" \/ k \in Keys
            /\ ~u => ~Stopped(r, k)
            /\ LetThrough(c, r, k, runHit, keyHit, u)
      BY <2>1, AdmitIsLetThrough
    <3>2. \/ keys'[x] = NewKey /\ loose'[x] = 0
          \/ keys'[x] = keys[x] /\ loose'[x] = loose[x]
          \/ /\ x = k
             /\ keys'[x].inflight = ks.inflight + 1
             /\ keys'[x].daySpend = ks.daySpend
             /\ keys'[x].lifeSpend = ks.lifeSpend
             /\ loose'[x] = loose[x] + One(u)
      BY <3>1, LetThroughEffect DEF ks
    <3>3. ASSUME x = k, u,
                 keys'[x].inflight = ks.inflight + 1, keys'[x].daySpend = ks.daySpend,
                 keys'[x].lifeSpend = ks.lifeSpend, loose'[x] = loose[x] + One(u)
          PROVE  BothWithin(keys'[x], loose'[x])
      <4>1. loose'[x] = loose[x] + 1
        BY <3>3 DEF One
      <4>2. /\ WithinCap(ks.lifeSpend, ks.inflight + 1, MaxSpendPerKey, loose[x] + 1)
            /\ WithinCap(ks.daySpend, ks.inflight + 1, MaxSpendPerKeyDay, loose[x] + 1)
        BY <1>t, <1>1, <1>2, WithinUnchecked DEF BothWithin
      <4> QED
        BY <3>3, <4>1, <4>2 DEF BothWithin
    <3>4. ASSUME x = k, ~u,
                 keys'[x].inflight = ks.inflight + 1, keys'[x].daySpend = ks.daySpend,
                 keys'[x].lifeSpend = ks.lifeSpend, loose'[x] = loose[x] + One(u)
          PROVE  BothWithin(keys'[x], loose'[x])
      <4>1. loose'[x] = loose[x]
        BY <1>t, <3>4 DEF One
      <4>2. KeyCap(ks) = "no"
        BY <3>1, <3>4, NotStopped DEF ks
      <4>3. /\ WithinCap(ks.lifeSpend, ks.inflight + 1, MaxSpendPerKey, loose[x])
            /\ WithinCap(ks.daySpend, ks.inflight + 1, MaxSpendPerKeyDay, loose[x])
        BY <1>t, <1>1, <4>2, KeyAdmitted
      <4> QED
        BY <3>4, <4>1, <4>3 DEF BothWithin
    <3> QED
      BY <1>0, <1>e, <3>2, <3>3, <3>4
  <2>2. ASSUME NEW r \in Runs \cup {NoRun}, NEW k \in Keys \cup {NoKey}, AdmitRefused(c, r, k)
        PROVE  BothWithin(keys'[x], loose'[x])
    <3>1. \/ keys'[x] = keys[x]
          \/ /\ keys'[x].inflight = ks.inflight
             /\ keys'[x].daySpend = ks.daySpend
             /\ keys'[x].lifeSpend = ks.lifeSpend
      BY <2>2, RefusedEffect DEF ks
    <3>2. loose' = loose
      BY <2>2 DEF AdmitRefused, history
    <3> QED
      BY <1>0, <1>2, <3>1, <3>2 DEF BothWithin
  <2>3. CASE AdmitKilled(c)
    BY <1>0, <2>3, KilledEffect DEF history
  <2>4. ASSUME NEW cost \in Costs, NEW l \in BOOLEAN, Record(c, cost, l)
        PROVE  BothWithin(keys'[x], loose'[x])
    <3>1. \/ keys'[x] = NewKey /\ loose'[x] = 0
          \/ keys'[x] = keys[x] /\ loose'[x] = loose[x]
          \/ /\ keys'[x].inflight = Dec(ks.inflight)
             /\ keys'[x].daySpend = ks.daySpend + cost
             /\ keys'[x].lifeSpend = ks.lifeSpend + cost
             /\ loose'[x] = loose[x] + One(ks.inflight = 0)
      BY <2>4, RecordEffect DEF ks
    <3>2. cost \in Nat /\ cost <= F
      BY CallerAssumption DEF CostsWithinReserve, F
    <3>3. /\ WithinCap(ks.lifeSpend + cost, Dec(ks.inflight), MaxSpendPerKey, loose[x] + One(ks.inflight = 0))
          /\ WithinCap(ks.daySpend + cost, Dec(ks.inflight), MaxSpendPerKeyDay, loose[x] + One(ks.inflight = 0))
      BY <1>t, <1>1, <1>2, <3>2, WithinSettle DEF BothWithin
    <3> QED
      BY <1>0, <1>e, <3>1, <3>3 DEF BothWithin
  <2>5. CASE Release(c)
    <3>1. /\ keys'[x].daySpend = keys[x].daySpend /\ keys'[x].lifeSpend = keys[x].lifeSpend
          /\ loose'[x] = loose[x]
          /\ \/ keys'[x].inflight = Dec(keys[x].inflight)
             \/ keys'[x].inflight = keys[x].inflight
      BY <2>5, ReleaseEffect
    <3>2. Dec(keys[x].inflight) <= keys[x].inflight
      BY <1>t, DecType
    <3>3. /\ keys'[x].inflight <= keys[x].inflight
          /\ keys'[x].lifeSpend <= keys[x].lifeSpend /\ keys'[x].daySpend <= keys[x].daySpend
      BY <1>t, <3>1, <3>2
    <3>4. BothWithin(keys'[x], loose[x])
      BY <1>0, <1>t, <1>p, <3>3, BothLess
    <3> QED
      BY <3>1, <3>4
  <2> QED
    BY <1>3, <2>1, <2>2, <2>3, <2>4, <2>5 DEF CallStep
<1>4. CASE OtherStep
  <2>1. KeyKept(x)
    BY <1>4, OtherEffect
  <2>2. CASE keys'[x] = NewKey /\ loose'[x] = 0
    BY <1>e, <2>2
  <2>3. CASE /\ keys'[x].inflight \in {0, keys[x].inflight}
             /\ keys'[x].daySpend \in {0, keys[x].daySpend}
             /\ keys'[x].lifeSpend = keys[x].lifeSpend /\ loose'[x] = loose[x]
    <3>1. /\ keys'[x].inflight <= keys[x].inflight
          /\ keys'[x].lifeSpend <= keys[x].lifeSpend /\ keys'[x].daySpend <= keys[x].daySpend
      BY <1>t, <2>3
    <3>2. BothWithin(keys'[x], loose[x])
      BY <1>0, <1>t, <1>p, <3>1, BothLess
    <3> QED
      BY <2>3, <3>2
  <2>4. CASE keys'[x].lifeSpend = 0 /\ keys'[x].daySpend = 0 /\ keys'[x].inflight = 0
    BY <1>p, <2>4, BothNew
  <2> QED
    BY <2>1, <2>2, <2>3, <2>4 DEF KeyKept
<1>5. CASE UNCHANGED vars
  BY <1>0, <1>5, StutterEffect DEF history
<1> QED
  BY <1>3, <1>4, <1>5 DEF Next, OtherStep

\* The same bound for a key's daily and total caps, over all its runs, across
\* midnights, lagging clocks, resumes and evictions.
THEOREM KeySpendCorrect == Spec => []KeySpendHolds
<1>1. Init => KeySpendHolds
  <2> SUFFICES ASSUME Init, NEW k \in Keys
               PROVE  BothWithin(keys[k], loose[k])
    BY DEF KeySpendHolds, BothWithin
  <2>1. keys[k].lifeSpend = 0 /\ keys[k].daySpend = 0 /\ keys[k].inflight = 0 /\ loose[k] = 0
    BY NewFields DEF Init
  <2> QED
    BY <2>1, BothNew
<1> QED
  BY <1>1, InitType, StepType, StepKeySpend, PTL DEF Spec

-----------------------------------------------------------------------------
(* Which entries are paused after a step. *)

Paused(rec) == rec.paused # "no"

\* Bounding a map changes no pause: what goes was active, and so is a new entry.
LEMMA EvictionKeepsPauses ==
  ASSUME NEW map, NEW V \in Victims(map), NEW fresh, ~Paused(fresh)
  PROVE  \A x \in DOMAIN map : Paused(Without(map, V, fresh)[x]) <=> Paused(map[x])
<1>1. \A v \in V : v \in DOMAIN map => ~Paused(map[v])
  BY DEF Victims, Paused
<1> QED
  BY <1>1 DEF Without

\* The UTC day may end a pause of a key, and makes none.
LEMMA NewDayMakesNoPause ==
  ASSUME TypeOK, NEW k \in Keys
  PROVE  Paused(KeyOf(k)) => Paused(keys[k])
<1> DEFINE ks == keys[k]
           old == [ks EXCEPT !.tracked = TRUE, !.lastSeen = now,
                             !.day = IF ks.tracked THEN @ ELSE today]
           rolled == [old EXCEPT !.day = today, !.dayCalls = 0, !.daySpend = 0,
                                 !.inflight = 0,
                                 !.paused = IF @ = "day" THEN "no" ELSE @]
<1>1. ks \in KeyState /\ k # NoKey
  BY IdsAssumption DEF TypeOK
<1>2. KeyOf(k) = IF today > old.day THEN rolled ELSE old
  BY <1>1 DEF KeyOf, KeyLocked
<1> HIDE DEF ks
<1>3. old.paused = ks.paused
  BY <1>1 DEF KeyState
<1>4. old.paused = "no" => rolled.paused = "no"
  BY <1>1 DEF KeyState
<1> HIDE DEF old, rolled
<1> QED
  BY <1>2, <1>3, <1>4 DEF Paused, ks

\* The entries r and k become st and ks, as far as pauses go, and no other
\* entry is paused or resumed.
Become(r, st, k, ks) ==
  /\ \A x \in Runs : Paused(runs'[x]) <=> Paused(IF x = r THEN st ELSE runs[x])
  /\ \A x \in Keys : Paused(keys'[x]) <=> Paused(IF x = k THEN ks ELSE keys[x])

LEMMA StoppedAfter ==
  ASSUME NEW r \in Runs \cup {NoRun}, NEW k \in Keys \cup {NoKey}, NEW st, NEW ks,
         Become(r, st, k, ks)
  PROVE  /\ r \in StoppedIds' <=> r \in Runs /\ Paused(st)
         /\ k \in StoppedIds' <=> k \in Keys /\ Paused(ks)
         /\ \A x : x \notin {r, k} => (x \in StoppedIds' <=> x \in StoppedIds)
<1>1. \A x : x \in StoppedIds <=> \/ x \in Runs /\ Paused(runs[x])
                                  \/ x \in Keys /\ Paused(keys[x])
  BY DEF StoppedIds, Paused
<1>2. \A x : x \in StoppedIds' <=> \/ x \in Runs /\ Paused(runs'[x])
                                   \/ x \in Keys /\ Paused(keys'[x])
  BY DEF StoppedIds, Paused
<1> QED
  BY <1>1, <1>2, IdsAssumption DEF Become

\* The step stops what it names or leaves it as it was, but for a key whose
\* day may have ended.
LEMMA StopsReached ==
  ASSUME NEW r \in Runs \cup {NoRun}, NEW k \in Keys \cup {NoKey}, NEW st, NEW ks,
         Become(r, st, k, ks), r \in Runs => (Paused(runs[r]) => Paused(st))
  PROVE  StoppedIds' \in B!Stops(r, k)
<1>1. /\ r \in StoppedIds' <=> r \in Runs /\ Paused(st)
      /\ k \in StoppedIds' <=> k \in Keys /\ Paused(ks)
      /\ \A x : x \notin {r, k} => (x \in StoppedIds' <=> x \in StoppedIds)
  BY StoppedAfter
<1>2. r \in StoppedIds => r \in StoppedIds' \/ r = k
  BY <1>1, IdsAssumption DEF StoppedIds, Paused
<1>3. StoppedIds' \subseteq StoppedIds \cup ({r, k} \ {NoRun, NoKey})
  BY <1>1, IdsAssumption
<1>4. StoppedIds \ {k} \subseteq StoppedIds'
  BY <1>1, <1>2
<1> QED
  BY <1>3, <1>4 DEF B!Stops

\* A step that pauses nothing leaves the stops, less perhaps the key whose day
\* has ended.
LEMMA StopsKept ==
  ASSUME NEW r \in Runs \cup {NoRun}, NEW k \in Keys \cup {NoKey}, NEW st, NEW ks,
         Become(r, st, k, ks),
         r \in Runs => (Paused(runs[r]) <=> Paused(st)),
         k \in Keys => (Paused(ks) => Paused(keys[k]))
  PROVE  StoppedIds' \in {StoppedIds, StoppedIds \ {k}}
<1>1. /\ r \in StoppedIds' <=> r \in Runs /\ Paused(st)
      /\ k \in StoppedIds' <=> k \in Keys /\ Paused(ks)
      /\ \A x : x \notin {r, k} => (x \in StoppedIds' <=> x \in StoppedIds)
  BY StoppedAfter
<1>2. r \in StoppedIds <=> r \in Runs /\ Paused(st)
  BY IdsAssumption DEF StoppedIds, Paused
<1>3. k \in StoppedIds' => k \in StoppedIds
  BY <1>1, IdsAssumption DEF StoppedIds, Paused
<1>4. \A x : x # k => (x \in StoppedIds' <=> x \in StoppedIds)
  BY <1>1, <1>2
<1> QED
  BY <1>3, <1>4

-----------------------------------------------------------------------------
(* Which calls are out after a step. *)

LEMMA CallsTakeOff ==
  ASSUME TypeOK, NEW c \in Calls, calls[c].phase = "idle", NEW r, NEW k,
         calls' = [calls EXCEPT ![c] = [phase |-> "flying", run |-> r, key |-> k]]
  PROVE  CallsOut' = CallsOut \cup {<<c, r, k>>} /\ Decided' = Decided \cup {c} /\ c \notin Decided
<1>1. \A d \in Calls : calls'[d] = IF d = c THEN [phase |-> "flying", run |-> r, key |-> k]
                                   ELSE calls[d]
  BY DEF TypeOK
<1>2. /\ calls'[c].phase = "flying" /\ calls'[c].run = r /\ calls'[c].key = k
      /\ \A d \in Calls \ {c} : calls'[d] = calls[d]
  BY <1>1
<1>3. CallsOut' = CallsOut \cup {<<c, r, k>>}
  BY <1>2 DEF CallsOut
<1>4. Decided' = Decided \cup {c} /\ c \notin Decided
  BY <1>2 DEF Decided
<1> QED
  BY <1>3, <1>4

LEMMA CallsLand ==
  ASSUME TypeOK, NEW c \in Calls,
         calls' = [calls EXCEPT ![c] = [Idle EXCEPT !.phase = "done"]]
  PROVE  /\ calls[c].phase = "flying" =>
              /\ <<c, calls[c].run, calls[c].key>> \in CallsOut
              /\ CallsOut' = CallsOut \ {<<c, calls[c].run, calls[c].key>>}
              /\ Decided' = Decided
         /\ calls[c].phase = "idle" =>
              CallsOut' = CallsOut /\ Decided' = Decided \cup {c} /\ c \notin Decided
<1>1. /\ calls'[c].phase = "done"
      /\ \A d \in Calls \ {c} : calls'[d] = calls[d]
  BY DEF TypeOK, Idle
<1>2. CASE calls[c].phase = "flying"
  <2>1. CallsOut' = CallsOut \ {<<c, calls[c].run, calls[c].key>>}
    BY <1>1, <1>2 DEF CallsOut
  <2> QED
    BY <1>1, <1>2, <2>1 DEF CallsOut, Decided
<1>3. CASE calls[c].phase = "idle"
  BY <1>1, <1>3 DEF CallsOut, Decided
<1> QED
  BY <1>2, <1>3

-----------------------------------------------------------------------------
(* How each method leaves the pauses. *)

\* A cap that is met pauses its entry, and the reservation changes no pause.
LEMMA RunPauseFor ==
  ASSUME NEW st \in RunState, NEW hit \in RunPauses
  PROVE  /\ PauseFor(st, hit).paused = IF hit = "no" THEN st.paused ELSE hit
         /\ Reserve(PauseFor(st, hit)).paused = PauseFor(st, hit).paused
         /\ PauseFor(st, hit) \in RunState /\ Reserve(PauseFor(st, hit)) \in RunState
<1> DEFINE p == PauseFor(st, hit)
<1>1. p \in RunState /\ p.paused = IF hit = "no" THEN st.paused ELSE hit
  BY DEF PauseFor, RunState
<1> HIDE DEF p
<1>2. Reserve(p) \in RunState /\ Reserve(p).paused = p.paused
  BY <1>1 DEF Reserve, RunState
<1> QED
  BY <1>1, <1>2 DEF p

LEMMA KeyPauseFor ==
  ASSUME NEW ks \in KeyState, NEW hit \in KeyPauses
  PROVE  /\ PauseFor(ks, hit).paused = IF hit = "no" THEN ks.paused ELSE hit
         /\ Reserve(PauseFor(ks, hit)).paused = PauseFor(ks, hit).paused
         /\ PauseFor(ks, hit) \in KeyState /\ Reserve(PauseFor(ks, hit)) \in KeyState
<1> DEFINE p == PauseFor(ks, hit)
<1>1. p \in KeyState /\ p.paused = IF hit = "no" THEN ks.paused ELSE hit
  BY DEF PauseFor, KeyState
<1> HIDE DEF p
<1>2. Reserve(p) \in KeyState /\ Reserve(p).paused = p.paused
  BY <1>1 DEF Reserve, KeyState
<1> QED
  BY <1>1, <1>2 DEF p

\* One entry of each map replaced and the maps bounded: the rest keep their
\* pauses, whatever goes.
LEMMA RunBecomes ==
  ASSUME TypeOK, NEW r \in Runs \cup {NoRun}, NEW st \in RunState,
         NEW V \in Victims(WithRun(r, st)) \cup {{}},
         runs' = Without(WithRun(r, st), V, NewRun)
  PROVE  \A x \in Runs : Paused(runs'[x]) <=> Paused(IF x = r THEN st ELSE runs[x])
<1> DEFINE map == WithRun(r, st)
<1>1. DOMAIN map = Runs /\ \A x \in Runs : map[x] = IF x = r THEN st ELSE runs[x]
  BY WithRunFields
<1>2. ~Paused(NewRun)
  BY DEF Paused, NewRun
<1>3. \A x \in DOMAIN map : Paused(Without(map, V, NewRun)[x]) <=> Paused(map[x])
  <2> HIDE DEF map
  <2>1. CASE V = {}
    BY <2>1 DEF Without
  <2>2. CASE V \in Victims(map)
    BY <2>2, <1>2, EvictionKeepsPauses
  <2> QED
    BY <2>1, <2>2 DEF map
<1> QED
  BY <1>1, <1>3

LEMMA KeyBecomes ==
  ASSUME TypeOK, NEW k \in Keys \cup {NoKey}, NEW ks \in KeyState,
         NEW V \in Victims(WithKey(k, ks)) \cup {{}},
         keys' = Without(WithKey(k, ks), V, NewKey)
  PROVE  \A x \in Keys : Paused(keys'[x]) <=> Paused(IF x = k THEN ks ELSE keys[x])
<1> DEFINE map == WithKey(k, ks)
<1>1. DOMAIN map = Keys /\ \A x \in Keys : map[x] = IF x = k THEN ks ELSE keys[x]
  BY WithKeyFields
<1>2. ~Paused(NewKey)
  BY DEF Paused, NewKey
<1>3. \A x \in DOMAIN map : Paused(Without(map, V, NewKey)[x]) <=> Paused(map[x])
  <2> HIDE DEF map
  <2>1. CASE V = {}
    BY <2>1 DEF Without
  <2>2. CASE V \in Victims(map)
    BY <2>2, <1>2, EvictionKeepsPauses
  <2> QED
    BY <2>1, <2>2 DEF map
<1> QED
  BY <1>1, <1>3

\* The empty set of victims leaves the map as it is.
LEMMA NoVictims ==
  ASSUME NEW map, NEW fresh, map = [x \in DOMAIN map |-> map[x]]
  PROVE  Without(map, {}, fresh) = map
BY DEF Without

\* A call let through stops what its caps stop.
LEMMA LetThroughBecomes ==
  ASSUME TypeOK, NEW c \in Calls,
         NEW r \in Runs \cup {NoRun}, NEW k \in Keys \cup {NoKey},
         NEW runHit \in RunPauses, NEW keyHit \in KeyPauses, NEW u \in BOOLEAN,
         LetThrough(c, r, k, runHit, keyHit, u)
  PROVE  Become(r, PauseFor(RunOf(r), runHit), k, PauseFor(KeyOf(k), keyHit))
<1> DEFINE st == Reserve(PauseFor(RunOf(r), runHit))
           ks == Reserve(PauseFor(KeyOf(k), keyHit))
<1>1. /\ st \in RunState /\ st.paused = PauseFor(RunOf(r), runHit).paused
      /\ ks \in KeyState /\ ks.paused = PauseFor(KeyOf(k), keyHit).paused
  BY RunOfFields, KeyOfFields, RunPauseFor, KeyPauseFor
<1>2. runs' = WithRun(r, st)
  BY DEF LetThrough
<1>3. PICK V \in Victims(WithKey(k, ks)) \cup {{}} : keys' = Without(WithKey(k, ks), V, NewKey)
  BY DEF LetThrough
<1> HIDE DEF st, ks
<1>4. \A x \in Runs : runs'[x] = IF x = r THEN st ELSE runs[x]
  BY <1>1, <1>2, WithRunFields
<1>5. \A x \in Keys : Paused(keys'[x]) <=> Paused(IF x = k THEN ks ELSE keys[x])
  BY <1>1, <1>3, KeyBecomes
<1> QED
  BY <1>1, <1>4, <1>5 DEF Become, Paused

-----------------------------------------------------------------------------
(* Each admission is one the interface allows. *)

\* A paused run stays paused when its caps are asked, and an entry no cap
\* pauses is as paused as it was, but for the day of a key.
LEMMA HitsKeepPauses ==
  ASSUME TypeOK, NEW r \in Runs \cup {NoRun}, NEW k \in Keys \cup {NoKey},
         NEW runHit \in RunPauses, NEW keyHit \in KeyPauses
  PROVE  /\ r \in Runs => (Paused(runs[r]) => Paused(PauseFor(RunOf(r), runHit)))
         /\ runHit = "no" => /\ Paused(PauseFor(RunOf(r), runHit)) <=> Paused(RunOf(r))
                             /\ r \in Runs => (Paused(runs[r]) <=> Paused(PauseFor(RunOf(r), runHit)))
         /\ keyHit = "no" => /\ Paused(PauseFor(KeyOf(k), keyHit)) <=> Paused(KeyOf(k))
                             /\ k \in Keys => (Paused(PauseFor(KeyOf(k), keyHit)) => Paused(keys[k]))
<1>1. /\ RunOf(r) \in RunState /\ KeyOf(k) \in KeyState
      /\ r \in Runs => RunOf(r).paused = runs[r].paused
  BY RunOfFields, KeyOfFields
<1>2. /\ PauseFor(RunOf(r), runHit).paused = IF runHit = "no" THEN RunOf(r).paused ELSE runHit
      /\ PauseFor(KeyOf(k), keyHit).paused = IF keyHit = "no" THEN KeyOf(k).paused ELSE keyHit
  BY <1>1, RunPauseFor, KeyPauseFor
<1>3. k \in Keys => (Paused(KeyOf(k)) => Paused(keys[k]))
  BY NewDayMakesNoPause
<1> QED
  BY <1>1, <1>2, <1>3 DEF Paused

LEMMA ServedAllowed ==
  ASSUME TypeOK, NEW c \in Calls, NEW r \in Runs \cup {NoRun}, NEW k \in Keys \cup {NoKey},
         AdmitServed(c, r, k)
  PROVE  B!Admit(c, r, k)
<1> DEFINE st == PauseFor(RunOf(r), "no")
           ks == PauseFor(KeyOf(k), "no")
<1>1. "no" \in RunPauses /\ "no" \in KeyPauses
  BY DEF RunPauses, KeyPauses
<1>2. Become(r, st, k, ks)
  BY <1>1, LetThroughBecomes DEF AdmitServed
<1>3. /\ Paused(st) <=> Paused(RunOf(r))
      /\ r \in Runs => (Paused(runs[r]) <=> Paused(st))
      /\ Paused(ks) <=> Paused(KeyOf(k))
      /\ k \in Keys => (Paused(ks) => Paused(keys[k]))
  BY <1>1, HitsKeepPauses
<1>4. ~Paused(RunOf(r)) /\ ~Paused(KeyOf(k))
  BY DEF AdmitServed, Stopped, Held, Paused
<1> HIDE DEF st, ks
<1>5. StoppedIds' \in {StoppedIds, StoppedIds \ {k}}
  BY <1>2, <1>3, StopsKept
<1>6. {r, k} \cap StoppedIds' = {}
  BY <1>2, <1>3, <1>4, StoppedAfter
<1>7. calls[c].phase = "idle" /\ ~killed /\ UNCHANGED killed
  BY DEF AdmitServed, LetThrough
<1>8. CallsOut' = CallsOut \cup {<<c, r, k>>} /\ Decided' = Decided \cup {c} /\ c \notin Decided
  BY <1>7, CallsTakeOff DEF AdmitServed, LetThrough
<1> QED
  BY <1>5, <1>6, <1>7, <1>8 DEF B!Admit

LEMMA ForcedAllowed ==
  ASSUME TypeOK, NEW c \in Calls, NEW r \in Runs \cup {NoRun}, NEW k \in Keys \cup {NoKey},
         AdmitForced(c, r, k)
  PROVE  B!Admit(c, r, k)
<1> DEFINE st == PauseFor(RunOf(r), "no")
           ks == PauseFor(KeyOf(k), "no")
<1>1. "no" \in RunPauses /\ "no" \in KeyPauses
  BY DEF RunPauses, KeyPauses
<1>2. Become(r, st, k, ks)
  BY <1>1, LetThroughBecomes DEF AdmitForced
<1>3. /\ r \in Runs => (Paused(runs[r]) <=> Paused(st))
      /\ k \in Keys => (Paused(ks) => Paused(keys[k]))
  BY <1>1, HitsKeepPauses
<1> HIDE DEF st, ks
<1>4. StoppedIds' \in {StoppedIds, StoppedIds \ {k}}
  BY <1>2, <1>3, StopsKept
<1>5. calls[c].phase = "idle" /\ ~killed /\ BypassAllowed /\ UNCHANGED killed
  BY DEF AdmitForced, LetThrough
<1>6. CallsOut' = CallsOut \cup {<<c, r, k>>} /\ Decided' = Decided \cup {c} /\ c \notin Decided
  BY <1>5, CallsTakeOff DEF AdmitForced, LetThrough
<1> QED
  BY <1>4, <1>5, <1>6 DEF B!Admit

\* What the caps answer is a reason to pause, or none.
LEMMA HitTypes ==
  ASSUME NEW r, NEW k
  PROVE  RunHit(r, k) \in RunPauses /\ KeyHit(r, k) \in KeyPauses
BY CapsNamePauses DEF RunHit, KeyHit, RunPauses, KeyPauses

LEMMA ShadowAllowed ==
  ASSUME TypeOK, NEW c \in Calls, NEW r \in Runs \cup {NoRun}, NEW k \in Keys \cup {NoKey},
         AdmitShadow(c, r, k)
  PROVE  B!Admit(c, r, k)
<1> DEFINE st == PauseFor(RunOf(r), RunHit(r, k))
           ks == PauseFor(KeyOf(k), KeyHit(r, k))
<1>1. RunHit(r, k) \in RunPauses /\ KeyHit(r, k) \in KeyPauses
  BY HitTypes
<1>2. Become(r, st, k, ks)
  BY <1>1, LetThroughBecomes DEF AdmitShadow
<1>3. r \in Runs => (Paused(runs[r]) => Paused(st))
  BY <1>1, HitsKeepPauses
<1> HIDE DEF st, ks
<1>4. StoppedIds' \in B!Stops(r, k)
  BY <1>2, <1>3, StopsReached
<1>5. calls[c].phase = "idle" /\ ~killed /\ Shadow /\ UNCHANGED killed
  BY DEF AdmitShadow, LetThrough
<1>6. CallsOut' = CallsOut \cup {<<c, r, k>>} /\ Decided' = Decided \cup {c} /\ c \notin Decided
  BY <1>5, CallsTakeOff DEF AdmitShadow, LetThrough
<1> QED
  BY <1>4, <1>5, <1>6 DEF B!Admit

\* A refusal leaves a stop standing: the one that was found, or the one the
\* cap made.
LEMMA RefusedAllowed ==
  ASSUME TypeOK, NEW c \in Calls, NEW r \in Runs \cup {NoRun}, NEW k \in Keys \cup {NoKey},
         AdmitRefused(c, r, k)
  PROVE  B!Refuse(c, r, k)
<1> DEFINE st == PauseFor(RunOf(r), RunHit(r, k))
           ks == PauseFor(KeyOf(k), KeyHit(r, k))
<1>1. RunHit(r, k) \in RunPauses /\ KeyHit(r, k) \in KeyPauses
  BY HitTypes
<1>2. /\ st \in RunState /\ ks \in KeyState
      /\ st.paused = IF RunHit(r, k) = "no" THEN RunOf(r).paused ELSE RunHit(r, k)
      /\ ks.paused = IF KeyHit(r, k) = "no" THEN KeyOf(k).paused ELSE KeyHit(r, k)
  BY <1>1, RunOfFields, KeyOfFields, RunPauseFor, KeyPauseFor
<1>3. runs' = WithRun(r, st) /\ keys' = WithKey(k, ks)
  BY DEF AdmitRefused
<1>4. r \in Runs => (Paused(runs[r]) => Paused(st))
  BY <1>1, HitsKeepPauses
<1>5. (r \in Runs /\ Paused(st)) \/ (k \in Keys /\ Paused(ks))
  <2>1. Held(r, k) \/ KeyHit(r, k) # "no" \/ RunHit(r, k) # "no"
    BY DEF AdmitRefused, Stopped
  <2>2. r \notin Runs => RunOf(r).paused = "no" /\ RunHit(r, k) = "no"
    BY DEF RunOf, RunHit, NewRun
  <2>3. k \notin Keys => KeyOf(k).paused = "no" /\ KeyHit(r, k) = "no"
    BY DEF KeyOf, KeyHit, NewKey
  <2>4. RunOf(r).paused # "no" \/ RunHit(r, k) # "no" => r \in Runs /\ st.paused # "no"
    BY <2>2, <1>2
  <2>5. KeyOf(k).paused # "no" \/ KeyHit(r, k) # "no" => k \in Keys /\ ks.paused # "no"
    BY <2>3, <1>2
  <2> QED
    BY <2>1, <2>4, <2>5 DEF Paused, Held
<1> HIDE DEF st, ks
<1>6. Become(r, st, k, ks)
  <2>1. \A x \in Runs : runs'[x] = IF x = r THEN st ELSE runs[x]
    BY <1>2, <1>3, WithRunFields
  <2>2. \A x \in Keys : keys'[x] = IF x = k THEN ks ELSE keys[x]
    BY <1>2, <1>3, WithKeyFields
  <2> QED
    BY <2>1, <2>2 DEF Become
<1>7. StoppedIds' \in B!Stops(r, k)
  BY <1>6, <1>4, StopsReached
<1>8. {r, k} \cap StoppedIds' # {}
  BY <1>5, <1>6, StoppedAfter
<1>9. calls[c].phase = "idle" /\ ~killed /\ ~Shadow /\ UNCHANGED killed
  BY DEF AdmitRefused
<1>10. CallsOut' = CallsOut /\ Decided' = Decided \cup {c} /\ c \notin Decided
  BY <1>9, CallsLand DEF AdmitRefused
<1> QED
  BY <1>7, <1>8, <1>9, <1>10 DEF B!Refuse

\* The kill switch refuses and touches nothing else.
LEMMA KilledAllowed ==
  ASSUME TypeOK, NEW c \in Calls, AdmitKilled(c)
  PROVE  B!Refuse(c, NoRun, NoKey)
<1>1. calls[c].phase = "idle" /\ killed /\ UNCHANGED killed
  BY DEF AdmitKilled
<1>2. StoppedIds' = StoppedIds
  BY DEF AdmitKilled, StoppedIds
<1>3. CallsOut' = CallsOut /\ Decided' = Decided \cup {c} /\ c \notin Decided
  BY <1>1, CallsLand DEF AdmitKilled
<1> QED
  BY <1>1, <1>2, <1>3 DEF B!Refuse

-----------------------------------------------------------------------------
(* The end of an admitted call. *)

LEMMA CallNames ==
  ASSUME TypeOK, NEW c \in Calls
  PROVE  calls[c].run \in Runs \cup {NoRun} /\ calls[c].key \in Keys \cup {NoKey}
BY DEF TypeOK

LEMMA RecordAllowed ==
  ASSUME TypeOK, NEW c \in Calls, NEW cost \in Costs, NEW l \in BOOLEAN, Record(c, cost, l)
  PROVE  B!Settle(c, calls[c].run, calls[c].key)
<1> DEFINE r  == calls[c].run
           k  == calls[c].key
           st == SettleRun(RunOf(r), cost, l)
           ks == SettleKey(KeyOf(k), cost)
<1>1. r \in Runs \cup {NoRun} /\ k \in Keys \cup {NoKey} /\ cost \in Nat
  BY CallNames, CallerAssumption
<1>2. /\ calls[c].phase = "flying" /\ UNCHANGED killed
      /\ calls' = [calls EXCEPT ![c] = [Idle EXCEPT !.phase = "done"]]
  BY DEF Record
<1>3. \E VR \in Victims(WithRun(r, st)) \cup {{}} : runs' = Without(WithRun(r, st), VR, NewRun)
  BY DEF Record
<1>4. \E VK \in Victims(WithKey(k, ks)) \cup {{}} : keys' = Without(WithKey(k, ks), VK, NewKey)
  BY DEF Record
<1>5. CallsOut' = CallsOut \ {<<c, r, k>>} /\ Decided' = Decided /\ <<c, r, k>> \in CallsOut
  BY <1>2, CallsLand
<1> HIDE DEF r, k
<1>6. RunOf(r) \in RunState /\ KeyOf(k) \in KeyState /\ (r \in Runs => RunOf(r).paused = runs[r].paused)
  BY <1>1, RunOfFields, KeyOfFields
<1>7. st \in RunState /\ ks \in KeyState /\ (RunOf(r).paused # "no" => st.paused = RunOf(r).paused)
  BY <1>1, <1>6, SettleRunFields, SettleKeyFields
<1>8. r \in Runs => (Paused(runs[r]) => Paused(st))
  BY <1>6, <1>7 DEF Paused
<1> HIDE DEF st, ks
<1>9. \A x \in Runs : Paused(runs'[x]) <=> Paused(IF x = r THEN st ELSE runs[x])
  BY <1>1, <1>3, <1>7, RunBecomes
<1>10. \A x \in Keys : Paused(keys'[x]) <=> Paused(IF x = k THEN ks ELSE keys[x])
  BY <1>1, <1>4, <1>7, KeyBecomes
<1>11. StoppedIds' \in B!Stops(r, k)
  BY <1>1, <1>8, <1>9, <1>10, StopsReached DEF Become
<1>12. B!Settle(c, r, k)
  BY <1>2, <1>5, <1>11 DEF B!Settle
<1> QED
  BY <1>12 DEF r, k

\* A returned reservation changes no pause.
LEMMA ReleaseAllowed ==
  ASSUME TypeOK, NEW c \in Calls, Release(c)
  PROVE  B!Settle(c, calls[c].run, calls[c].key)
<1> DEFINE r == calls[c].run
           k == calls[c].key
<1>1. r \in Runs \cup {NoRun} /\ k \in Keys \cup {NoKey}
  BY CallNames
<1>2. /\ calls[c].phase = "flying" /\ UNCHANGED killed
      /\ calls' = [calls EXCEPT ![c] = [Idle EXCEPT !.phase = "done"]]
      /\ runs' = IF r = NoRun THEN runs ELSE [runs EXCEPT ![r] = Released(@)]
      /\ keys' = IF k = NoKey THEN keys ELSE [keys EXCEPT ![k] = Released(@)]
  BY DEF Release
<1>3. CallsOut' = CallsOut \ {<<c, r, k>>} /\ Decided' = Decided /\ <<c, r, k>> \in CallsOut
  BY <1>2, CallsLand
<1> HIDE DEF r, k
<1>4. \A x \in Runs : Released(runs[x]).paused = runs[x].paused
  BY DEF Released, TypeOK, RunState
<1>5. \A x \in Keys : Released(keys[x]).paused = keys[x].paused
  BY DEF Released, TypeOK, KeyState
<1>6. \A x \in Runs : runs'[x].paused = runs[x].paused
  BY <1>1, <1>2, <1>4 DEF TypeOK
<1>7. \A x \in Keys : keys'[x].paused = keys[x].paused
  BY <1>1, <1>2, <1>5 DEF TypeOK
<1>8. StoppedIds' = StoppedIds
  BY <1>6, <1>7 DEF StoppedIds
<1>9. StoppedIds \in B!Stops(r, k)
  BY DEF B!Stops
<1>10. B!Settle(c, r, k)
  BY <1>2, <1>3, <1>8, <1>9 DEF B!Settle
<1> QED
  BY <1>10 DEF r, k

-----------------------------------------------------------------------------
(* The other methods. *)

\* The run half alone, and the key half alone.
LEMMA RunChanges ==
  ASSUME TypeOK, NEW r \in Runs, NEW st,
         \A x \in Runs : Paused(runs'[x]) <=> Paused(IF x = r THEN st ELSE runs[x]),
         keys' = keys
  PROVE  StoppedIds' = IF Paused(st) THEN StoppedIds \cup {r} ELSE StoppedIds \ {r}
<1>1. Become(r, st, NoKey, NewKey)
  BY IdsAssumption DEF Become
<1>2. /\ r \in StoppedIds' <=> Paused(st)
      /\ \A x : x \notin {r, NoKey} => (x \in StoppedIds' <=> x \in StoppedIds)
      /\ NoKey \notin StoppedIds'
  BY <1>1, StoppedAfter, IdsAssumption
<1>3. NoKey \notin StoppedIds
  BY IdsAssumption DEF StoppedIds
<1> QED
  BY <1>2, <1>3

LEMMA KeyChanges ==
  ASSUME TypeOK, NEW k \in Keys, NEW ks,
         \A x \in Keys : Paused(keys'[x]) <=> Paused(IF x = k THEN ks ELSE keys[x]),
         runs' = runs
  PROVE  StoppedIds' = IF Paused(ks) THEN StoppedIds \cup {k} ELSE StoppedIds \ {k}
<1>1. Become(NoRun, NewRun, k, ks)
  BY IdsAssumption DEF Become
<1>2. /\ k \in StoppedIds' <=> Paused(ks)
      /\ \A x : x \notin {k, NoRun} => (x \in StoppedIds' <=> x \in StoppedIds)
      /\ NoRun \notin StoppedIds'
  BY <1>1, StoppedAfter, IdsAssumption
<1>3. NoRun \notin StoppedIds
  BY IdsAssumption DEF StoppedIds
<1> QED
  BY <1>2, <1>3

LEMMA CallsUntouched ==
  ASSUME UNCHANGED calls
  PROVE  CallsOut' = CallsOut /\ Decided' = Decided
BY DEF CallsOut, Decided

\* A step that leaves the pauses, the calls and the kill switch is hidden
\* from the handler.
LEMMA Hidden ==
  ASSUME \A x \in Runs : Paused(runs'[x]) <=> Paused(runs[x]),
         \A x \in Keys : Paused(keys'[x]) <=> Paused(keys[x]),
         UNCHANGED <<calls, killed>>
  PROVE  UNCHANGED B!budgetVars
<1>1. StoppedIds' = StoppedIds
  BY DEF StoppedIds, Paused
<1> QED
  BY <1>1, CallsUntouched DEF B!budgetVars

\* A cap a caller sets makes or changes the entry of its run, and bounds the map.
LEMMA CapEntry ==
  ASSUME TypeOK, NEW r \in Runs, NEW cap \in RequestCaps, SetRunCap(r, cap)
  PROVE  \E st \in RunState :
           /\ st.paused = runs[r].paused
           /\ st.tracked = RunOf(r).tracked /\ st.lastSeen = RunOf(r).lastSeen
           /\ \E V \in Victims(WithRun(r, st)) : runs' = Without(WithRun(r, st), V, NewRun)
<1> DEFINE seen == SeenRun(runs[r], now)
           st == [seen EXCEPT !.maxSpend = cap]
<1>1. runs[r] \in RunState /\ now \in Nat /\ cap \in Nat /\ r # NoRun
  BY CallerAssumption, IdsAssumption DEF TypeOK
<1>2. seen \in RunState /\ seen.paused = runs[r].paused
  BY <1>1 DEF SeenRun, RunState
<1>3. [runs EXCEPT ![r] = [SeenRun(@, now) EXCEPT !.maxSpend = cap]] = WithRun(r, st)
  BY <1>1 DEF WithRun, TypeOK
<1>4. seen = RunOf(r)
  BY <1>1 DEF RunOf
<1>5. \E V \in Victims(WithRun(r, st)) : runs' = Without(WithRun(r, st), V, NewRun)
  BY <1>3 DEF SetRunCap
<1> HIDE DEF seen
<1>6. /\ st \in RunState /\ st.paused = runs[r].paused
      /\ st.tracked = seen.tracked /\ st.lastSeen = seen.lastSeen
  BY <1>1, <1>2 DEF RunState
<1> QED
  BY <1>4, <1>5, <1>6

LEMMA RunStepAllowed ==
  ASSUME TypeOK, NEW r \in Runs, RunStep(r)
  PROVE  B!Resume(r) \/ B!Mark(r) \/ UNCHANGED B!budgetVars
<1>1. CASE NoteRun(r)
  <2>1. \A x \in Runs : runs'[x].paused = runs[x].paused
    BY <1>1 DEF NoteRun, TypeOK, RunState
  <2> QED
    BY <1>1, <2>1, Hidden DEF NoteRun, Paused
<1>2. ASSUME NEW cap \in RequestCaps, SetRunCap(r, cap) PROVE UNCHANGED B!budgetVars
  <2>1. PICK st \in RunState : /\ st.paused = runs[r].paused
                               /\ \E V \in Victims(WithRun(r, st)) : runs' = Without(WithRun(r, st), V, NewRun)
    BY <1>2, CapEntry
  <2>2. \A x \in Runs : Paused(runs'[x]) <=> Paused(IF x = r THEN st ELSE runs[x])
    BY <2>1, RunBecomes
  <2>3. \A x \in Runs : Paused(runs'[x]) <=> Paused(runs[x])
    BY <2>1, <2>2 DEF Paused
  <2> QED
    BY <1>2, <2>3, Hidden DEF SetRunCap
<1>3. CASE ResumeRun(r)
  <2> DEFINE st == ResumedRun(runs[r])
  <2>1. st.paused = "no"
    BY DEF ResumedRun, TypeOK, RunState
  <2>2. \A x \in Runs : runs'[x] = IF x = r THEN st ELSE runs[x]
    BY <1>3 DEF ResumeRun, TypeOK
  <2> HIDE DEF st
  <2>3. StoppedIds' = StoppedIds \ {r}
    BY <1>3, <2>1, <2>2, RunChanges DEF ResumeRun, Paused
  <2>4. r \in StoppedIds
    BY <1>3 DEF ResumeRun, StoppedIds
  <2> QED
    BY <1>3, <2>3, <2>4, CallsUntouched DEF ResumeRun, B!Resume
<1>4. ASSUME NEW reason \in RunPauses \ {"no"}, MarkPaused(r, reason) PROVE B!Mark(r)
  <2> DEFINE st == [[runs[r] EXCEPT !.tracked = TRUE] EXCEPT !.paused = reason]
  <2>1. st.paused = reason
    BY DEF TypeOK, RunState
  <2>2. runs' = [runs EXCEPT ![r] = st]
    BY <1>4 DEF MarkPaused, TypeOK
  <2> HIDE DEF st
  <2>3. \A x \in Runs : runs'[x] = IF x = r THEN st ELSE runs[x]
    BY <2>2 DEF TypeOK
  <2>4. StoppedIds' = StoppedIds \cup {r}
    <3>1. keys' = keys
      BY <1>4 DEF MarkPaused
    <3>2. Paused(st)
      BY <2>1 DEF Paused
    <3> QED
      BY <2>3, <3>1, <3>2, RunChanges
  <2> QED
    BY <1>4, <2>4, CallsUntouched DEF MarkPaused, B!Mark
<1> QED
  BY <1>1, <1>2, <1>3, <1>4 DEF RunStep

LEMMA KeyStepAllowed ==
  ASSUME TypeOK, NEW k \in Keys, KeyStep(k)
  PROVE  B!Note(k) \/ B!Resume(k) \/ B!Mark(k)
<1>1. CASE NoteKey(k)
  <2>1. KeyOf(k) \in KeyState
    BY KeyOfFields
  <2>2. PICK V \in Victims(WithKey(k, KeyOf(k))) : keys' = Without(WithKey(k, KeyOf(k)), V, NewKey)
    BY <1>1 DEF NoteKey
  <2>3. \A x \in Keys : Paused(keys'[x]) <=> Paused(IF x = k THEN KeyOf(k) ELSE keys[x])
    BY <2>1, <2>2, KeyBecomes
  <2>4. StoppedIds' = IF Paused(KeyOf(k)) THEN StoppedIds \cup {k} ELSE StoppedIds \ {k}
    BY <1>1, <2>3, KeyChanges DEF NoteKey
  <2>5. Paused(KeyOf(k)) => k \in StoppedIds
    BY NewDayMakesNoPause DEF StoppedIds, Paused
  <2>6. StoppedIds' \in {StoppedIds, StoppedIds \ {k}}
    BY <2>4, <2>5
  <2> QED
    BY <1>1, <2>6, CallsUntouched DEF NoteKey, B!Note
<1>2. CASE ResumeKey(k)
  <2> DEFINE ks == ResumedKey(keys[k])
  <2>1. ks.paused = "no"
    BY ResumedKeyFields DEF TypeOK
  <2>2. \A x \in Keys : keys'[x] = IF x = k THEN ks ELSE keys[x]
    BY <1>2 DEF ResumeKey, TypeOK
  <2> HIDE DEF ks
  <2>3. StoppedIds' = StoppedIds \ {k}
    BY <1>2, <2>1, <2>2, KeyChanges DEF ResumeKey, Paused
  <2>4. k \in StoppedIds
    BY <1>2 DEF ResumeKey, StoppedIds
  <2> QED
    BY <1>2, <2>3, <2>4, CallsUntouched DEF ResumeKey, B!Resume
<1>3. ASSUME NEW reason \in KeyPauses \ {"no"}, MarkKeyPaused(k, reason) PROVE B!Mark(k)
  <2> DEFINE ks == [KeyLocked(keys[k], now, today) EXCEPT !.paused = reason]
  <2>1. KeyLocked(keys[k], now, today) \in KeyState
    BY KeyLockedFields DEF TypeOK
  <2>2. ks.paused = reason
    BY <2>1 DEF KeyState
  <2>3. keys' = [keys EXCEPT ![k] = ks]
    BY <1>3 DEF MarkKeyPaused, TypeOK
  <2> HIDE DEF ks
  <2>4. \A x \in Keys : keys'[x] = IF x = k THEN ks ELSE keys[x]
    BY <2>3 DEF TypeOK
  <2>5. StoppedIds' = StoppedIds \cup {k}
    BY <1>3, <2>2, <2>4, KeyChanges DEF MarkKeyPaused, Paused
  <2> QED
    BY <1>3, <2>5, CallsUntouched DEF MarkKeyPaused, B!Mark
<1> QED
  BY <1>1, <1>2, <1>3 DEF KeyStep

LEMMA CallStepAllowed ==
  ASSUME TypeOK, NEW c \in Calls, CallStep(c)
  PROVE  \E r \in Runs \cup {NoRun}, k \in Keys \cup {NoKey} :
           B!Admit(c, r, k) \/ B!Refuse(c, r, k) \/ B!Settle(c, r, k)
<1>1. ASSUME NEW r \in Runs \cup {NoRun}, NEW k \in Keys \cup {NoKey},
             AdmitServed(c, r, k) \/ AdmitForced(c, r, k) \/ AdmitShadow(c, r, k) \/ AdmitRefused(c, r, k)
      PROVE  B!Admit(c, r, k) \/ B!Refuse(c, r, k)
  BY <1>1, ServedAllowed, ForcedAllowed, ShadowAllowed, RefusedAllowed
<1>2. CASE AdmitKilled(c)
  BY <1>2, KilledAllowed
<1>3. ASSUME NEW cost \in Costs, NEW l \in BOOLEAN, Record(c, cost, l)
      PROVE  B!Settle(c, calls[c].run, calls[c].key)
  BY <1>3, RecordAllowed
<1>4. CASE Release(c)
  BY <1>4, ReleaseAllowed, CallNames
<1> QED
  BY <1>1, <1>2, <1>3, <1>4, CallNames DEF CallStep

LEMMA InitAllowed == Init => B!BudgetInit
<1> SUFFICES ASSUME Init PROVE B!BudgetInit
  OBVIOUS
<1>1. StoppedIds = {}
  BY DEF Init, StoppedIds, NewRun, NewKey
<1>2. CallsOut = {} /\ Decided = {}
  BY DEF Init, CallsOut, Decided, Idle
<1> QED
  BY <1>1, <1>2 DEF Init, B!BudgetInit

LEMMA StepAllowed == TypeOK /\ [Next]_vars => [B!BudgetNext]_B!budgetVars
<1> SUFFICES ASSUME TypeOK, [Next]_vars PROVE B!BudgetNext \/ UNCHANGED B!budgetVars
  BY DEF B!BudgetNext, B!budgetVars
<1>1. ASSUME NEW c \in Calls, CallStep(c) PROVE B!BudgetNext
  BY <1>1, CallStepAllowed DEF B!BudgetNext
<1>2. ASSUME NEW r \in Runs, RunStep(r) PROVE B!BudgetNext \/ UNCHANGED B!budgetVars
  BY <1>2, RunStepAllowed DEF B!BudgetNext
<1>3. ASSUME NEW k \in Keys, KeyStep(k) PROVE B!BudgetNext
  BY <1>3, KeyStepAllowed DEF B!BudgetNext
<1>4. ASSUME NEW on \in BOOLEAN, SetKilled(on) PROVE B!BudgetNext
  <2>1. StoppedIds' = StoppedIds
    BY <1>4 DEF SetKilled, StoppedIds
  <2>2. B!SetKill(on)
    BY <1>4, <2>1, CallsUntouched DEF SetKilled, B!SetKill
  <2> QED
    BY <2>2 DEF B!BudgetNext
<1>5. ASSUME Dispatch \/ Tick \/ (\E d \in 0..MaxDay : WallClock(d)) \/ UNCHANGED vars
      PROVE  UNCHANGED B!budgetVars
  <2>1. UNCHANGED <<runs, keys, calls, killed>>
    BY <1>5 DEF Dispatch, Tick, WallClock, vars
  <2> QED
    BY <2>1, Hidden
<1> QED
  BY <1>1, <1>2, <1>3, <1>4, <1>5 DEF Next

\* The in-memory controller keeps the promise of the interface budget, for
\* every set of runs, keys and calls and every policy: every step of a method
\* is a step Budget.tla allows, or one the handler cannot see (counter.go,
\* control.go).
THEOREM BudgetImplemented == Spec => ImplementsBudget
<1>1. Spec => B!BudgetSpec
  BY InitAllowed, StepAllowed, TypeCorrect, PTL DEF Spec, B!BudgetSpec
<1> QED
  BY <1>1 DEF ImplementsBudget

-----------------------------------------------------------------------------
(* The entry of a key that a method works on. *)

\* What may come of key k's entry: its pause stands unless its day has ended,
\* its tallies grow unless its day has ended, its day never goes back.
KeyPauseHolds(k, ks) ==
  keys[k].paused # "no" =>
    \/ ks.paused = keys[k].paused
    \/ keys[k].paused = "day" /\ today > keys[k].day /\ ks.day = today

KeyTallyGrows(k, ks) ==
  /\ ks.daySpend < keys[k].daySpend => today > keys[k].day
  /\ ks.lifeSpend >= keys[k].lifeSpend
  /\ keys[k].tracked => ks.day >= keys[k].day

KeyGrows(k, ks) == KeyPauseHolds(k, ks) /\ KeyTallyGrows(k, ks)

LEMMA LockedGrows ==
  ASSUME TypeOK, NEW k \in Keys
  PROVE  KeyGrows(k, KeyOf(k)) /\ KeyOf(k) \in KeyState
<1> DEFINE ks == keys[k]
           old == [ks EXCEPT !.tracked = TRUE, !.lastSeen = now,
                             !.day = IF ks.tracked THEN @ ELSE today]
           rolled == [old EXCEPT !.day = today, !.dayCalls = 0, !.daySpend = 0,
                                 !.inflight = 0,
                                 !.paused = IF @ = "day" THEN "no" ELSE @]
<1>1. ks \in KeyState /\ k # NoKey /\ now \in Nat /\ today \in Nat
  BY IdsAssumption DEF TypeOK
<1>2. KeyOf(k) = IF today > old.day THEN rolled ELSE old
  BY <1>1 DEF KeyOf, KeyLocked
<1>3. KeyOf(k) \in KeyState
  BY KeyOfFields
<1> HIDE DEF ks
<1>4. /\ old \in KeyState /\ old.paused = ks.paused
      /\ old.daySpend = ks.daySpend /\ old.lifeSpend = ks.lifeSpend
      /\ old.day = IF ks.tracked THEN ks.day ELSE today
  BY <1>1 DEF KeyState
<1> HIDE DEF old
<1>5. /\ rolled.day = today /\ rolled.lifeSpend = old.lifeSpend
      /\ rolled.paused = IF old.paused = "day" THEN "no" ELSE old.paused
  BY <1>4 DEF KeyState
<1> HIDE DEF rolled
<1>6. /\ ks.daySpend \in Nat /\ ks.lifeSpend \in Nat /\ ks.day \in Nat /\ ks.tracked \in BOOLEAN
  BY <1>1 DEF KeyState
<1>7. CASE today > old.day
  <2>1. KeyOf(k) = rolled /\ ks.tracked /\ today > ks.day
    BY <1>1, <1>2, <1>4, <1>6, <1>7
  <2> QED
    BY <1>1, <1>3, <1>4, <1>5, <1>6, <2>1 DEF KeyGrows, KeyPauseHolds, KeyTallyGrows, ks
<1>8. CASE ~(today > old.day)
  <2>1. KeyOf(k) = old
    BY <1>2, <1>8
  <2> QED
    BY <1>1, <1>3, <1>4, <1>6, <2>1 DEF KeyGrows, KeyPauseHolds, KeyTallyGrows, ks
<1> QED
  BY <1>7, <1>8

\* The pause, the day and the spends are all that KeyGrows reads.
SameTally(old, new) ==
  /\ new.day = old.day /\ new.daySpend = old.daySpend /\ new.lifeSpend = old.lifeSpend

LEMMA ReserveSameTally ==
  ASSUME NEW ks \in KeyState, NEW hit \in KeyPauses
  PROVE  /\ SameTally(ks, PauseFor(ks, hit))
         /\ SameTally(ks, Reserve(PauseFor(ks, hit)))
<1> DEFINE p == PauseFor(ks, hit)
<1>1. p \in KeyState /\ SameTally(ks, p)
  BY DEF PauseFor, KeyState, SameTally
<1> HIDE DEF p
<1>2. SameTally(p, Reserve(p))
  BY <1>1 DEF Reserve, KeyState, SameTally
<1> QED
  BY <1>1, <1>2 DEF SameTally, p

LEMMA SettleKeepsDay ==
  ASSUME NEW ks \in KeyState, NEW cost \in Nat
  PROVE  SettleKey(ks, cost).day = ks.day
<1> DEFINE new == [ks EXCEPT !.inflight = Dec(@),
                             !.dayCalls = @ + 1, !.lifeCalls = @ + 1,
                             !.daySpend = @ + cost, !.lifeSpend = @ + cost]
<1>1. new.day = ks.day /\ DOMAIN new = DOMAIN ks
  BY DEF KeyState
<1>2. SettleKey(ks, cost) = IF new.paused = "no" THEN [new EXCEPT !.paused = KeySettledCap(new)] ELSE new
  BY DEF SettleKey
<1> HIDE DEF new
<1> QED
  BY <1>1, <1>2 DEF KeyState

\* An entry whose caps were asked, and one that settled a call, grow.
LEMMA AskedGrows ==
  ASSUME TypeOK, NEW k \in Keys, NEW hit \in KeyPauses, KeyOf(k).paused # "no" => hit = "no"
  PROVE  KeyGrows(k, PauseFor(KeyOf(k), hit)) /\ KeyGrows(k, Reserve(PauseFor(KeyOf(k), hit)))
<1>1. KeyGrows(k, KeyOf(k)) /\ KeyOf(k) \in KeyState
  BY LockedGrows
<1>2. /\ SameTally(KeyOf(k), PauseFor(KeyOf(k), hit))
      /\ SameTally(KeyOf(k), Reserve(PauseFor(KeyOf(k), hit)))
  BY <1>1, ReserveSameTally
<1>3. /\ PauseFor(KeyOf(k), hit).paused = IF hit = "no" THEN KeyOf(k).paused ELSE hit
      /\ Reserve(PauseFor(KeyOf(k), hit)).paused = PauseFor(KeyOf(k), hit).paused
  BY <1>1, KeyPauseFor
<1> QED
  BY <1>1, <1>2, <1>3 DEF KeyGrows, KeyPauseHolds, KeyTallyGrows, SameTally

LEMMA SettledGrows ==
  ASSUME TypeOK, NEW k \in Keys, NEW cost \in Nat
  PROVE  KeyGrows(k, SettleKey(KeyOf(k), cost))
<1> DEFINE of == KeyOf(k)
           ks == SettleKey(of, cost)
<1>1. KeyGrows(k, of) /\ of \in KeyState
  BY LockedGrows
<1> HIDE DEF of
<1>2. /\ ks.day = of.day /\ ks.daySpend = of.daySpend + cost
      /\ ks.lifeSpend = of.lifeSpend + cost
      /\ of.paused # "no" => ks.paused = of.paused
  BY <1>1, SettleKeyFields, SettleKeepsDay
<1>3. /\ of.daySpend \in Nat /\ of.lifeSpend \in Nat
      /\ keys[k].daySpend \in Nat /\ keys[k].lifeSpend \in Nat
  BY <1>1 DEF TypeOK, KeyState
<1> HIDE DEF ks
<1>4. KeyGrows(k, ks)
  BY <1>1, <1>2, <1>3 DEF KeyGrows, KeyPauseHolds, KeyTallyGrows
<1> QED
  BY <1>4 DEF ks, of

-----------------------------------------------------------------------------
(* The keys after each step. *)

\* The entry grows, is dropped while it is not paused, or is resumed; a mark
\* made for a shared store may change the pause.
KeyFollows(x) ==
  \/ KeyTallyGrows(x, keys'[x]) /\ (KeyPauseHolds(x, keys'[x]) \/ Fallback)
  \/ /\ keys'[x] = NewKey
     /\ keys[x].paused # "no" => keys[x].paused = "day" /\ today > keys[x].day
  \/ keys'[x] = ResumedKey(keys[x]) /\ keys[x].paused # "no"

LEMMA KeptFollows ==
  ASSUME TypeOK, UNCHANGED keys
  PROVE  \A x \in Keys : KeyFollows(x)
<1>1. \A x \in Keys : keys[x].daySpend \in Nat /\ keys[x].lifeSpend \in Nat /\ keys[x].day \in Nat
  BY DEF TypeOK, KeyState
<1> QED
  BY <1>1 DEF KeyFollows, KeyPauseHolds, KeyTallyGrows

\* One entry replaced by one that grew, and the map bounded.
LEMMA ReplacedFollows ==
  ASSUME TypeOK, NEW k \in Keys \cup {NoKey}, NEW ks \in KeyState,
         k \in Keys => KeyGrows(k, ks),
         NEW V \in Victims(WithKey(k, ks)) \cup {{}},
         keys' = Without(WithKey(k, ks), V, NewKey)
  PROVE  \A x \in Keys : KeyFollows(x)
<1> SUFFICES ASSUME NEW x \in Keys PROVE KeyFollows(x)
  OBVIOUS
<1> DEFINE map == WithKey(k, ks)
<1>1. DOMAIN map = Keys /\ map[x] = IF x = k THEN ks ELSE keys[x]
  BY WithKeyFields
<1> HIDE DEF map
<1>2. keys'[x] = IF x \in V THEN NewKey ELSE map[x]
  BY <1>1 DEF Without, map
<1>3. x \in V => map[x].paused = "no"
  BY <1>1 DEF Victims, map
<1>4. keys[x].daySpend \in Nat /\ keys[x].lifeSpend \in Nat /\ keys[x].day \in Nat
  BY DEF TypeOK, KeyState
<1>5. KeyGrows(x, map[x])
  <2>1. KeyGrows(x, keys[x])
    BY <1>4 DEF KeyGrows, KeyPauseHolds, KeyTallyGrows
  <2> QED
    BY <1>1, <2>1
<1>6. CASE x \in V
  BY <1>2, <1>3, <1>5, <1>6 DEF KeyFollows, KeyGrows, KeyPauseHolds
<1>7. CASE x \notin V
  BY <1>2, <1>5, <1>7 DEF KeyFollows, KeyGrows
<1> QED
  BY <1>6, <1>7

LEMMA LetThroughFollows ==
  ASSUME TypeOK, NEW c \in Calls,
         NEW r \in Runs \cup {NoRun}, NEW k \in Keys \cup {NoKey},
         NEW runHit \in RunPauses, NEW keyHit \in KeyPauses, NEW u \in BOOLEAN,
         KeyOf(k).paused # "no" => keyHit = "no",
         LetThrough(c, r, k, runHit, keyHit, u)
  PROVE  \A x \in Keys : KeyFollows(x)
<1> DEFINE ks == Reserve(PauseFor(KeyOf(k), keyHit))
<1>1. ks \in KeyState
  BY KeyOfFields, KeyPauseFor
<1>2. k \in Keys => KeyGrows(k, ks)
  BY AskedGrows
<1>3. PICK V \in Victims(WithKey(k, ks)) \cup {{}} : keys' = Without(WithKey(k, ks), V, NewKey)
  BY DEF LetThrough
<1> HIDE DEF ks
<1> QED
  BY <1>1, <1>2, <1>3, ReplacedFollows

LEMMA CallFollows ==
  ASSUME TypeOK, NEW c \in Calls, CallStep(c)
  PROVE  \A x \in Keys : KeyFollows(x)
<1>1. ASSUME NEW r \in Runs \cup {NoRun}, NEW k \in Keys \cup {NoKey},
             AdmitServed(c, r, k) \/ AdmitForced(c, r, k) \/ AdmitShadow(c, r, k)
      PROVE  \A x \in Keys : KeyFollows(x)
  <2>1. /\ RunHit(r, k) \in RunPauses /\ KeyHit(r, k) \in KeyPauses
        /\ "no" \in RunPauses /\ "no" \in KeyPauses
    BY HitTypes DEF RunPauses, KeyPauses
  <2>2. KeyOf(k).paused # "no" => KeyHit(r, k) = "no"
    BY DEF KeyHit, Held
  <2>3. \/ LetThrough(c, r, k, "no", "no", FALSE) \/ LetThrough(c, r, k, "no", "no", TRUE)
        \/ LetThrough(c, r, k, RunHit(r, k), KeyHit(r, k), TRUE)
    BY <1>1 DEF AdmitServed, AdmitForced, AdmitShadow
  <2> QED
    BY <2>1, <2>2, <2>3, LetThroughFollows
<1>2. ASSUME NEW r \in Runs \cup {NoRun}, NEW k \in Keys \cup {NoKey}, AdmitRefused(c, r, k)
      PROVE  \A x \in Keys : KeyFollows(x)
  <2> DEFINE ks == PauseFor(KeyOf(k), KeyHit(r, k))
  <2>1. KeyHit(r, k) \in KeyPauses /\ (KeyOf(k).paused # "no" => KeyHit(r, k) = "no")
    BY HitTypes DEF KeyHit, Held
  <2>2. ks \in KeyState
    BY <2>1, KeyOfFields, KeyPauseFor
  <2>3. k \in Keys => KeyGrows(k, ks)
    BY <2>1, AskedGrows
  <2>4. keys' = WithKey(k, ks)
    BY <1>2 DEF AdmitRefused
  <2> HIDE DEF ks
  <2>5. keys' = Without(WithKey(k, ks), {}, NewKey)
    BY <2>2, <2>4, WithKeyFields, NoVictims
  <2> QED
    BY <2>2, <2>3, <2>5, ReplacedFollows
<1>3. CASE AdmitKilled(c)
  BY <1>3, KeptFollows DEF AdmitKilled
<1>4. ASSUME NEW cost \in Costs, NEW l \in BOOLEAN, Record(c, cost, l)
      PROVE  \A x \in Keys : KeyFollows(x)
  <2> DEFINE k  == calls[c].key
             ks == SettleKey(KeyOf(k), cost)
  <2>1. PICK V \in Victims(WithKey(k, ks)) \cup {{}} : keys' = Without(WithKey(k, ks), V, NewKey)
    BY <1>4 DEF Record
  <2>2. k \in Keys \cup {NoKey} /\ cost \in Nat
    BY CallNames, CallerAssumption
  <2> HIDE DEF k
  <2>3. ks \in KeyState
    BY <2>2, KeyOfFields, SettleKeyFields
  <2>4. k \in Keys => KeyGrows(k, ks)
    BY <2>2, SettledGrows
  <2> HIDE DEF ks
  <2> QED
    BY <2>1, <2>2, <2>3, <2>4, ReplacedFollows
<1>5. CASE Release(c)
  <2>1. \A x \in Keys : /\ SameTally(keys[x], Released(keys[x]))
                        /\ Released(keys[x]).paused = keys[x].paused
    BY DEF Released, TypeOK, KeyState, SameTally
  <2>2. \A x \in Keys : keys'[x] = keys[x] \/ keys'[x] = Released(keys[x])
    BY <1>5 DEF Release, TypeOK
  <2>3. \A x \in Keys : keys[x].daySpend \in Nat /\ keys[x].lifeSpend \in Nat /\ keys[x].day \in Nat
    BY DEF TypeOK, KeyState
  <2> QED
    BY <2>1, <2>2, <2>3 DEF KeyFollows, KeyPauseHolds, KeyTallyGrows, SameTally
<1> QED
  BY <1>1, <1>2, <1>3, <1>4, <1>5 DEF CallStep

LEMMA KeyStepFollows ==
  ASSUME TypeOK, NEW k \in Keys, KeyStep(k)
  PROVE  \A x \in Keys : KeyFollows(x)
<1>1. CASE NoteKey(k)
  <2>1. PICK V \in Victims(WithKey(k, KeyOf(k))) : keys' = Without(WithKey(k, KeyOf(k)), V, NewKey)
    BY <1>1 DEF NoteKey
  <2> QED
    BY <2>1, LockedGrows, ReplacedFollows
<1>2. CASE ResumeKey(k)
  <2>1. \A x \in Keys : keys'[x] = IF x = k THEN ResumedKey(keys[k]) ELSE keys[x]
    BY <1>2 DEF ResumeKey, TypeOK
  <2>2. \A x \in Keys : keys[x].daySpend \in Nat /\ keys[x].lifeSpend \in Nat /\ keys[x].day \in Nat
    BY DEF TypeOK, KeyState
  <2> QED
    BY <1>2, <2>1, <2>2 DEF ResumeKey, KeyFollows, KeyPauseHolds, KeyTallyGrows
<1>3. ASSUME NEW reason \in KeyPauses \ {"no"}, MarkKeyPaused(k, reason)
      PROVE  \A x \in Keys : KeyFollows(x)
  <2> DEFINE of == KeyOf(k)
             ks == [of EXCEPT !.paused = reason]
  <2>1. of \in KeyState /\ KeyGrows(k, of) /\ of = KeyLocked(keys[k], now, today)
    BY LockedGrows, IdsAssumption DEF KeyOf
  <2>2. keys' = [keys EXCEPT ![k] = ks]
    BY <1>3, <2>1 DEF MarkKeyPaused, TypeOK
  <2> HIDE DEF of
  <2>3. SameTally(of, ks)
    BY <2>1 DEF KeyState, SameTally
  <2> HIDE DEF ks
  <2>4. KeyTallyGrows(k, ks) /\ Fallback
    BY <1>3, <2>1, <2>3 DEF MarkKeyPaused, KeyGrows, KeyTallyGrows, SameTally
  <2>5. \A x \in Keys : keys'[x] = IF x = k THEN ks ELSE keys[x]
    BY <2>2 DEF TypeOK
  <2>6. \A x \in Keys : keys[x].daySpend \in Nat /\ keys[x].lifeSpend \in Nat /\ keys[x].day \in Nat
    BY DEF TypeOK, KeyState
  <2> QED
    BY <2>4, <2>5, <2>6 DEF KeyFollows, KeyPauseHolds, KeyTallyGrows
<1> QED
  BY <1>1, <1>2, <1>3 DEF KeyStep

LEMMA StepFollows ==
  ASSUME TypeOK, [Next]_vars
  PROVE  \A x \in Keys : KeyFollows(x)
<1>1. \/ \E c \in Calls : CallStep(c)
      \/ \E k \in Keys : KeyStep(k)
      \/ UNCHANGED keys
  BY DEF Next, RunStep, NoteRun, SetRunCap, ResumeRun, MarkPaused, SetKilled, Dispatch, Tick, WallClock, vars
<1> QED
  BY <1>1, CallFollows, KeyStepFollows, KeptFollows

-----------------------------------------------------------------------------
(* The runs after each step. *)

\* A paused run stays paused for the same reason or is resumed; a mark made for
\* a shared store may change the reason.
RunFollows(x) ==
  runs[x].paused # "no" =>
    runs'[x].paused = runs[x].paused \/ runs'[x] = ResumedRun(runs[x]) \/ Fallback

LEMMA ReplacedRunFollows ==
  ASSUME TypeOK, NEW r \in Runs \cup {NoRun}, NEW st \in RunState,
         r \in Runs => (runs[r].paused # "no" => st.paused = runs[r].paused),
         NEW V \in Victims(WithRun(r, st)) \cup {{}},
         runs' = Without(WithRun(r, st), V, NewRun)
  PROVE  \A x \in Runs : RunFollows(x)
<1> SUFFICES ASSUME NEW x \in Runs PROVE RunFollows(x)
  OBVIOUS
<1> DEFINE map == WithRun(r, st)
<1>1. DOMAIN map = Runs /\ map[x] = IF x = r THEN st ELSE runs[x]
  BY WithRunFields
<1> HIDE DEF map
<1>2. runs'[x] = IF x \in V THEN NewRun ELSE map[x]
  BY <1>1 DEF Without, map
<1>3. x \in V => map[x].paused = "no"
  BY <1>1 DEF Victims, map
<1> QED
  BY <1>1, <1>2, <1>3 DEF RunFollows

LEMMA RunCallFollows ==
  ASSUME TypeOK, NEW c \in Calls, CallStep(c)
  PROVE  \A x \in Runs : RunFollows(x)
<1>1. ASSUME NEW r \in Runs \cup {NoRun}, NEW k \in Keys \cup {NoKey},
             NEW hit \in RunPauses, RunOf(r).paused # "no" => hit = "no",
             \/ runs' = WithRun(r, Reserve(PauseFor(RunOf(r), hit)))
             \/ runs' = WithRun(r, PauseFor(RunOf(r), hit))
      PROVE  \A x \in Runs : RunFollows(x)
  <2>1. RunOf(r) \in RunState /\ (r \in Runs => RunOf(r).paused = runs[r].paused)
    BY RunOfFields
  <2>2. PICK st \in RunState : /\ runs' = WithRun(r, st)
                               /\ RunOf(r).paused # "no" => st.paused = RunOf(r).paused
    BY <1>1, <2>1, RunPauseFor
  <2>3. runs' = Without(WithRun(r, st), {}, NewRun)
    BY <2>2, WithRunFields, NoVictims
  <2> QED
    BY <2>1, <2>2, <2>3, ReplacedRunFollows
<1>2. ASSUME NEW r \in Runs \cup {NoRun}, NEW k \in Keys \cup {NoKey},
             \/ AdmitServed(c, r, k) \/ AdmitForced(c, r, k)
             \/ AdmitShadow(c, r, k) \/ AdmitRefused(c, r, k)
      PROVE  \A x \in Runs : RunFollows(x)
  <2>1. RunHit(r, k) \in RunPauses /\ "no" \in RunPauses
    BY HitTypes DEF RunPauses
  <2>2. RunOf(r).paused # "no" => RunHit(r, k) = "no"
    BY DEF RunHit, Held
  <2>3. \/ runs' = WithRun(r, Reserve(PauseFor(RunOf(r), "no")))
        \/ runs' = WithRun(r, Reserve(PauseFor(RunOf(r), RunHit(r, k))))
        \/ runs' = WithRun(r, PauseFor(RunOf(r), RunHit(r, k)))
    BY <1>2 DEF AdmitServed, AdmitForced, AdmitShadow, AdmitRefused, LetThrough
  <2> QED
    BY <1>1, <2>1, <2>2, <2>3
<1>3. CASE AdmitKilled(c)
  BY <1>3 DEF AdmitKilled, RunFollows
<1>4. ASSUME NEW cost \in Costs, NEW l \in BOOLEAN, Record(c, cost, l)
      PROVE  \A x \in Runs : RunFollows(x)
  <2> DEFINE r  == calls[c].run
             st == SettleRun(RunOf(r), cost, l)
  <2>1. PICK V \in Victims(WithRun(r, st)) \cup {{}} : runs' = Without(WithRun(r, st), V, NewRun)
    BY <1>4 DEF Record
  <2>2. r \in Runs \cup {NoRun} /\ cost \in Nat
    BY CallNames, CallerAssumption
  <2> HIDE DEF r
  <2>3. RunOf(r) \in RunState /\ (r \in Runs => RunOf(r).paused = runs[r].paused)
    BY <2>2, RunOfFields
  <2>4. st \in RunState /\ (RunOf(r).paused # "no" => st.paused = RunOf(r).paused)
    BY <2>2, <2>3, SettleRunFields
  <2> HIDE DEF st
  <2> QED
    BY <2>1, <2>2, <2>3, <2>4, ReplacedRunFollows
<1>5. CASE Release(c)
  <2>1. \A x \in Runs : Released(runs[x]).paused = runs[x].paused
    BY DEF Released, TypeOK, RunState
  <2>2. \A x \in Runs : runs'[x] = runs[x] \/ runs'[x] = Released(runs[x])
    BY <1>5 DEF Release, TypeOK
  <2> QED
    BY <2>1, <2>2 DEF RunFollows
<1> QED
  BY <1>2, <1>3, <1>4, <1>5 DEF CallStep

LEMMA RunStepFollows ==
  ASSUME TypeOK, NEW r \in Runs, RunStep(r)
  PROVE  \A x \in Runs : RunFollows(x)
<1>1. CASE NoteRun(r)
  <2>1. \A x \in Runs : runs'[x].paused = runs[x].paused
    BY <1>1 DEF NoteRun, TypeOK, RunState
  <2> QED
    BY <2>1 DEF RunFollows
<1>2. ASSUME NEW cap \in RequestCaps, SetRunCap(r, cap)
      PROVE  \A x \in Runs : RunFollows(x)
  <2>1. PICK st \in RunState : /\ st.paused = runs[r].paused
                               /\ \E V \in Victims(WithRun(r, st)) : runs' = Without(WithRun(r, st), V, NewRun)
    BY <1>2, CapEntry
  <2> QED
    BY <2>1, ReplacedRunFollows
<1>3. CASE ResumeRun(r)
  <2>1. \A x \in Runs : runs'[x] = IF x = r THEN ResumedRun(runs[r]) ELSE runs[x]
    BY <1>3 DEF ResumeRun, TypeOK
  <2> QED
    BY <2>1 DEF RunFollows
<1>4. CASE \E reason \in RunPauses \ {"no"} : MarkPaused(r, reason)
  BY <1>4 DEF MarkPaused, RunFollows
<1> QED
  BY <1>1, <1>2, <1>3, <1>4 DEF RunStep

LEMMA StepRunFollows ==
  ASSUME TypeOK, [Next]_vars
  PROVE  \A x \in Runs : RunFollows(x)
<1>1. \/ \E c \in Calls : CallStep(c)
      \/ \E r \in Runs : RunStep(r)
      \/ UNCHANGED runs
  BY DEF Next, KeyStep, NoteKey, ResumeKey, MarkKeyPaused, SetKilled, Dispatch, Tick, WallClock, vars
<1>2. UNCHANGED runs => \A x \in Runs : RunFollows(x)
  BY DEF RunFollows
<1> QED
  BY <1>1, <1>2, RunCallFollows, RunStepFollows

-----------------------------------------------------------------------------
(* When an entry was last seen. *)

SameSeen(old, new) == new.tracked = old.tracked /\ new.lastSeen = old.lastSeen

LEMMA LookedUp ==
  ASSUME TypeOK
  PROVE  /\ \A r \in Runs : RunOf(r).tracked /\ RunOf(r).lastSeen = now
         /\ \A k \in Keys : KeyOf(k).tracked /\ KeyOf(k).lastSeen = now
<1>1. ASSUME NEW r \in Runs PROVE RunOf(r).tracked /\ RunOf(r).lastSeen = now
  <2>1. r # NoRun /\ runs[r] \in RunState
    BY IdsAssumption DEF TypeOK
  <2> QED
    BY <2>1 DEF RunOf, SeenRun, RunState
<1>2. ASSUME NEW k \in Keys PROVE KeyOf(k).tracked /\ KeyOf(k).lastSeen = now
  <2> DEFINE ks == keys[k]
             old == [ks EXCEPT !.tracked = TRUE, !.lastSeen = now,
                               !.day = IF ks.tracked THEN @ ELSE today]
             rolled == [old EXCEPT !.day = today, !.dayCalls = 0, !.daySpend = 0,
                                   !.inflight = 0,
                                   !.paused = IF @ = "day" THEN "no" ELSE @]
  <2>1. ks \in KeyState /\ k # NoKey /\ now \in Nat /\ today \in Nat
    BY IdsAssumption DEF TypeOK
  <2>2. KeyOf(k) = IF today > old.day THEN rolled ELSE old
    BY <2>1 DEF KeyOf, KeyLocked
  <2> HIDE DEF ks
  <2>3. old \in KeyState /\ old.tracked /\ old.lastSeen = now
    BY <2>1 DEF KeyState
  <2> HIDE DEF old
  <2>4. rolled.tracked /\ rolled.lastSeen = now
    BY <2>3 DEF KeyState
  <2> QED
    BY <2>2, <2>3, <2>4
<1> QED
  BY <1>1, <1>2

LEMMA RunSameSeen ==
  ASSUME NEW st \in RunState
  PROVE  /\ \A hit \in RunPauses : /\ SameSeen(st, PauseFor(st, hit))
                                   /\ SameSeen(st, Reserve(PauseFor(st, hit)))
         /\ \A cost \in Nat : \A l : SameSeen(st, SettleRun(st, cost, l))
         /\ SameSeen(st, Released(st)) /\ SameSeen(st, ResumedRun(st))
<1>1. ASSUME NEW hit \in RunPauses
      PROVE  SameSeen(st, PauseFor(st, hit)) /\ SameSeen(st, Reserve(PauseFor(st, hit)))
  <2> DEFINE p == PauseFor(st, hit)
  <2>1. p \in RunState /\ SameSeen(st, p)
    BY DEF PauseFor, RunState, SameSeen
  <2> HIDE DEF p
  <2>2. SameSeen(p, Reserve(p))
    BY <2>1 DEF Reserve, RunState, SameSeen
  <2> QED
    BY <2>1, <2>2 DEF SameSeen, p
<1>2. ASSUME NEW cost \in Nat, NEW l PROVE SameSeen(st, SettleRun(st, cost, l))
  <2> DEFINE new == [st EXCEPT !.inflight = Dec(@), !.calls = @ + 1, !.spend = @ + cost]
  <2>1. SameSeen(st, new) /\ DOMAIN new = DOMAIN st
    BY DEF RunState, SameSeen
  <2>2. SettleRun(st, cost, l) = IF new.paused = "no" THEN [new EXCEPT !.paused = RunSettledCap(new, l)] ELSE new
    BY DEF SettleRun
  <2> HIDE DEF new
  <2> QED
    BY <2>1, <2>2 DEF RunState, SameSeen
<1>3. SameSeen(st, Released(st)) /\ SameSeen(st, ResumedRun(st))
  BY DEF Released, ResumedRun, RunState, SameSeen
<1> QED
  BY <1>1, <1>2, <1>3

LEMMA KeySameSeen ==
  ASSUME NEW ks \in KeyState
  PROVE  /\ \A hit \in KeyPauses : /\ SameSeen(ks, PauseFor(ks, hit))
                                   /\ SameSeen(ks, Reserve(PauseFor(ks, hit)))
         /\ \A cost \in Nat : SameSeen(ks, SettleKey(ks, cost))
         /\ SameSeen(ks, Released(ks)) /\ SameSeen(ks, ResumedKey(ks))
         /\ \A reason : SameSeen(ks, [ks EXCEPT !.paused = reason])
<1>1. ASSUME NEW hit \in KeyPauses
      PROVE  SameSeen(ks, PauseFor(ks, hit)) /\ SameSeen(ks, Reserve(PauseFor(ks, hit)))
  <2> DEFINE p == PauseFor(ks, hit)
  <2>1. p \in KeyState /\ SameSeen(ks, p)
    BY DEF PauseFor, KeyState, SameSeen
  <2> HIDE DEF p
  <2>2. SameSeen(p, Reserve(p))
    BY <2>1 DEF Reserve, KeyState, SameSeen
  <2> QED
    BY <2>1, <2>2 DEF SameSeen, p
<1>2. ASSUME NEW cost \in Nat PROVE SameSeen(ks, SettleKey(ks, cost))
  <2> DEFINE new == [ks EXCEPT !.inflight = Dec(@),
                               !.dayCalls = @ + 1, !.lifeCalls = @ + 1,
                               !.daySpend = @ + cost, !.lifeSpend = @ + cost]
  <2>1. SameSeen(ks, new) /\ DOMAIN new = DOMAIN ks
    BY DEF KeyState, SameSeen
  <2>2. SettleKey(ks, cost) = IF new.paused = "no" THEN [new EXCEPT !.paused = KeySettledCap(new)] ELSE new
    BY DEF SettleKey
  <2> HIDE DEF new
  <2> QED
    BY <2>1, <2>2 DEF KeyState, SameSeen
<1>3. SameSeen(ks, Released(ks)) /\ \A reason : SameSeen(ks, [ks EXCEPT !.paused = reason])
  BY DEF Released, KeyState, SameSeen
<1>4. SameSeen(ks, ResumedKey(ks))
  <2> DEFINE Cleared(n, spend) == [ks EXCEPT !.paused = "no", !.dayCalls = 0, !.daySpend = 0,
                                             !.inflight = 0, !.lifeCalls = n, !.lifeSpend = spend]
  <2>1. ResumedKey(ks) = IF ks.paused = "day" THEN Cleared(ks.lifeCalls, ks.lifeSpend) ELSE Cleared(0, 0)
    BY DEF ResumedKey
  <2>2. \A n, spend : SameSeen(ks, Cleared(n, spend))
    BY DEF KeyState, SameSeen
  <2> HIDE DEF Cleared
  <2> QED
    BY <2>1, <2>2
<1> QED
  BY <1>1, <1>2, <1>3, <1>4

-----------------------------------------------------------------------------
(* What goes when a map is bounded. *)

Seen == /\ \A r \in Runs : runs[r].lastSeen <= now
        /\ \A k \in Keys : keys[k].lastSeen <= now

\* Of the map that was old and is new: what was dropped is no more recent than
\* what is active.
DropsOld(old, new, S) ==
  \A x \in Dropped(old, new), y \in S :
    new[y].tracked /\ new[y].paused = "no" => old[x].lastSeen <= new[y].lastSeen

\* Every entry is tracked as before, seen as before, or looked up in this step.
Looked(old, new, S) ==
  \A x \in S : /\ old[x].tracked => new[x].tracked
               /\ new[x].lastSeen \in {old[x].lastSeen, now}

\* A map bounded after a look-up.
LEMMA BoundedDropsOld ==
  ASSUME NEW S, NEW old, NEW map, NEW fresh, DOMAIN old = S, DOMAIN map = S, now \in Nat,
         Looked(old, map, S), \A x \in S : old[x].lastSeen \in Nat /\ old[x].lastSeen <= now,
         fresh.tracked = FALSE, fresh.lastSeen = 0,
         NEW V \in Victims(map) \cup {{}}
  PROVE  /\ DropsOld(old, Without(map, V, fresh), S)
         /\ \A x \in S : Without(map, V, fresh)[x].lastSeen <= now
<1> DEFINE new == Without(map, V, fresh)
<1>1. DOMAIN new = S /\ \A x \in S : new[x] = IF x \in V THEN fresh ELSE map[x]
  BY DEF Without
<1>2. \A x \in S : map[x].lastSeen \in Nat /\ old[x].lastSeen <= map[x].lastSeen /\ map[x].lastSeen <= now
  BY DEF Looked
<1>3. \A v \in V, u \in S : u \notin V /\ map[u].tracked /\ map[u].paused = "no" => map[v].lastSeen <= map[u].lastSeen
  BY DEF Victims
<1> HIDE DEF new
<1>4. \A x \in S : new[x].lastSeen <= now
  BY <1>1, <1>2
<1>5. ASSUME NEW x \in Dropped(old, new), NEW y \in S, new[y].tracked, new[y].paused = "no"
      PROVE  old[x].lastSeen <= new[y].lastSeen
  <2>1. x \in S /\ x \in V
    BY <1>1, <1>5 DEF Dropped, Looked
  <2>2. y \notin V /\ new[y] = map[y]
    BY <1>1, <1>5
  <2>3. map[x].lastSeen <= map[y].lastSeen
    BY <1>3, <1>5, <2>1, <2>2
  <2> QED
    BY <1>2, <2>1, <2>2, <2>3
<1> QED
  BY <1>4, <1>5 DEF DropsOld, new

RunsBounded ==
  \E map \in [Runs -> RunState] :
    /\ Looked(runs, map, Runs)
    /\ \E V \in Victims(map) \cup {{}} : runs' = Without(map, V, NewRun)

KeysBounded ==
  \E map \in [Keys -> KeyState] :
    /\ Looked(keys, map, Keys)
    /\ \E V \in Victims(map) \cup {{}} : keys' = Without(map, V, NewKey)

LEMMA QuietBounded ==
  /\ runs' \in [Runs -> RunState] /\ Looked(runs, runs', Runs) => RunsBounded
  /\ keys' \in [Keys -> KeyState] /\ Looked(keys, keys', Keys) => KeysBounded
<1>1. ASSUME runs' \in [Runs -> RunState], Looked(runs, runs', Runs) PROVE RunsBounded
  <2>1. runs' = Without(runs', {}, NewRun)
    BY <1>1, NoVictims
  <2> QED
    BY <1>1, <2>1 DEF RunsBounded
<1>2. ASSUME keys' \in [Keys -> KeyState], Looked(keys, keys', Keys) PROVE KeysBounded
  <2>1. keys' = Without(keys', {}, NewKey)
    BY <1>2, NoVictims
  <2> QED
    BY <1>2, <2>1 DEF KeysBounded
<1> QED
  BY <1>1, <1>2

LEMMA RunReplacedBounded ==
  ASSUME TypeOK, NEW r \in Runs \cup {NoRun}, NEW st \in RunState,
         r \in Runs => SameSeen(RunOf(r), st),
         NEW V \in Victims(WithRun(r, st)) \cup {{}},
         runs' = Without(WithRun(r, st), V, NewRun)
  PROVE  RunsBounded
<1> DEFINE map == WithRun(r, st)
<1>1. map \in [Runs -> RunState] /\ \A x \in Runs : map[x] = IF x = r THEN st ELSE runs[x]
  BY WithRunFields
<1>2. r \in Runs => st.tracked /\ st.lastSeen = now
  BY LookedUp DEF SameSeen
<1> HIDE DEF map
<1>3. Looked(runs, map, Runs)
  BY <1>1, <1>2 DEF Looked
<1> QED
  BY <1>1, <1>3 DEF RunsBounded, map

LEMMA KeyReplacedBounded ==
  ASSUME TypeOK, NEW k \in Keys \cup {NoKey}, NEW ks \in KeyState,
         k \in Keys => SameSeen(KeyOf(k), ks),
         NEW V \in Victims(WithKey(k, ks)) \cup {{}},
         keys' = Without(WithKey(k, ks), V, NewKey)
  PROVE  KeysBounded
<1> DEFINE map == WithKey(k, ks)
<1>1. map \in [Keys -> KeyState] /\ \A x \in Keys : map[x] = IF x = k THEN ks ELSE keys[x]
  BY WithKeyFields
<1>2. k \in Keys => ks.tracked /\ ks.lastSeen = now
  BY LookedUp DEF SameSeen
<1> HIDE DEF map
<1>3. Looked(keys, map, Keys)
  BY <1>1, <1>2 DEF Looked
<1> QED
  BY <1>1, <1>3 DEF KeysBounded, map

LEMMA CallBounded ==
  ASSUME TypeOK, TypeOK', NEW c \in Calls, CallStep(c)
  PROVE  RunsBounded /\ KeysBounded
<1>1. ASSUME NEW r \in Runs \cup {NoRun}, NEW k \in Keys \cup {NoKey},
             NEW runHit \in RunPauses, NEW keyHit \in KeyPauses, NEW u \in BOOLEAN,
             LetThrough(c, r, k, runHit, keyHit, u)
      PROVE  RunsBounded /\ KeysBounded
  <2> DEFINE st == Reserve(PauseFor(RunOf(r), runHit))
             ks == Reserve(PauseFor(KeyOf(k), keyHit))
  <2>1. /\ st \in RunState /\ SameSeen(RunOf(r), st)
        /\ ks \in KeyState /\ SameSeen(KeyOf(k), ks)
    BY RunOfFields, KeyOfFields, RunPauseFor, KeyPauseFor, RunSameSeen, KeySameSeen
  <2>2. runs' = WithRun(r, st)
    BY <1>1 DEF LetThrough
  <2>3. PICK V \in Victims(WithKey(k, ks)) \cup {{}} : keys' = Without(WithKey(k, ks), V, NewKey)
    BY <1>1 DEF LetThrough
  <2> HIDE DEF st, ks
  <2>4. runs' = Without(WithRun(r, st), {}, NewRun)
    BY <2>1, <2>2, WithRunFields, NoVictims
  <2> QED
    BY <2>1, <2>3, <2>4, RunReplacedBounded, KeyReplacedBounded
<1>2. ASSUME NEW r \in Runs \cup {NoRun}, NEW k \in Keys \cup {NoKey},
             AdmitServed(c, r, k) \/ AdmitForced(c, r, k) \/ AdmitShadow(c, r, k)
      PROVE  RunsBounded /\ KeysBounded
  <2>1. /\ RunHit(r, k) \in RunPauses /\ KeyHit(r, k) \in KeyPauses
        /\ "no" \in RunPauses /\ "no" \in KeyPauses
    BY HitTypes DEF RunPauses, KeyPauses
  <2>2. \/ LetThrough(c, r, k, "no", "no", FALSE) \/ LetThrough(c, r, k, "no", "no", TRUE)
        \/ LetThrough(c, r, k, RunHit(r, k), KeyHit(r, k), TRUE)
    BY <1>2 DEF AdmitServed, AdmitForced, AdmitShadow
  <2> QED
    BY <1>1, <2>1, <2>2
<1>3. ASSUME NEW r \in Runs \cup {NoRun}, NEW k \in Keys \cup {NoKey}, AdmitRefused(c, r, k)
      PROVE  RunsBounded /\ KeysBounded
  <2> DEFINE st == PauseFor(RunOf(r), RunHit(r, k))
             ks == PauseFor(KeyOf(k), KeyHit(r, k))
  <2>1. /\ st \in RunState /\ SameSeen(RunOf(r), st)
        /\ ks \in KeyState /\ SameSeen(KeyOf(k), ks)
    BY HitTypes, RunOfFields, KeyOfFields, RunPauseFor, KeyPauseFor, RunSameSeen, KeySameSeen
  <2>2. runs' = WithRun(r, st) /\ keys' = WithKey(k, ks)
    BY <1>3 DEF AdmitRefused
  <2> HIDE DEF st, ks
  <2>3. /\ runs' = Without(WithRun(r, st), {}, NewRun)
        /\ keys' = Without(WithKey(k, ks), {}, NewKey)
    BY <2>1, <2>2, WithRunFields, WithKeyFields, NoVictims
  <2> QED
    BY <2>1, <2>3, RunReplacedBounded, KeyReplacedBounded
<1>4. ASSUME NEW cost \in Costs, NEW l \in BOOLEAN, Record(c, cost, l)
      PROVE  RunsBounded /\ KeysBounded
  <2> DEFINE r  == calls[c].run
             k  == calls[c].key
             st == SettleRun(RunOf(r), cost, l)
             ks == SettleKey(KeyOf(k), cost)
  <2>1. PICK VR \in Victims(WithRun(r, st)) \cup {{}} : runs' = Without(WithRun(r, st), VR, NewRun)
    BY <1>4 DEF Record
  <2>2. PICK VK \in Victims(WithKey(k, ks)) \cup {{}} : keys' = Without(WithKey(k, ks), VK, NewKey)
    BY <1>4 DEF Record
  <2>3. r \in Runs \cup {NoRun} /\ k \in Keys \cup {NoKey} /\ cost \in Nat
    BY CallNames, CallerAssumption
  <2> HIDE DEF r, k
  <2>4. st \in RunState /\ SameSeen(RunOf(r), st)
    BY <2>3, RunOfFields, SettleRunFields, RunSameSeen
  <2>5. ks \in KeyState /\ SameSeen(KeyOf(k), ks)
    BY <2>3, KeyOfFields, SettleKeyFields, KeySameSeen
  <2> HIDE DEF st, ks
  <2> QED
    BY <2>1, <2>2, <2>3, <2>4, <2>5, RunReplacedBounded, KeyReplacedBounded
<1>5. CASE Release(c)
  <2>1. \A x \in Runs : runs'[x] = runs[x] \/ runs'[x] = Released(runs[x])
    BY <1>5 DEF Release, TypeOK
  <2>2. \A x \in Keys : keys'[x] = keys[x] \/ keys'[x] = Released(keys[x])
    BY <1>5 DEF Release, TypeOK
  <2>3. /\ \A x \in Runs : SameSeen(runs[x], Released(runs[x]))
        /\ \A x \in Keys : SameSeen(keys[x], Released(keys[x]))
    BY RunSameSeen, KeySameSeen DEF TypeOK
  <2>4. Looked(runs, runs', Runs) /\ Looked(keys, keys', Keys)
    BY <2>1, <2>2, <2>3 DEF Looked, SameSeen
  <2> QED
    BY <2>4, QuietBounded DEF TypeOK
<1>6. CASE AdmitKilled(c)
  <2>1. Looked(runs, runs', Runs) /\ Looked(keys, keys', Keys)
    BY <1>6 DEF AdmitKilled, Looked
  <2> QED
    BY <2>1, QuietBounded DEF TypeOK
<1> QED
  BY <1>2, <1>3, <1>4, <1>5, <1>6 DEF CallStep

LEMMA RunStepBounded ==
  ASSUME TypeOK, TypeOK', NEW r \in Runs, RunStep(r)
  PROVE  RunsBounded /\ KeysBounded
<1>1. KeysBounded
  <2>1. keys' = keys
    BY DEF RunStep, NoteRun, SetRunCap, ResumeRun, MarkPaused
  <2> QED
    BY <2>1, QuietBounded DEF Looked, TypeOK
<1>2. ASSUME NEW cap \in RequestCaps, SetRunCap(r, cap) PROVE RunsBounded
  <2>1. PICK st \in RunState : /\ SameSeen(RunOf(r), st)
                               /\ \E V \in Victims(WithRun(r, st)) : runs' = Without(WithRun(r, st), V, NewRun)
    BY <1>2, CapEntry DEF SameSeen
  <2> QED
    BY <2>1, RunReplacedBounded
<1>3. ASSUME \A x \in Runs : /\ runs[x].tracked => runs'[x].tracked
                             /\ runs'[x].lastSeen = runs[x].lastSeen
      PROVE  RunsBounded
  BY <1>3, QuietBounded DEF Looked, TypeOK
<1>4. CASE NoteRun(r)
  <2>1. \A x \in Runs : /\ runs[x].tracked => runs'[x].tracked
                        /\ runs'[x].lastSeen = runs[x].lastSeen
    BY <1>4 DEF NoteRun, TypeOK, RunState
  <2> QED
    BY <1>1, <1>3, <2>1
<1>5. CASE ResumeRun(r)
  <2>1. \A x \in Runs : runs'[x] = IF x = r THEN ResumedRun(runs[r]) ELSE runs[x]
    BY <1>5 DEF ResumeRun, TypeOK
  <2>2. SameSeen(runs[r], ResumedRun(runs[r]))
    BY RunSameSeen DEF TypeOK
  <2> QED
    BY <1>1, <1>3, <2>1, <2>2 DEF SameSeen
<1>6. ASSUME NEW reason \in RunPauses \ {"no"}, MarkPaused(r, reason) PROVE RunsBounded
  <2> DEFINE st == [[runs[r] EXCEPT !.tracked = TRUE] EXCEPT !.paused = reason]
  <2>1. st.tracked /\ st.lastSeen = runs[r].lastSeen
    BY DEF TypeOK, RunState
  <2>2. runs' = [runs EXCEPT ![r] = st]
    BY <1>6 DEF MarkPaused, TypeOK
  <2> HIDE DEF st
  <2>3. \A x \in Runs : runs'[x] = IF x = r THEN st ELSE runs[x]
    BY <2>2 DEF TypeOK
  <2> QED
    BY <1>3, <2>1, <2>3
<1> QED
  BY <1>1, <1>2, <1>4, <1>5, <1>6 DEF RunStep

LEMMA KeyStepBounded ==
  ASSUME TypeOK, TypeOK', NEW k \in Keys, KeyStep(k)
  PROVE  RunsBounded /\ KeysBounded
<1>1. RunsBounded
  <2>1. runs' = runs
    BY DEF KeyStep, NoteKey, ResumeKey, MarkKeyPaused
  <2> QED
    BY <2>1, QuietBounded DEF Looked, TypeOK
<1>2. CASE NoteKey(k)
  <2>1. KeyOf(k) \in KeyState /\ SameSeen(KeyOf(k), KeyOf(k))
    BY KeyOfFields DEF SameSeen
  <2>2. PICK V \in Victims(WithKey(k, KeyOf(k))) : keys' = Without(WithKey(k, KeyOf(k)), V, NewKey)
    BY <1>2 DEF NoteKey
  <2> QED
    BY <1>1, <2>1, <2>2, KeyReplacedBounded
<1>3. CASE ResumeKey(k)
  <2>1. \A x \in Keys : keys'[x] = IF x = k THEN ResumedKey(keys[k]) ELSE keys[x]
    BY <1>3 DEF ResumeKey, TypeOK
  <2>2. SameSeen(keys[k], ResumedKey(keys[k]))
    BY KeySameSeen DEF TypeOK
  <2>3. Looked(keys, keys', Keys)
    BY <2>1, <2>2 DEF Looked, SameSeen
  <2> QED
    BY <1>1, <2>3, QuietBounded DEF TypeOK
<1>4. ASSUME NEW reason \in KeyPauses \ {"no"}, MarkKeyPaused(k, reason) PROVE KeysBounded
  <2> DEFINE ks == [KeyOf(k) EXCEPT !.paused = reason]
  <2>1. KeyOf(k) = KeyLocked(keys[k], now, today) /\ KeyOf(k) \in KeyState
    BY KeyOfFields, IdsAssumption DEF KeyOf
  <2>2. SameSeen(KeyOf(k), ks)
    BY <2>1, KeySameSeen
  <2>3. keys' = [keys EXCEPT ![k] = ks]
    BY <1>4, <2>1 DEF MarkKeyPaused, TypeOK
  <2> HIDE DEF ks
  <2>4. \A x \in Keys : keys'[x] = IF x = k THEN ks ELSE keys[x]
    BY <2>3 DEF TypeOK
  <2>5. ks.tracked /\ ks.lastSeen = now
    BY <2>2, LookedUp DEF SameSeen
  <2>6. Looked(keys, keys', Keys)
    BY <2>4, <2>5 DEF Looked
  <2> QED
    BY <2>6, QuietBounded DEF TypeOK
<1> QED
  BY <1>1, <1>2, <1>3, <1>4 DEF KeyStep

LEMMA StepBounded ==
  ASSUME TypeOK, TypeOK', [Next]_vars
  PROVE  RunsBounded /\ KeysBounded
<1>1. \/ \E c \in Calls : CallStep(c)
      \/ \E r \in Runs : RunStep(r)
      \/ \E k \in Keys : KeyStep(k)
      \/ UNCHANGED <<runs, keys>>
  BY DEF Next, SetKilled, Dispatch, Tick, WallClock, vars
<1>2. UNCHANGED <<runs, keys>> => RunsBounded /\ KeysBounded
  BY QuietBounded DEF Looked, TypeOK
<1> QED
  BY <1>1, <1>2, CallBounded, RunStepBounded, KeyStepBounded

LEMMA StepSeen ==
  ASSUME TypeOK, TypeOK', Seen, [Next]_vars
  PROVE  Seen' /\ DropsOld(runs, runs', Runs) /\ DropsOld(keys, keys', Keys)
<1>1. now \in Nat /\ now' \in Nat /\ now <= now'
  <2>1. ASSUME NEW c \in Calls, CallStep(c) PROVE now' = now
    BY <2>1 DEF CallStep, LetThrough, AdmitServed, AdmitForced, AdmitShadow, AdmitRefused,
       AdmitKilled, Record, Release
  <2>2. ASSUME NEW r \in Runs, RunStep(r) PROVE now' = now
    BY <2>2 DEF RunStep, NoteRun, SetRunCap, ResumeRun, MarkPaused
  <2>3. ASSUME NEW k \in Keys, KeyStep(k) PROVE now' = now
    BY <2>3 DEF KeyStep, NoteKey, ResumeKey, MarkKeyPaused
  <2>4. now' = now \/ now' = now + 1
    BY <2>1, <2>2, <2>3 DEF Next, SetKilled, Dispatch, Tick, WallClock, vars
  <2>5. now \in Nat
    BY DEF TypeOK
  <2> QED
    BY <2>4, <2>5
<1>2. (\A x \in Runs : runs'[x].lastSeen <= now) /\ DropsOld(runs, runs', Runs)
  <2>1. PICK map \in [Runs -> RunState] :
          /\ Looked(runs, map, Runs)
          /\ \E V \in Victims(map) \cup {{}} : runs' = Without(map, V, NewRun)
    BY StepBounded DEF RunsBounded
  <2>0. PICK V \in Victims(map) \cup {{}} : runs' = Without(map, V, NewRun)
    BY <2>1
  <2>2. /\ \A x \in Runs : runs[x].lastSeen \in Nat /\ runs[x].lastSeen <= now
        /\ DOMAIN runs = Runs /\ DOMAIN map = Runs
        /\ NewRun.tracked = FALSE /\ NewRun.lastSeen = 0
    BY DEF Seen, TypeOK, RunState, NewRun
  <2>3. Looked(runs, map, Runs)
    BY <2>1
  <2> QED
    BY <1>1, <2>0, <2>2, <2>3, BoundedDropsOld
<1>3. (\A x \in Keys : keys'[x].lastSeen <= now) /\ DropsOld(keys, keys', Keys)
  <2>1. PICK map \in [Keys -> KeyState] :
          /\ Looked(keys, map, Keys)
          /\ \E V \in Victims(map) \cup {{}} : keys' = Without(map, V, NewKey)
    BY StepBounded DEF KeysBounded
  <2>0. PICK V \in Victims(map) \cup {{}} : keys' = Without(map, V, NewKey)
    BY <2>1
  <2>2. /\ \A x \in Keys : keys[x].lastSeen \in Nat /\ keys[x].lastSeen <= now
        /\ DOMAIN keys = Keys /\ DOMAIN map = Keys
        /\ NewKey.tracked = FALSE /\ NewKey.lastSeen = 0
    BY DEF Seen, TypeOK, KeyState, NewKey
  <2>3. Looked(keys, map, Keys)
    BY <2>1
  <2> QED
    BY <1>1, <2>0, <2>2, <2>3, BoundedDropsOld
<1>4. /\ \A x \in Runs : runs'[x].lastSeen \in Nat
      /\ \A x \in Keys : keys'[x].lastSeen \in Nat
  BY DEF TypeOK, RunState, KeyState
<1>5. Seen'
  BY <1>1, <1>2, <1>3, <1>4 DEF Seen
<1> QED
  BY <1>2, <1>3, <1>5

-----------------------------------------------------------------------------
(* The events a step queues. *)

\* One event more at most, behind those that wait.
LEMMA OneStop ==
  ASSUME NEW q \in Seq(Event), NEW id, NEW a, a # "no" => [id |-> id, reason |-> a] \in Event
  PROVE  LET p == q \o Stop(id, a)
         IN  /\ p \in Seq(Event)
             /\ \A x : EventsOf(x, p) = EventsOf(x, q) \cup (IF a # "no" /\ x = id THEN {Len(q) + 1} ELSE {})
             /\ \A i \in DOMAIN q : p[i] = q[i] /\ i # Len(q) + 1
             /\ a # "no" => p[Len(q) + 1].reason = a
             /\ DOMAIN q \subseteq DOMAIN p /\ (a # "no" => Len(q) + 1 \in DOMAIN p)
<1> DEFINE e == [id |-> id, reason |-> a]
           p == q \o Stop(id, a)
<1>1. CASE a = "no"
  <2>1. p = q
    BY <1>1 DEF Stop
  <2>2. \A i \in DOMAIN q : i # Len(q) + 1
    OBVIOUS
  <2> HIDE DEF p
  <2>3. /\ p \in Seq(Event) /\ DOMAIN q \subseteq DOMAIN p
        /\ \A x : EventsOf(x, p) = EventsOf(x, q)
        /\ \A i \in DOMAIN q : p[i] = q[i]
    BY <2>1
  <2> QED
    BY <1>1, <2>2, <2>3 DEF p
<1>2. CASE a # "no"
  <2>1. e \in Event /\ e.id = id /\ e.reason = a
    BY <1>2
  <2>2. p = Append(q, e)
    BY <1>2, <2>1 DEF Stop
  <2> HIDE DEF e, p
  <2>3. /\ p \in Seq(Event) /\ DOMAIN p = DOMAIN q \cup {Len(q) + 1}
        /\ p[Len(q) + 1] = e /\ \A i \in DOMAIN q : p[i] = q[i] /\ i # Len(q) + 1
    BY <2>1, <2>2
  <2>4. \A x : EventsOf(x, p) = EventsOf(x, q) \cup (IF x = id THEN {Len(q) + 1} ELSE {})
    BY <2>1, <2>3 DEF EventsOf
  <2> QED
    BY <1>2, <2>1, <2>3, <2>4 DEF p
<1> QED
  BY <1>1, <1>2

\* The step queues one event about x, with this reason, or none for "no".
Told(x, reason) ==
  LET new == EventsOf(x, pending') \ EventsOf(x, pending)
  IN  IF reason = "no" THEN new = {} ELSE \E i \in DOMAIN pending' : new = {i} /\ pending'[i].reason = reason

LEMMA TwoStops ==
  ASSUME TypeOK, NEW r \in Runs \cup {NoRun}, NEW k \in Keys \cup {NoKey},
         NEW a \in KeyPauses, NEW b \in RunPauses, a = "no" \/ k \in Keys, b = "no" \/ r \in Runs,
         pending' = pending \o Stop(k, a) \o Stop(r, b)
  PROVE  /\ \A x \in Runs : Told(x, IF x = r THEN b ELSE "no")
         /\ \A x \in Keys : Told(x, IF x = k THEN a ELSE "no")
<1> DEFINE q == pending \o Stop(k, a)
           m == Len(pending) + 1
           n == Len(q) + 1
<1>1. /\ a # "no" => [id |-> k, reason |-> a] \in Event
      /\ b # "no" => [id |-> r, reason |-> b] \in Event
  BY DEF Event
<1>2. pending \in Seq(Event)
  BY DEF TypeOK
<1>3. /\ q \in Seq(Event)
      /\ \A x : EventsOf(x, q) = EventsOf(x, pending) \cup (IF a # "no" /\ x = k THEN {m} ELSE {})
      /\ \A i \in DOMAIN pending : q[i] = pending[i] /\ i # m
      /\ a # "no" => q[m].reason = a
      /\ DOMAIN pending \subseteq DOMAIN q /\ (a # "no" => m \in DOMAIN q)
  BY <1>1, <1>2, OneStop
<1> HIDE DEF q
<1>4. /\ \A x : EventsOf(x, pending') = EventsOf(x, q) \cup (IF b # "no" /\ x = r THEN {n} ELSE {})
      /\ \A i \in DOMAIN q : pending'[i] = q[i] /\ i # n
      /\ b # "no" => pending'[n].reason = b
      /\ DOMAIN q \subseteq DOMAIN pending' /\ (b # "no" => n \in DOMAIN pending')
  <2>1. pending' = q \o Stop(r, b)
    BY DEF q
  <2> QED
    BY <1>1, <1>3, <2>1, OneStop
<1> HIDE DEF m, n
<1>5. \A x : EventsOf(x, pending) \subseteq DOMAIN pending
  BY DEF EventsOf
<1>6. ASSUME NEW x \in Runs PROVE Told(x, IF x = r THEN b ELSE "no")
  <2>1. EventsOf(x, q) = EventsOf(x, pending)
    BY <1>3, <1>6, IdsAssumption
  <2>2. n \notin EventsOf(x, pending)
    BY <1>3, <1>4, <1>5
  <2>3. CASE b # "no" /\ x = r
    BY <1>4, <2>1, <2>2, <2>3 DEF Told
  <2>4. CASE ~(b # "no" /\ x = r)
    BY <1>4, <2>1, <2>4 DEF Told
  <2> QED
    BY <2>3, <2>4
<1>7. ASSUME NEW x \in Keys PROVE Told(x, IF x = k THEN a ELSE "no")
  <2>1. EventsOf(x, pending') = EventsOf(x, q)
    BY <1>4, <1>7, IdsAssumption
  <2>2. m \notin EventsOf(x, pending) /\ (a # "no" => pending'[m].reason = a /\ m \in DOMAIN pending')
    BY <1>3, <1>4, <1>5
  <2> QED
    BY <1>3, <2>1, <2>2 DEF Told
<1> QED
  BY <1>6, <1>7

LEMMA NothingTold ==
  ASSUME UNCHANGED pending
  PROVE  \A x : Told(x, "no")
BY DEF Told

\* An entry that the step pauses is told with its reason, any other is not; a
\* mark made for a shared store tells nothing.
WasKey(x) == IF keys'[x].day = keys[x].day THEN keys[x].paused ELSE KeyOf(x).paused

RunAlerts(x) ==
  \/ Told(x, IF runs[x].paused = "no" THEN runs'[x].paused ELSE "no")
  \/ Fallback /\ Told(x, "no")

KeyAlerts(x) ==
  \/ Told(x, IF WasKey(x) = "no" THEN keys'[x].paused ELSE "no")
  \/ Fallback /\ Told(x, "no")

LEMMA RunReplacedAlerts ==
  ASSUME TypeOK, NEW r \in Runs \cup {NoRun}, NEW st \in RunState,
         NEW V \in Victims(WithRun(r, st)) \cup {{}},
         runs' = Without(WithRun(r, st), V, NewRun),
         \A x \in Runs : Told(x, IF x = r /\ runs[x].paused = "no" THEN st.paused ELSE "no")
  PROVE  \A x \in Runs : RunAlerts(x)
<1> SUFFICES ASSUME NEW x \in Runs PROVE RunAlerts(x)
  OBVIOUS
<1> DEFINE map == WithRun(r, st)
<1>1. DOMAIN map = Runs /\ map[x] = IF x = r THEN st ELSE runs[x]
  BY WithRunFields
<1> HIDE DEF map
<1>2. runs'[x] = IF x \in V THEN NewRun ELSE map[x]
  BY <1>1 DEF Without, map
<1>3. x \in V => map[x].paused = "no"
  BY <1>1 DEF Victims, map
<1>4. runs'[x].paused = map[x].paused
  BY <1>2, <1>3, NewFields
<1>5. (IF x = r /\ runs[x].paused = "no" THEN st.paused ELSE "no")
        = IF runs[x].paused = "no" THEN runs'[x].paused ELSE "no"
  BY <1>1, <1>4
<1> QED
  BY <1>5 DEF RunAlerts

\* A look-up that keeps the day keeps the pause.
LEMMA SameDay ==
  ASSUME TypeOK, NEW k \in Keys, KeyOf(k).day = keys[k].day
  PROVE  KeyOf(k).paused = keys[k].paused
<1>1. KeyPauseHolds(k, KeyOf(k))
  BY LockedGrows DEF KeyGrows
<1>0. keys[k].day \in Nat /\ today \in Int
  BY DEF TypeOK, KeyState
<1>2. KeyOf(k).paused # "no" => keys[k].paused # "no"
  BY NewDayMakesNoPause DEF Paused
<1> QED
  BY <1>0, <1>1, <1>2 DEF KeyPauseHolds

LEMMA KeyReplacedAlerts ==
  ASSUME TypeOK, NEW k \in Keys \cup {NoKey}, NEW ks \in KeyState,
         k \in Keys => ks.day = KeyOf(k).day,
         NEW V \in Victims(WithKey(k, ks)) \cup {{}},
         keys' = Without(WithKey(k, ks), V, NewKey),
         \A x \in Keys : Told(x, IF x = k /\ KeyOf(x).paused = "no" THEN ks.paused ELSE "no"),
         k \in Keys => (KeyOf(k).paused # "no" => ks.paused # "no")
  PROVE  \A x \in Keys : KeyAlerts(x)
<1> SUFFICES ASSUME NEW x \in Keys PROVE KeyAlerts(x)
  OBVIOUS
<1> DEFINE map == WithKey(k, ks)
<1>1. DOMAIN map = Keys /\ map[x] = IF x = k THEN ks ELSE keys[x]
  BY WithKeyFields
<1> HIDE DEF map
<1>2. keys'[x] = IF x \in V THEN NewKey ELSE map[x]
  BY <1>1 DEF Without, map
<1>3. x \in V => map[x].paused = "no"
  BY <1>1 DEF Victims, map
<1>4. keys'[x].paused = map[x].paused
  BY <1>2, <1>3, NewFields
<1>5. CASE keys'[x].paused = "no"
  BY <1>1, <1>4, <1>5 DEF KeyAlerts
<1>6. CASE keys'[x].paused # "no" /\ x # k
  <2>1. keys'[x] = keys[x]
    BY <1>1, <1>2, <1>6, NewFields
  <2> QED
    BY <1>6, <2>1 DEF KeyAlerts, WasKey
<1>7. CASE keys'[x].paused # "no" /\ x = k
  <2>1. keys'[x] = ks /\ ks.day = KeyOf(k).day
    BY <1>1, <1>2, <1>7, NewFields
  <2>2. WasKey(x) = KeyOf(k).paused
    BY <1>7, <2>1, SameDay DEF WasKey
  <2> QED
    BY <1>7, <2>1, <2>2 DEF KeyAlerts
<1> QED
  BY <1>5, <1>6, <1>7

LEMMA QuietAlerts ==
  ASSUME UNCHANGED pending
  PROVE  /\ (\A x \in Runs : runs'[x].paused # "no" => runs[x].paused # "no") => \A x \in Runs : RunAlerts(x)
         /\ (\A x \in Keys : keys'[x].paused # "no" => keys[x].paused # "no" /\ keys'[x].day = keys[x].day)
              => \A x \in Keys : KeyAlerts(x)
<1>1. \A x : Told(x, "no")
  BY NothingTold
<1>2. ASSUME NEW x \in Runs, runs'[x].paused # "no" => runs[x].paused # "no" PROVE RunAlerts(x)
  BY <1>1, <1>2 DEF RunAlerts
<1>3. ASSUME NEW x \in Keys, keys'[x].paused # "no" => keys[x].paused # "no" /\ keys'[x].day = keys[x].day
      PROVE  KeyAlerts(x)
  BY <1>1, <1>3 DEF KeyAlerts, WasKey
<1> QED
  BY <1>2, <1>3

\* An admission: each hit pauses an entry that was not, and is told.
LEMMA AdmitAlerts ==
  ASSUME TypeOK, NEW r \in Runs \cup {NoRun}, NEW k \in Keys \cup {NoKey},
         NEW runHit \in RunPauses, NEW keyHit \in KeyPauses,
         runHit = "no" \/ r \in Runs, keyHit = "no" \/ k \in Keys,
         RunOf(r).paused # "no" => runHit = "no", KeyOf(k).paused # "no" => keyHit = "no",
         pending' = pending \o Stop(k, keyHit) \o Stop(r, runHit),
         NEW st \in {PauseFor(RunOf(r), runHit), Reserve(PauseFor(RunOf(r), runHit))},
         NEW ks \in {PauseFor(KeyOf(k), keyHit), Reserve(PauseFor(KeyOf(k), keyHit))},
         NEW V \in Victims(WithKey(k, ks)) \cup {{}},
         runs' = WithRun(r, st), keys' = Without(WithKey(k, ks), V, NewKey)
  PROVE  (\A x \in Runs : RunAlerts(x)) /\ (\A x \in Keys : KeyAlerts(x))
<1>1. /\ RunOf(r) \in RunState /\ KeyOf(k) \in KeyState
      /\ r \in Runs => RunOf(r).paused = runs[r].paused
  BY RunOfFields, KeyOfFields
<1>2. /\ st \in RunState /\ st.paused = IF runHit = "no" THEN RunOf(r).paused ELSE runHit
      /\ ks \in KeyState /\ ks.paused = IF keyHit = "no" THEN KeyOf(k).paused ELSE keyHit
  BY <1>1, RunPauseFor, KeyPauseFor
<1>3. ks.day = KeyOf(k).day
  BY <1>1, ReserveSameTally DEF SameTally
<1>4. runs' = Without(WithRun(r, st), {}, NewRun)
  BY <1>2, WithRunFields, NoVictims
<1>5. /\ \A x \in Runs : Told(x, IF x = r THEN runHit ELSE "no")
      /\ \A x \in Keys : Told(x, IF x = k THEN keyHit ELSE "no")
  BY TwoStops
<1>6. \A x \in Runs : Told(x, IF x = r /\ runs[x].paused = "no" THEN st.paused ELSE "no")
  <2>1. \A x \in Runs : (IF x = r /\ runs[x].paused = "no" THEN st.paused ELSE "no")
                          = IF x = r THEN runHit ELSE "no"
    BY <1>1, <1>2
  <2> QED
    BY <1>5, <2>1
<1>7. \A x \in Keys : Told(x, IF x = k /\ KeyOf(x).paused = "no" THEN ks.paused ELSE "no")
  <2>1. \A x \in Keys : (IF x = k /\ KeyOf(x).paused = "no" THEN ks.paused ELSE "no")
                          = IF x = k THEN keyHit ELSE "no"
    BY <1>2
  <2> QED
    BY <1>5, <2>1
<1>8. \A x \in Runs : RunAlerts(x)
  BY <1>2, <1>4, <1>6, RunReplacedAlerts
<1>9. \A x \in Keys : KeyAlerts(x)
  BY <1>2, <1>3, <1>7, KeyReplacedAlerts
<1> QED
  BY <1>8, <1>9

LEMMA CallAlerts ==
  ASSUME TypeOK, NEW c \in Calls, CallStep(c)
  PROVE  (\A x \in Runs : RunAlerts(x)) /\ (\A x \in Keys : KeyAlerts(x))
<1>1. ASSUME NEW r \in Runs \cup {NoRun}, NEW k \in Keys \cup {NoKey}
      PROVE  /\ RunHit(r, k) \in RunPauses /\ KeyHit(r, k) \in KeyPauses
             /\ "no" \in RunPauses /\ "no" \in KeyPauses
             /\ RunHit(r, k) = "no" \/ r \in Runs
             /\ KeyHit(r, k) = "no" \/ k \in Keys
             /\ RunOf(r).paused # "no" => RunHit(r, k) = "no"
             /\ KeyOf(k).paused # "no" => KeyHit(r, k) = "no"
  <2>1. /\ RunHit(r, k) \in RunPauses /\ KeyHit(r, k) \in KeyPauses
        /\ "no" \in RunPauses /\ "no" \in KeyPauses
    BY HitTypes DEF RunPauses, KeyPauses
  <2>2. /\ RunHit(r, k) = "no" \/ r \in Runs
        /\ KeyHit(r, k) = "no" \/ k \in Keys
        /\ RunOf(r).paused # "no" => RunHit(r, k) = "no"
        /\ KeyOf(k).paused # "no" => KeyHit(r, k) = "no"
    BY DEF RunHit, KeyHit, Held
  <2> QED
    BY <2>1, <2>2
<1>2. ASSUME NEW r \in Runs \cup {NoRun}, NEW k \in Keys \cup {NoKey},
             NEW runHit \in RunPauses, NEW keyHit \in KeyPauses, NEW u \in BOOLEAN,
             runHit = "no" \/ r \in Runs, keyHit = "no" \/ k \in Keys,
             RunOf(r).paused # "no" => runHit = "no", KeyOf(k).paused # "no" => keyHit = "no",
             LetThrough(c, r, k, runHit, keyHit, u)
      PROVE  (\A x \in Runs : RunAlerts(x)) /\ (\A x \in Keys : KeyAlerts(x))
  <2> DEFINE ks == Reserve(PauseFor(KeyOf(k), keyHit))
  <2>1. /\ runs' = WithRun(r, Reserve(PauseFor(RunOf(r), runHit)))
        /\ pending' = pending \o Stop(k, keyHit) \o Stop(r, runHit)
    BY <1>2 DEF LetThrough
  <2>2. PICK V \in Victims(WithKey(k, ks)) \cup {{}} : keys' = Without(WithKey(k, ks), V, NewKey)
    BY <1>2 DEF LetThrough
  <2> QED
    BY <1>2, <2>1, <2>2, AdmitAlerts
<1>3. ASSUME NEW r \in Runs \cup {NoRun}, NEW k \in Keys \cup {NoKey},
             AdmitServed(c, r, k) \/ AdmitForced(c, r, k) \/ AdmitShadow(c, r, k)
      PROVE  (\A x \in Runs : RunAlerts(x)) /\ (\A x \in Keys : KeyAlerts(x))
  <2>1. \/ LetThrough(c, r, k, "no", "no", FALSE) \/ LetThrough(c, r, k, "no", "no", TRUE)
        \/ LetThrough(c, r, k, RunHit(r, k), KeyHit(r, k), TRUE)
    BY <1>3 DEF AdmitServed, AdmitForced, AdmitShadow
  <2> QED
    BY <1>1, <1>2, <2>1
<1>4. ASSUME NEW r \in Runs \cup {NoRun}, NEW k \in Keys \cup {NoKey}, AdmitRefused(c, r, k)
      PROVE  (\A x \in Runs : RunAlerts(x)) /\ (\A x \in Keys : KeyAlerts(x))
  <2> DEFINE st == PauseFor(RunOf(r), RunHit(r, k))
             ks == PauseFor(KeyOf(k), KeyHit(r, k))
  <2>1. /\ runs' = WithRun(r, st) /\ keys' = WithKey(k, ks)
        /\ pending' = pending \o Stop(k, KeyHit(r, k)) \o Stop(r, RunHit(r, k))
    BY <1>4 DEF AdmitRefused
  <2>2. ks \in KeyState
    BY <1>1, KeyOfFields, KeyPauseFor
  <2>3. keys' = Without(WithKey(k, ks), {}, NewKey)
    BY <2>1, <2>2, WithKeyFields, NoVictims
  <2> QED
    BY <1>1, <2>1, <2>3, AdmitAlerts
<1>5. ASSUME NEW cost \in Costs, NEW l \in BOOLEAN, Record(c, cost, l)
      PROVE  (\A x \in Runs : RunAlerts(x)) /\ (\A x \in Keys : KeyAlerts(x))
  <2> DEFINE r  == calls[c].run
             k  == calls[c].key
             st == SettleRun(RunOf(r), cost, l)
             ks == SettleKey(KeyOf(k), cost)
             a  == IF k = NoKey \/ KeyOf(k).paused # "no" THEN "no" ELSE ks.paused
             b  == IF r = NoRun \/ RunOf(r).paused # "no" THEN "no" ELSE st.paused
  <2>1. PICK VR \in Victims(WithRun(r, st)) \cup {{}} : runs' = Without(WithRun(r, st), VR, NewRun)
    BY <1>5 DEF Record
  <2>2. PICK VK \in Victims(WithKey(k, ks)) \cup {{}} : keys' = Without(WithKey(k, ks), VK, NewKey)
    BY <1>5 DEF Record
  <2>3. pending' = pending \o Stop(k, a) \o Stop(r, b)
    <3>1. pending' = pending \o (IF k = NoKey THEN <<>> ELSE StopIf(k, KeyOf(k), ks))
                             \o (IF r = NoRun THEN <<>> ELSE StopIf(r, RunOf(r), st))
      BY <1>5 DEF Record
    <3>2. /\ Stop(k, a) = IF k = NoKey THEN <<>> ELSE StopIf(k, KeyOf(k), ks)
          /\ Stop(r, b) = IF r = NoRun THEN <<>> ELSE StopIf(r, RunOf(r), st)
      BY DEF StopIf, Stop
    <3> QED
      BY <3>1, <3>2
  <2>4. r \in Runs \cup {NoRun} /\ k \in Keys \cup {NoKey} /\ cost \in Nat
    BY CallNames, CallerAssumption
  <2> HIDE DEF r, k
  <2>5. /\ st \in RunState /\ (r \in Runs => RunOf(r).paused = runs[r].paused)
        /\ st.paused \in RunPauses
    BY <2>4, RunOfFields, SettleRunFields DEF RunState
  <2>6. /\ ks \in KeyState /\ ks.day = KeyOf(k).day /\ ks.paused \in KeyPauses
        /\ KeyOf(k).paused # "no" => ks.paused # "no"
    BY <2>4, KeyOfFields, SettleKeyFields, SettleKeepsDay DEF KeyState
  <2> HIDE DEF st, ks
  <2>7. /\ a \in KeyPauses /\ b \in RunPauses
        /\ a = "no" \/ k \in Keys
        /\ b = "no" \/ r \in Runs
    BY <2>4, <2>5, <2>6 DEF RunPauses, KeyPauses
  <2>8. /\ \A x \in Runs : Told(x, IF x = r THEN b ELSE "no")
        /\ \A x \in Keys : Told(x, IF x = k THEN a ELSE "no")
    <3> HIDE DEF a, b
    <3> QED
      BY <2>3, <2>4, <2>7, TwoStops
  <2>9. \A x \in Runs : Told(x, IF x = r /\ runs[x].paused = "no" THEN st.paused ELSE "no")
    <3>1. \A x \in Runs : (IF x = r /\ runs[x].paused = "no" THEN st.paused ELSE "no")
                            = IF x = r THEN b ELSE "no"
      BY <2>5, IdsAssumption
    <3> QED
      BY <2>8, <3>1
  <2>10. \A x \in Keys : Told(x, IF x = k /\ KeyOf(x).paused = "no" THEN ks.paused ELSE "no")
    <3>1. \A x \in Keys : (IF x = k /\ KeyOf(x).paused = "no" THEN ks.paused ELSE "no")
                            = IF x = k THEN a ELSE "no"
      BY IdsAssumption
    <3> QED
      BY <2>8, <3>1
  <2> HIDE DEF a, b
  <2>11. \A x \in Runs : RunAlerts(x)
    BY <2>1, <2>4, <2>5, <2>9, RunReplacedAlerts
  <2>12. \A x \in Keys : KeyAlerts(x)
    BY <2>2, <2>4, <2>6, <2>10, KeyReplacedAlerts
  <2> QED
    BY <2>11, <2>12
<1>6. CASE Release(c)
  <2>1. /\ \A x \in Runs : Released(runs[x]).paused = runs[x].paused
        /\ \A x \in Keys : /\ Released(keys[x]).paused = keys[x].paused
                           /\ Released(keys[x]).day = keys[x].day
    BY DEF Released, TypeOK, RunState, KeyState
  <2>2. \A x \in Runs : runs'[x] = runs[x] \/ runs'[x] = Released(runs[x])
    BY <1>6 DEF Release, TypeOK
  <2>3. \A x \in Keys : keys'[x] = keys[x] \/ keys'[x] = Released(keys[x])
    BY <1>6 DEF Release, TypeOK
  <2>4. UNCHANGED pending
    BY <1>6 DEF Release
  <2> QED
    BY <2>1, <2>2, <2>3, <2>4, QuietAlerts
<1>7. CASE AdmitKilled(c)
  BY <1>7, QuietAlerts DEF AdmitKilled
<1> QED
  BY <1>3, <1>4, <1>5, <1>6, <1>7 DEF CallStep

LEMMA RunStepAlerts ==
  ASSUME TypeOK, NEW r \in Runs, RunStep(r)
  PROVE  (\A x \in Runs : RunAlerts(x)) /\ (\A x \in Keys : KeyAlerts(x))
<1>0. UNCHANGED pending /\ UNCHANGED keys
  BY DEF RunStep, NoteRun, SetRunCap, ResumeRun, MarkPaused
<1>1. \A x \in Keys : KeyAlerts(x)
  BY <1>0, QuietAlerts
<1>2. CASE NoteRun(r)
  <2>1. \A x \in Runs : runs'[x].paused = runs[x].paused
    BY <1>2 DEF NoteRun, TypeOK, RunState
  <2> QED
    BY <1>0, <1>1, <2>1, QuietAlerts
<1>3. ASSUME NEW cap \in RequestCaps, SetRunCap(r, cap) PROVE \A x \in Runs : RunAlerts(x)
  <2>1. PICK st \in RunState : /\ st.paused = runs[r].paused
                               /\ \E V \in Victims(WithRun(r, st)) : runs' = Without(WithRun(r, st), V, NewRun)
    BY <1>3, CapEntry
  <2>2. \A x \in Runs : (IF x = r /\ runs[x].paused = "no" THEN st.paused ELSE "no") = "no"
    BY <2>1
  <2>3. \A x \in Runs : Told(x, IF x = r /\ runs[x].paused = "no" THEN st.paused ELSE "no")
    BY <1>0, <2>2, NothingTold
  <2> QED
    BY <2>1, <2>3, RunReplacedAlerts
<1>4. CASE ResumeRun(r)
  <2>1. \A x \in Runs : runs'[x] = IF x = r THEN ResumedRun(runs[r]) ELSE runs[x]
    BY <1>4 DEF ResumeRun, TypeOK
  <2>2. ResumedRun(runs[r]).paused = "no"
    BY DEF ResumedRun, TypeOK, RunState
  <2> QED
    BY <1>0, <1>1, <2>1, <2>2, QuietAlerts
<1>5. CASE \E reason \in RunPauses \ {"no"} : MarkPaused(r, reason)
  <2>1. Fallback
    BY <1>5 DEF MarkPaused
  <2> QED
    BY <1>0, <1>1, <2>1, NothingTold DEF RunAlerts
<1> QED
  BY <1>1, <1>2, <1>3, <1>4, <1>5 DEF RunStep

LEMMA KeyStepAlerts ==
  ASSUME TypeOK, NEW k \in Keys, KeyStep(k)
  PROVE  (\A x \in Runs : RunAlerts(x)) /\ (\A x \in Keys : KeyAlerts(x))
<1>0. UNCHANGED pending /\ UNCHANGED runs
  BY DEF KeyStep, NoteKey, ResumeKey, MarkKeyPaused
<1>1. \A x \in Runs : RunAlerts(x)
  BY <1>0, QuietAlerts
<1>2. CASE NoteKey(k)
  <2>1. KeyOf(k) \in KeyState
    BY KeyOfFields
  <2>2. PICK V \in Victims(WithKey(k, KeyOf(k))) : keys' = Without(WithKey(k, KeyOf(k)), V, NewKey)
    BY <1>2 DEF NoteKey
  <2>3. \A x \in Keys : (IF x = k /\ KeyOf(x).paused = "no" THEN KeyOf(k).paused ELSE "no") = "no"
    OBVIOUS
  <2>4. \A x \in Keys : Told(x, IF x = k /\ KeyOf(x).paused = "no" THEN KeyOf(k).paused ELSE "no")
    BY <1>0, <2>3, NothingTold
  <2> QED
    BY <1>1, <2>1, <2>2, <2>4, KeyReplacedAlerts
<1>3. CASE ResumeKey(k)
  <2>1. \A x \in Keys : keys'[x] = IF x = k THEN ResumedKey(keys[k]) ELSE keys[x]
    BY <1>3 DEF ResumeKey, TypeOK
  <2>2. ResumedKey(keys[k]).paused = "no"
    BY ResumedKeyFields DEF TypeOK
  <2> QED
    BY <1>0, <1>1, <2>1, <2>2, QuietAlerts
<1>4. CASE \E reason \in KeyPauses \ {"no"} : MarkKeyPaused(k, reason)
  <2>1. Fallback
    BY <1>4 DEF MarkKeyPaused
  <2> QED
    BY <1>0, <1>1, <2>1, NothingTold DEF KeyAlerts
<1> QED
  BY <1>1, <1>2, <1>3, <1>4 DEF KeyStep

LEMMA StepAlerts ==
  ASSUME TypeOK, [Next]_vars, pending' # <<>> \/ pending = <<>>
  PROVE  (\A x \in Runs : RunAlerts(x)) /\ (\A x \in Keys : KeyAlerts(x))
<1>1. \/ \E c \in Calls : CallStep(c)
      \/ \E r \in Runs : RunStep(r)
      \/ \E k \in Keys : KeyStep(k)
      \/ UNCHANGED <<runs, keys, pending>>
  BY DEF Next, SetKilled, Dispatch, Tick, WallClock, vars
<1>2. UNCHANGED <<runs, keys, pending>> => (\A x \in Runs : RunAlerts(x)) /\ (\A x \in Keys : KeyAlerts(x))
  BY QuietAlerts
<1> QED
  BY <1>1, <1>2, CallAlerts, RunStepAlerts, KeyStepAlerts

-----------------------------------------------------------------------------
(* The theorems. *)

LEMMA ResumedSpends ==
  ASSUME TypeOK, NEW k \in Keys
  PROVE  LET new == ResumedKey(keys[k])
         IN  /\ new.day = keys[k].day /\ new.paused = "no"
             /\ new.lifeSpend = IF keys[k].paused = "day" THEN keys[k].lifeSpend ELSE 0
<1> DEFINE ks == keys[k]
           Cleared(n, spend) == [ks EXCEPT !.paused = "no", !.dayCalls = 0, !.daySpend = 0,
                                           !.inflight = 0, !.lifeCalls = n, !.lifeSpend = spend]
<1>1. ks \in KeyState
  BY DEF TypeOK
<1>2. ResumedKey(ks) = IF ks.paused = "day" THEN Cleared(ks.lifeCalls, ks.lifeSpend) ELSE Cleared(0, 0)
  BY DEF ResumedKey
<1> HIDE DEF ks
<1>3. \A n, spend : Cleared(n, spend).lifeSpend = spend
  BY <1>1 DEF KeyState
<1>4. ResumedKey(ks).day = ks.day /\ ResumedKey(ks).paused = "no"
  BY <1>1, ResumedKeyFields
<1> HIDE DEF Cleared
<1> QED
  BY <1>2, <1>3, <1>4 DEF ks

\* A pause stands until an operator resumes it, for every policy and every
\* interleaving: no settle, eviction or new day lifts a pause of a run or the
\* total pause of a key (keyLocked, recordKeyed, evict and evictKeys).
THEOREM PauseStandsCorrect == Spec => PauseStands
<1>1. ASSUME TypeOK, [Next]_vars
      PROVE  /\ \A r \in Runs :
                  runs[r].paused \notin {"no", runs'[r].paused} /\ ~Fallback => runs'[r] = ResumedRun(runs[r])
             /\ \A k \in Keys :
                  keys[k].paused \notin {"no", keys'[k].paused} /\ ~Fallback =>
                    \/ keys'[k] = ResumedKey(keys[k])
                    \/ /\ keys[k].paused = "day" /\ today > keys[k].day
                       /\ keys'[k].day = today \/ keys'[k] = NewKey
  BY <1>1, StepRunFollows, StepFollows DEF RunFollows, KeyFollows, KeyPauseHolds
<1> QED
  BY <1>1, TypeCorrect, PTL DEF Spec, PauseStands

\* The daily and the total tally of a key are cut only by what may cut them,
\* for every policy and clock: a wall clock stepped back cuts none (keyLocked).
THEOREM KeyTallyCorrect == Spec => KeyTallyKept
<1>1. ASSUME TypeOK, [Next]_vars
      PROVE  \A k \in Keys :
               keys'[k] # NewKey =>
                 /\ keys'[k].daySpend < keys[k].daySpend =>
                      today > keys[k].day \/ keys'[k] = ResumedKey(keys[k])
                 /\ keys'[k].lifeSpend < keys[k].lifeSpend =>
                      keys[k].paused = "total" /\ keys'[k].paused = "no"
                 /\ keys[k].tracked => keys'[k].day >= keys[k].day
  <2> SUFFICES ASSUME NEW k \in Keys, keys'[k] # NewKey
               PROVE  /\ keys'[k].daySpend < keys[k].daySpend =>
                           today > keys[k].day \/ keys'[k] = ResumedKey(keys[k])
                      /\ keys'[k].lifeSpend < keys[k].lifeSpend =>
                           keys[k].paused = "total" /\ keys'[k].paused = "no"
                      /\ keys[k].tracked => keys'[k].day >= keys[k].day
    BY <1>1
  <2>1. keys[k] \in KeyState /\ keys'[k] \in KeyState
    BY <1>1, StepType DEF TypeOK
  <2>2. /\ keys[k].lifeSpend \in Nat /\ keys'[k].lifeSpend \in Nat /\ keys[k].day \in Nat
        /\ keys[k].paused \in {"no", "day", "total"}
    BY <2>1 DEF KeyState, KeyPauses
  <2>3. CASE KeyTallyGrows(k, keys'[k])
    BY <2>2, <2>3 DEF KeyTallyGrows
  <2>4. CASE keys'[k] = ResumedKey(keys[k]) /\ keys[k].paused # "no"
    BY <1>1, <2>2, <2>4, ResumedSpends
  <2> QED
    BY <1>1, <2>3, <2>4, StepFollows DEF KeyFollows
<1> QED
  BY <1>1, TypeCorrect, PTL DEF Spec, KeyTallyKept

\* A bounded map drops what was seen least recently, whatever the policy and
\* the bound: no run or key still active was seen before a dropped one (evict
\* and evictKeys).
THEOREM DropsLeastRecentCorrect == Spec => DropsLeastRecent
<1>1. Init => Seen
  BY DEF Init, Seen, NewRun, NewKey
<1>2. TypeOK /\ TypeOK' /\ Seen /\ [Next]_vars => Seen'
  BY StepSeen
<1>3. ASSUME TypeOK, TypeOK', Seen, [Next]_vars
      PROVE  /\ \A x \in Dropped(runs, runs'), y \in Runs :
                  runs'[y].tracked /\ runs'[y].paused = "no" => runs[x].lastSeen <= runs'[y].lastSeen
             /\ \A x \in Dropped(keys, keys'), y \in Keys :
                  keys'[y].tracked /\ keys'[y].paused = "no" => keys[x].lastSeen <= keys'[y].lastSeen
  BY <1>3, StepSeen DEF DropsOld
<1> QED
  BY <1>1, <1>2, <1>3, TypeCorrect, PTL DEF Spec, DropsLeastRecent

\* One stop, one alert, for every policy and interleaving: a step queues one
\* event, with the reason, for each entry it pauses and none for any other
\* (pauseLocked, pauseKeyLocked and their callers).
THEOREM OneAlertCorrect == Spec => OneAlertPerStop
<1>1. ASSUME TypeOK, [Next]_vars
      PROVE  pending' # <<>> \/ pending = <<>> =>
               \A x \in Runs \cup Keys :
                 LET was == IF x \in Runs THEN runs[x].paused
                            ELSE IF keys'[x].day = keys[x].day THEN keys[x].paused ELSE KeyOf(x).paused
                     is  == IF x \in Runs THEN runs'[x].paused ELSE keys'[x].paused
                     new == EventsOf(x, pending') \ EventsOf(x, pending)
                 IN  /\ ~Fallback => (new # {} <=> was = "no" /\ is # "no")
                     /\ Cardinality(new) <= 1
                     /\ \A i \in new : was = "no" /\ pending'[i].reason = is
  <2> SUFFICES ASSUME pending' # <<>> \/ pending = <<>>, NEW x \in Runs \cup Keys
               PROVE  LET was == IF x \in Runs THEN runs[x].paused ELSE WasKey(x)
                          is  == IF x \in Runs THEN runs'[x].paused ELSE keys'[x].paused
                          new == EventsOf(x, pending') \ EventsOf(x, pending)
                      IN  /\ ~Fallback => (new # {} <=> was = "no" /\ is # "no")
                          /\ Cardinality(new) <= 1
                          /\ \A i \in new : was = "no" /\ pending'[i].reason = is
    BY DEF WasKey
  <2> DEFINE was == IF x \in Runs THEN runs[x].paused ELSE WasKey(x)
             is  == IF x \in Runs THEN runs'[x].paused ELSE keys'[x].paused
             new == EventsOf(x, pending') \ EventsOf(x, pending)
  <2>1. Told(x, IF was = "no" THEN is ELSE "no") \/ (Fallback /\ Told(x, "no"))
    BY <1>1, StepAlerts DEF RunAlerts, KeyAlerts
  <2> HIDE DEF was, is
  <2>2. \/ /\ new = {}
           /\ Fallback \/ ~(was = "no" /\ is # "no")
        \/ /\ was = "no" /\ is # "no"
           /\ \E i \in DOMAIN pending' : new = {i} /\ pending'[i].reason = is
    BY <2>1 DEF Told
  <2> HIDE DEF new
  <2>3. Cardinality({}) = 0 /\ \A i : Cardinality({i}) = 1
    BY FS_EmptySet, FS_Singleton
  <2>4. Cardinality(new) <= 1
    <3>1. Cardinality(new) = 0 \/ Cardinality(new) = 1
      BY <2>2, <2>3
    <3> QED
      BY <3>1
  <2>5. (~Fallback => (new # {} <=> was = "no" /\ is # "no"))
    BY <2>2
  <2>6. \A i \in new : was = "no" /\ pending'[i].reason = is
    BY <2>2
  <2> QED
    BY <2>4, <2>5, <2>6 DEF was, is, new
<1> QED
  BY <1>1, TypeCorrect, PTL DEF Spec, OneAlertPerStop
=============================================================================
