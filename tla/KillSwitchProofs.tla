-------------------------- MODULE KillSwitchProofs --------------------------
(***************************************************************************)
(* Theorems about KillSwitch for any gateways, calls and orders: type      *)
(* correctness, the agreement of mirror and fallback, that an engaged      *)
(* switch holds and that the store ends with the newest order.             *)
(*                                                                         *)
(* The last two rest on one argument.  As long as no race has put an older *)
(* state over a newer one, every write of the switch writes what was       *)
(* ordered last; so wherever an order of a gateway may be taken for        *)
(* landed (not dirty, or a write of the newest generation about to clear   *)
(* the mark), the store has it (Lands).  A gateway whose own newest order  *)
(* engaged the switch, or that has a call under way since, keeps it in its *)
(* mirror (OnKept), and the thread of such a call carries "engaged" in     *)
(* whatever it will decide by (UnderKept).                                 *)
(***************************************************************************)
EXTENDS KillSwitch, TLAPS

Live == {"asking", "answered", "failed", "deciding"}

\* A write or a mark of g's newest generation is in the store as `on`.
Lands(g, on) ==
  /\ ~dirty[g] => engaged = on
  /\ \A o \in Orders :
       order[o].pc = "sent" /\ order[o].gw = g /\ order[o].gen = gen[g] => engaged = on
  /\ delivery[g].pc = "clear" /\ delivery[g].gen = gen[g] => engaged = on

\* Generations only grow.
GenerationsBounded ==
  /\ \A o \in Orders : order[o].gen <= gen[order[o].gw]
  /\ \A g \in Gateways : delivery[g].gen <= gen[g]

\* The switch was engaged at g and not cleared since, as far as the newest
\* order or a call under way tells.
On(g) ==
  \/ last.on /\ last.gw = g
  \/ \E c \in Calls : call[c].under /\ call[c].pc \in Live /\ call[c].gw = g

OnKept == \A g \in Gateways : On(g) => last.on /\ killed[g] /\ Lands(g, TRUE)

Carries(c) ==
  /\ call[c].pc = "asking" => engaged
  /\ call[c].pc = "answered" => call[c].answer
  /\ call[c].pc = "deciding" => fallbacks[call[c].gw][call[c].ptr]
  /\ call[c].pc # "served"

UnderKept == \A c \in Calls : call[c].under => Carries(c)

Safe == Lands(last.gw, last.on) /\ OnKept /\ UnderKept

KillInv ==
  /\ TypeOK /\ FallbackAgrees /\ GenerationsBounded
  /\ excused = {} => Safe

-----------------------------------------------------------------------------
(* Type correctness. *)

\* One gateway's fallbacks after a new one is built, or the switch of the
\* newest one is set: never empty, never shorter, and the last one is as set.
LEMMA GrownFallbacks ==
  ASSUME NEW s \in Seq(BOOLEAN) \ {<<>>}, NEW b \in BOOLEAN
  PROVE  /\ Append(s, b) \in Seq(BOOLEAN) \ {<<>>}
         /\ Len(Append(s, b)) = Len(s) + 1
         /\ Append(s, b)[Len(Append(s, b))] = b
         /\ \A i \in 1..Len(s) : Append(s, b)[i] = s[i]
  OBVIOUS

LEMMA SetFallbacks ==
  ASSUME NEW s \in Seq(BOOLEAN) \ {<<>>}, NEW b \in BOOLEAN
  PROVE  /\ [s EXCEPT ![Len(s)] = b] \in Seq(BOOLEAN) \ {<<>>}
         /\ Len([s EXCEPT ![Len(s)] = b]) = Len(s)
         /\ [s EXCEPT ![Len(s)] = b][Len(s)] = b
         /\ \A i \in 1..Len(s) : i # Len(s) => [s EXCEPT ![Len(s)] = b][i] = s[i]
  OBVIOUS

\* A step adds at most one fallback, to gateway g, with switch b.
GrownAt(g, b) ==
  \/ fallbacks' = fallbacks
  \/ fallbacks' = [fallbacks EXCEPT ![g] = Append(@, b)]

\* A step sets the switch of g's newest fallback.
SetAt(g, b) == fallbacks' = [fallbacks EXCEPT ![g][Local(g)] = b]

LEMMA GrownTyped ==
  ASSUME TypeOK, NEW g \in Gateways, NEW b \in BOOLEAN, GrownAt(g, b)
  PROVE  /\ fallbacks' \in [Gateways -> Seq(BOOLEAN) \ {<<>>}]
         /\ \A h \in Gateways : h # g => fallbacks'[h] = fallbacks[h]
         /\ Len(fallbacks'[g]) >= Len(fallbacks[g])
         /\ \A i \in 1..Len(fallbacks[g]) : fallbacks'[g][i] = fallbacks[g][i]
         /\ fallbacks' # fallbacks => fallbacks'[g][Len(fallbacks'[g])] = b
<1>1. fallbacks[g] \in Seq(BOOLEAN) \ {<<>>} /\ Len(fallbacks[g]) \in Nat
  BY DEF TypeOK
<1>2. CASE fallbacks' = fallbacks
  BY <1>1, <1>2 DEF TypeOK
<1>3. CASE fallbacks' = [fallbacks EXCEPT ![g] = Append(@, b)]
  <2> DEFINE f == Append(fallbacks[g], b)
  <2>1. /\ f \in Seq(BOOLEAN) \ {<<>>} /\ Len(f) = Len(fallbacks[g]) + 1 /\ f[Len(f)] = b
        /\ \A i \in 1..Len(fallbacks[g]) : f[i] = fallbacks[g][i]
    BY <1>1, GrownFallbacks
  <2>2. fallbacks'[g] = f /\ \A h \in Gateways : h # g => fallbacks'[h] = fallbacks[h]
    BY <1>3 DEF TypeOK
  <2>3. fallbacks' \in [Gateways -> Seq(BOOLEAN) \ {<<>>}]
    BY <1>3, <2>1 DEF TypeOK
  <2> HIDE DEF f
  <2> QED  BY <1>1, <2>1, <2>2, <2>3
<1> QED  BY <1>2, <1>3 DEF GrownAt

LEMMA SetTyped ==
  ASSUME TypeOK, NEW g \in Gateways, NEW b \in BOOLEAN, SetAt(g, b)
  PROVE  /\ fallbacks' \in [Gateways -> Seq(BOOLEAN) \ {<<>>}]
         /\ \A h \in Gateways : h # g => fallbacks'[h] = fallbacks[h]
         /\ Len(fallbacks'[g]) = Len(fallbacks[g])
         /\ \A i \in 1..Len(fallbacks[g]) :
              fallbacks'[g][i] = IF i = Len(fallbacks[g]) THEN b ELSE fallbacks[g][i]
<1> DEFINE f == [fallbacks[g] EXCEPT ![Len(fallbacks[g])] = b]
<1>1. fallbacks[g] \in Seq(BOOLEAN) \ {<<>>} /\ Len(fallbacks[g]) \in Nat
  BY DEF TypeOK
<1>2. /\ f \in Seq(BOOLEAN) \ {<<>>} /\ Len(f) = Len(fallbacks[g]) /\ f[Len(fallbacks[g])] = b
      /\ \A i \in 1..Len(fallbacks[g]) : i # Len(fallbacks[g]) => f[i] = fallbacks[g][i]
  BY <1>1, SetFallbacks
<1>3. fallbacks' = [fallbacks EXCEPT ![g] = f]
  BY DEF SetAt, Local
<1> HIDE DEF f
<1>4. fallbacks'[g] = f /\ \A h \in Gateways : h # g => fallbacks'[h] = fallbacks[h]
  BY <1>3 DEF TypeOK
<1>5. fallbacks' \in [Gateways -> Seq(BOOLEAN) \ {<<>>}]
  BY <1>2, <1>3 DEF TypeOK
<1> QED  BY <1>1, <1>2, <1>4, <1>5

\* What fail() does to the gateway.
LEMMA FailEffect ==
  ASSUME TypeOK, NEW g \in Gateways, NEW failure, Fail(g, failure)
  PROVE  /\ degraded' \in [Gateways -> BOOLEAN]
         /\ streak' \in [Gateways -> 0..(FailStreakToDegrade - 1)]
         /\ GrownAt(g, killed[g])
<1>1. CASE degraded[g] \/ failure \in {"busy", "refused"}
  BY <1>1 DEF Fail, TypeOK, GrownAt
<1>2. CASE ~(degraded[g] \/ failure \in {"busy", "refused"}) /\ Degrade(g)
  BY <1>2, KillAssumption DEF Degrade, TypeOK, GrownAt
<1>3. CASE /\ ~(degraded[g] \/ failure \in {"busy", "refused"})
           /\ ~(failure = "dead" \/ streak[g] + 1 >= FailStreakToDegrade)
  <2>1. streak' = [streak EXCEPT ![g] = @ + 1] /\ degraded' = degraded /\ fallbacks' = fallbacks
    BY <1>3 DEF Fail
  <2>2. streak[g] + 1 \in 0..(FailStreakToDegrade - 1)
    BY <1>3, KillAssumption DEF TypeOK
  <2> QED  BY <2>1, <2>2 DEF TypeOK, GrownAt
<1> QED  BY <1>1, <1>2, <1>3 DEF Fail

LEMMA AnsweredTyped ==
  ASSUME TypeOK, NEW g \in Gateways, Answered(g)
  PROVE  streak' \in [Gateways -> 0..(FailStreakToDegrade - 1)]
  BY KillAssumption DEF TypeOK, Answered

LEMMA FaultTyped ==
  ASSUME TypeOK, NEW failure, NEW ran, Fault(failure, ran)
  PROVE  faults' \in 0..MaxFaults
  BY KillAssumption DEF TypeOK, Fault

\* Fallbacks never get fewer, so a thread that is not touched keeps its own.
LongerAt(g) ==
  /\ \A h \in Gateways : h # g => fallbacks'[h] = fallbacks[h]
  /\ Len(fallbacks'[g]) >= Len(fallbacks[g])

PtrInRange(c) == call[c].pc # "idle" => call[c].ptr \in 1..Len(fallbacks[call[c].gw])

LEMMA PtrKept ==
  ASSUME TypeOK, fallbacks' \in [Gateways -> Seq(BOOLEAN) \ {<<>>}], NEW g \in Gateways, LongerAt(g),
         NEW c \in Calls, call'[c].ptr = call[c].ptr, call'[c].gw = call[c].gw, call[c].pc # "idle"
  PROVE  PtrInRange(c)'
<1>1. call[c].gw \in Gateways /\ call[c].ptr \in 1..Len(fallbacks[call[c].gw])
  BY DEF TypeOK, CallThreads
<1>2. Len(fallbacks[call[c].gw]) \in Nat /\ Len(fallbacks'[call[c].gw]) \in Nat
  BY <1>1 DEF TypeOK
<1> QED  BY <1>1, <1>2 DEF PtrInRange, LongerAt

LEMMA TypeInit == Init => TypeOK
<1> SUFFICES ASSUME Init PROVE TypeOK
  OBVIOUS
<1> DEFINE g0 == CHOOSE g \in Gateways : TRUE
<1>1. g0 \in Gateways
  BY KillAssumption
<1> HIDE DEF g0
<1>2. <<FALSE>> \in Seq(BOOLEAN) \ {<<>>} /\ 0 \in 0..(FailStreakToDegrade - 1)
      /\ 0 \in 0..WriteBackPasses /\ 0 \in Nat /\ 0 \in 0..MaxFaults
  BY KillAssumption
<1>3. delivery \in [Gateways -> Deliveries] /\ recover \in [Gateways -> Recoveries]
  BY <1>2 DEF Init, NoDelivery, Deliveries, Recoveries
<1>4. order \in [Orders -> OrderThreads] /\ call \in [Calls -> CallThreads]
  BY <1>1, <1>2 DEF Init, OrderThreads, CallThreads, g0
<1>5. last \in [on: BOOLEAN, gw: Gateways]
  BY <1>1 DEF Init, g0
<1>6. \A c \in Calls : call[c].pc = "idle"
  BY DEF Init
<1>7. /\ fallbacks \in [Gateways -> Seq(BOOLEAN) \ {<<>>}]
      /\ streak \in [Gateways -> 0..(FailStreakToDegrade - 1)]
      /\ gen \in [Gateways -> Nat]
  BY <1>2 DEF Init
<1> QED  BY <1>2, <1>3, <1>4, <1>5, <1>6, <1>7 DEF Init, TypeOK, Races

\* The type of everything but the fallbacks and the calls' pointers to them.
FieldsTyped ==
  /\ engaged \in BOOLEAN
  /\ killed \in [Gateways -> BOOLEAN] /\ dirty \in [Gateways -> BOOLEAN]
  /\ degraded \in [Gateways -> BOOLEAN]
  /\ gen \in [Gateways -> Nat]
  /\ streak \in [Gateways -> 0..(FailStreakToDegrade - 1)]
  /\ delivery \in [Gateways -> Deliveries]
  /\ flush \in [Gateways -> {"idle", "deliver"}]
  /\ recover \in [Gateways -> Recoveries]
  /\ order \in [Orders -> OrderThreads]
  /\ faults \in 0..MaxFaults /\ last \in [on: BOOLEAN, gw: Gateways] /\ excused \subseteq Races

LEMMA TypeParts ==
  ASSUME TypeOK, FieldsTyped', call' \in [Calls -> CallThreads],
         fallbacks' \in [Gateways -> Seq(BOOLEAN) \ {<<>>}],
         \A c \in Calls : PtrInRange(c)'
  PROVE  TypeOK'
  BY DEF TypeOK, FieldsTyped, PtrInRange

\* A step that leaves the calls alone.
LEMMA CallsKept ==
  ASSUME TypeOK, NEW g \in Gateways, NEW b \in BOOLEAN, GrownAt(g, b) \/ SetAt(g, b),
         call' = call, FieldsTyped'
  PROVE  TypeOK'
<1>1. fallbacks' \in [Gateways -> Seq(BOOLEAN) \ {<<>>}] /\ LongerAt(g)
  <2>1. Len(fallbacks[g]) \in Nat
    BY DEF TypeOK
  <2> QED  BY <2>1, GrownTyped, SetTyped DEF LongerAt
<1>2. call' \in [Calls -> CallThreads]
  BY DEF TypeOK
<1>3. ASSUME NEW c \in Calls PROVE PtrInRange(c)'
  <2>1. CASE call[c].pc = "idle"
    BY <2>1 DEF PtrInRange
  <2>2. CASE call[c].pc # "idle"
    BY <1>1, <2>2, PtrKept
  <2> QED  BY <2>1, <2>2
<1> QED  BY <1>1, <1>2, <1>3, TypeParts

\* A step of one call that leaves its gateway and pointer alone.
LEMMA CallMoved ==
  ASSUME TypeOK, NEW g \in Gateways, NEW b \in BOOLEAN, GrownAt(g, b) \/ SetAt(g, b),
         NEW c \in Calls, call[c].pc # "idle", call' \in [Calls -> CallThreads],
         \A d \in Calls : d # c => call'[d] = call[d],
         call'[c].ptr = call[c].ptr, call'[c].gw = call[c].gw, FieldsTyped'
  PROVE  TypeOK'
<1>1. fallbacks' \in [Gateways -> Seq(BOOLEAN) \ {<<>>}] /\ LongerAt(g)
  <2>1. Len(fallbacks[g]) \in Nat
    BY DEF TypeOK
  <2> QED  BY <2>1, GrownTyped, SetTyped DEF LongerAt
<1>2. ASSUME NEW d \in Calls PROVE PtrInRange(d)'
  <2>1. CASE d # c /\ call[d].pc = "idle"
    BY <2>1 DEF PtrInRange
  <2>2. CASE call[d].pc # "idle"
    BY <1>1, <2>2, PtrKept
  <2> QED  BY <2>1, <2>2
<1> QED  BY <1>1, <1>2, TypeParts

\* Records of threads after an update.
CallPcs == {"idle", "asking", "answered", "failed", "deciding", "served", "refused"}

LEMMA CallPcUpdate ==
  ASSUME NEW f \in [Calls -> CallThreads], NEW c \in Calls, NEW p \in CallPcs
  PROVE  [f EXCEPT ![c].pc = p] \in [Calls -> CallThreads]
  BY Zenon DEF CallThreads, CallPcs

LEMMA CallAnswerUpdate ==
  ASSUME NEW f \in [Calls -> CallThreads], NEW c \in Calls, NEW p \in CallPcs, NEW a \in BOOLEAN
  PROVE  [f EXCEPT ![c].pc = p, ![c].answer = a] \in [Calls -> CallThreads]
  BY ZenonT(60) DEF CallThreads, CallPcs

LEMMA CallPtrUpdate ==
  ASSUME NEW f \in [Calls -> CallThreads], NEW c \in Calls, NEW p \in CallPcs, NEW n \in Nat
  PROVE  [f EXCEPT ![c].pc = p, ![c].ptr = n] \in [Calls -> CallThreads]
  BY Zenon DEF CallThreads, CallPcs

LEMMA TypeCall ==
  ASSUME TypeOK, NEW c \in Calls
  PROVE  /\ \A g \in Gateways : Begin(c, g) => TypeOK'
         /\ Ask(c) => TypeOK'
         /\ \A failure \in Failures : AskFails(c, failure) => TypeOK'
         /\ Process(c) => TypeOK'
         /\ PickLocal(c) => TypeOK'
         /\ Decide(c) => TypeOK'
<1>0. call[c].gw \in Gateways /\ call[c].answer \in BOOLEAN /\ Len(fallbacks[call[c].gw]) \in Nat \ {0}
  BY DEF TypeOK, CallThreads
<1>c. call \in [Calls -> CallThreads]
  BY DEF TypeOK
<1>1. ASSUME NEW g \in Gateways, Begin(c, g) PROVE TypeOK'
  <2>1. FieldsTyped' /\ fallbacks' = fallbacks
    BY <1>1 DEF Begin, TypeOK, FieldsTyped, gatewayVars, workVars
  <2>2. Len(fallbacks[g]) \in Nat /\ Len(fallbacks[g]) >= 1
    BY DEF TypeOK
  <2> DEFINE p == IF degraded[g] THEN "deciding"
                  ELSE IF dirty[g] /\ killed[g] THEN "refused" ELSE "asking"
             under == last.on /\ last.gw = g
             r == [pc |-> p, gw |-> g, ptr |-> Local(g), answer |-> FALSE,
                   under |-> under]
  <2>3. Local(g) \in Nat /\ p \in CallPcs /\ under \in BOOLEAN
    BY <2>2 DEF Local, CallPcs
  <2>4. call' = [call EXCEPT ![c] = r]
    BY <1>1 DEF Begin
  <2> HIDE DEF p, under
  <2>5. r \in CallThreads /\ r.gw = g /\ r.ptr = Local(g)
    BY <2>3 DEF CallThreads, CallPcs
  <2> HIDE DEF r
  <2>6. call' \in [Calls -> CallThreads]
    BY <1>c, <2>4, <2>5
  <2>7. /\ \A d \in Calls : d # c => call'[d] = call[d]
        /\ call'[c].gw = g /\ call'[c].ptr = Local(g)
    BY <1>c, <2>4, <2>5
  <2>8. ASSUME NEW d \in Calls PROVE PtrInRange(d)'
    <3>1. CASE d = c
      BY <2>1, <2>2, <2>7, <3>1 DEF PtrInRange, Local
    <3>2. CASE d # c
      BY <2>1, <2>7, <3>2 DEF PtrInRange, TypeOK
    <3> QED  BY <3>1, <3>2
  <2> QED  BY <2>1, <2>6, <2>8, TypeParts DEF TypeOK
<1>2. Ask(c) => TypeOK'
  <2> SUFFICES ASSUME Ask(c) PROVE TypeOK'
    OBVIOUS
  <2>1. FieldsTyped' /\ GrownAt(call[c].gw, TRUE)
    BY DEF Ask, TypeOK, FieldsTyped, gatewayVars, workVars, GrownAt
  <2>2. call' \in [Calls -> CallThreads]
    <3>1. call' = [call EXCEPT ![c].pc = "answered", ![c].answer = engaged] /\ engaged \in BOOLEAN
      BY DEF Ask, TypeOK
    <3>2. "answered" \in CallPcs
      BY DEF CallPcs
    <3> QED  BY <1>c, <3>1, <3>2, CallAnswerUpdate, Zenon
  <2>3. /\ \A d \in Calls : d # c => call'[d] = call[d]
        /\ call'[c].gw = call[c].gw /\ call'[c].ptr = call[c].ptr /\ call[c].pc # "idle"
    BY DEF Ask, TypeOK, CallThreads
  <2> QED  BY <1>0, <2>1, <2>2, <2>3, CallMoved
<1>3. ASSUME NEW failure \in Failures, AskFails(c, failure) PROVE TypeOK'
  <2>1. GrownAt(call[c].gw, killed[call[c].gw]) /\ killed[call[c].gw] \in BOOLEAN
    BY <1>0, <1>3, FailEffect DEF AskFails, TypeOK
  <2>2. degraded' \in [Gateways -> BOOLEAN] /\ streak' \in [Gateways -> 0..(FailStreakToDegrade - 1)]
    BY <1>0, <1>3, FailEffect DEF AskFails
  <2>3. FieldsTyped'
    <3>1. faults' \in 0..MaxFaults
      BY <1>3, FaultTyped DEF AskFails
    <3>2. /\ engaged' = engaged /\ killed' = killed /\ dirty' = dirty /\ gen' = gen
          /\ delivery' = delivery /\ flush' = flush /\ recover' = recover /\ order' = order
          /\ last' = last /\ excused' = excused
      BY <1>3 DEF AskFails, workVars
    <3> QED  BY <2>2, <3>1, <3>2 DEF TypeOK, FieldsTyped
  <2>4. call' \in [Calls -> CallThreads]
    <3>1. call' = [call EXCEPT ![c].pc = "failed"]
      BY <1>3 DEF AskFails
    <3>2. "failed" \in CallPcs
      BY DEF CallPcs
    <3> QED  BY <1>c, <3>1, <3>2, CallPcUpdate, Zenon
  <2>5. /\ \A d \in Calls : d # c => call'[d] = call[d]
        /\ call'[c].gw = call[c].gw /\ call'[c].ptr = call[c].ptr /\ call[c].pc # "idle"
    BY <1>3 DEF AskFails, TypeOK, CallThreads
  <2> QED  BY <1>0, <2>1, <2>3, <2>4, <2>5, CallMoved
<1>4. Process(c) => TypeOK'
  <2> SUFFICES ASSUME Process(c) PROVE TypeOK'
    OBVIOUS
  <2>1. GrownAt(call[c].gw, call[c].answer) \/ SetAt(call[c].gw, call[c].answer)
    BY DEF Process, MirrorKill, GrownAt, SetAt
  <2>2. killed' \in [Gateways -> BOOLEAN] /\ excused' \subseteq Races
    BY <1>0 DEF Process, MirrorKill, TypeOK, Races
  <2>3. FieldsTyped'
    BY <1>0, <2>2, AnsweredTyped DEF Process, TypeOK, FieldsTyped, workVars
  <2>4. call' \in [Calls -> CallThreads]
    <3> DEFINE p == IF call[c].answer THEN "refused" ELSE "served"
    <3>1. call' = [call EXCEPT ![c].pc = p] /\ p \in CallPcs
      BY DEF Process, CallPcs
    <3> HIDE DEF p
    <3> QED  BY <1>c, <3>1, CallPcUpdate, Zenon
  <2>5. /\ \A d \in Calls : d # c => call'[d] = call[d]
        /\ call'[c].gw = call[c].gw /\ call'[c].ptr = call[c].ptr /\ call[c].pc # "idle"
    BY DEF Process, TypeOK, CallThreads
  <2> QED  BY <1>0, <2>1, <2>3, <2>4, <2>5, CallMoved
<1>5. PickLocal(c) => TypeOK'
  <2> SUFFICES ASSUME PickLocal(c) PROVE TypeOK'
    OBVIOUS
  <2>1. FieldsTyped' /\ fallbacks' = fallbacks
    BY DEF PickLocal, TypeOK, FieldsTyped, gatewayVars, workVars
  <2>2. Local(call[c].gw) \in Nat
    BY <1>0 DEF Local
  <2>3. call' \in [Calls -> CallThreads]
    <3>1. call' = [call EXCEPT ![c].pc = "deciding", ![c].ptr = Local(call[c].gw)]
      BY DEF PickLocal
    <3>2. "deciding" \in CallPcs
      BY DEF CallPcs
    <3> QED  BY <1>c, <2>2, <3>1, <3>2, CallPtrUpdate, Zenon
  <2>4. /\ \A d \in Calls : d # c => call'[d] = call[d]
        /\ call'[c].gw = call[c].gw /\ call'[c].ptr = Local(call[c].gw)
    BY DEF PickLocal, TypeOK, CallThreads
  <2>5. ASSUME NEW d \in Calls PROVE PtrInRange(d)'
    <3>1. CASE d = c
      BY <1>0, <2>1, <2>4, <3>1 DEF PtrInRange, Local
    <3>2. CASE d # c
      BY <2>1, <2>4, <3>2 DEF PtrInRange, TypeOK
    <3> QED  BY <3>1, <3>2
  <2> QED  BY <2>1, <2>3, <2>5, TypeParts DEF TypeOK
<1>6. Decide(c) => TypeOK'
  <2> SUFFICES ASSUME Decide(c) PROVE TypeOK'
    OBVIOUS
  <2>1. FieldsTyped' /\ GrownAt(call[c].gw, TRUE)
    BY DEF Decide, TypeOK, FieldsTyped, gatewayVars, workVars, GrownAt
  <2>2. call' \in [Calls -> CallThreads]
    <3> DEFINE p == IF fallbacks[call[c].gw][call[c].ptr] THEN "refused" ELSE "served"
    <3>1. call' = [call EXCEPT ![c].pc = p] /\ p \in CallPcs
      BY DEF Decide, CallPcs
    <3> HIDE DEF p
    <3> QED  BY <1>c, <3>1, CallPcUpdate, Zenon
  <2>3. /\ \A d \in Calls : d # c => call'[d] = call[d]
        /\ call'[c].gw = call[c].gw /\ call'[c].ptr = call[c].ptr /\ call[c].pc # "idle"
    BY DEF Decide, TypeOK, CallThreads
  <2> QED  BY <1>0, <2>1, <2>2, <2>3, CallMoved
<1> QED  BY <1>1, <1>2, <1>3, <1>4, <1>5, <1>6

OrderPcs == {"idle", "locking", "sending", "sent", "done"}

LEMMA OrderPcUpdate ==
  ASSUME NEW f \in [Orders -> OrderThreads], NEW o \in Orders, NEW p \in OrderPcs
  PROVE  [f EXCEPT ![o].pc = p] \in [Orders -> OrderThreads]
  BY Zenon DEF OrderThreads, OrderPcs

\* A write of the switch, made or not.
LEMMA WrittenTyped ==
  ASSUME TypeOK, NEW on \in BOOLEAN, Written(on) \/ UNCHANGED <<engaged, excused>>
  PROVE  engaged' \in BOOLEAN /\ excused' \subseteq Races
  BY DEF TypeOK, Written, Races

LEMMA NoDeliveryTyped == NoDelivery \in Deliveries
  BY DEF NoDelivery, Deliveries

LEMMA TypeOrder ==
  ASSUME TypeOK, NEW o \in Orders
  PROVE  /\ \A g \in Gateways, on \in BOOLEAN : SetKilled(o, g, on) => TypeOK'
         /\ OrderLock(o) => TypeOK'
         /\ OrderSend(o) => TypeOK'
         /\ \A failure \in Failures, ran \in BOOLEAN : OrderSendFails(o, failure, ran) => TypeOK'
         /\ OrderSettle(o) => TypeOK'
<1>0. order[o].gw \in Gateways /\ order[o].on \in BOOLEAN /\ order[o].gen \in Nat
  BY DEF TypeOK, OrderThreads
<1>t. order \in [Orders -> OrderThreads] /\ delivery \in [Gateways -> Deliveries]
  BY DEF TypeOK
<1>p. "locking" \in OrderPcs /\ "sending" \in OrderPcs /\ "sent" \in OrderPcs /\ "done" \in OrderPcs
  BY DEF OrderPcs
<1>1. ASSUME NEW g \in Gateways, NEW on \in BOOLEAN, SetKilled(o, g, on) PROVE TypeOK'
  <2>1. /\ killed' \in [Gateways -> BOOLEAN] /\ dirty' \in [Gateways -> BOOLEAN]
        /\ gen' \in [Gateways -> Nat] /\ gen[g] + 1 \in Nat
    BY <1>1 DEF SetKilled, TypeOK
  <2>2. last' \in [on: BOOLEAN, gw: Gateways]
    BY <1>1 DEF SetKilled
  <2> DEFINE p == IF degraded[g] THEN "done" ELSE "locking"
             r == [pc |-> p, gw |-> g, on |-> on, gen |-> gen[g] + 1]
  <2>3. order' = [order EXCEPT ![o] = r] /\ p \in OrderPcs
    BY <1>1 DEF SetKilled, OrderPcs
  <2> HIDE DEF p
  <2>4. r \in OrderThreads
    BY <2>1, <2>3 DEF OrderThreads, OrderPcs
  <2> HIDE DEF r
  <2>5. order' \in [Orders -> OrderThreads]
    BY <1>t, <2>3, <2>4
  <2>6. FieldsTyped'
    BY <1>1, <2>1, <2>2, <2>5 DEF SetKilled, FieldsTyped, TypeOK, workVars
  <2>7. SetAt(g, on)
    BY <1>1 DEF SetKilled, SetAt
  <2>8. fallbacks' \in [Gateways -> Seq(BOOLEAN) \ {<<>>}] /\ LongerAt(g)
    <3>1. Len(fallbacks[g]) \in Nat
      BY DEF TypeOK
    <3> QED  BY <2>7, <3>1, SetTyped DEF LongerAt
  <2>9. ASSUME NEW c \in Calls
        PROVE  /\ call'[c] \in CallThreads /\ call'[c].pc = call[c].pc
               /\ call'[c].gw = call[c].gw /\ call'[c].ptr = call[c].ptr
    <3>1. call[c] \in CallThreads
      BY DEF TypeOK
    <3>2. CASE call'[c] = call[c]
      BY <3>1, <3>2
    <3>3. CASE call'[c] = [call[c] EXCEPT !.under = @ /\ on]
      <4>1. (call[c].under /\ on) \in BOOLEAN
        OBVIOUS
      <4>2. call'[c] \in CallThreads
        BY <3>1, <3>3, <4>1, Zenon DEF CallThreads
      <4> QED  BY <3>1, <3>3, <4>2 DEF CallThreads
    <3> QED  BY <1>1, <3>2, <3>3 DEF SetKilled
  <2>10. call' \in [Calls -> CallThreads]
    BY <1>1, <2>9 DEF SetKilled
  <2>11. ASSUME NEW c \in Calls PROVE PtrInRange(c)'
    <3>1. CASE call[c].pc = "idle"
      BY <2>9, <3>1 DEF PtrInRange
    <3>2. CASE call[c].pc # "idle"
      BY <2>8, <2>9, <3>2, PtrKept
    <3> QED  BY <3>1, <3>2
  <2> QED  BY <2>6, <2>8, <2>10, <2>11, TypeParts
<1>2. OrderLock(o) => TypeOK'
  <2> SUFFICES ASSUME OrderLock(o) PROVE TypeOK'
    OBVIOUS
  <2>1. [NoDelivery EXCEPT !.who = "order"] \in Deliveries
    BY NoDeliveryTyped, Zenon DEF Deliveries
  <2>2. delivery' \in [Gateways -> Deliveries]
    BY <1>t, <2>1 DEF OrderLock
  <2>3. order' = [order EXCEPT ![o].pc = "sending"]
    BY DEF OrderLock
  <2>4. order' \in [Orders -> OrderThreads]
    BY <1>t, <1>p, <2>3, OrderPcUpdate, Zenon
  <2>5. FieldsTyped' /\ GrownAt(order[o].gw, TRUE) /\ call' = call
    BY <2>2, <2>4 DEF OrderLock, TypeOK, FieldsTyped, gatewayVars, GrownAt
  <2> QED  BY <1>0, <2>5, CallsKept
<1>3. OrderSend(o) => TypeOK'
  <2> SUFFICES ASSUME OrderSend(o) PROVE TypeOK'
    OBVIOUS
  <2>1. delivery' \in [Gateways -> Deliveries]
    BY <1>t, NoDeliveryTyped DEF OrderSend
  <2>2. order' = [order EXCEPT ![o].pc = "sent"]
    BY DEF OrderSend
  <2>3. order' \in [Orders -> OrderThreads]
    BY <1>t, <1>p, <2>2, OrderPcUpdate, Zenon
  <2>4. engaged' \in BOOLEAN /\ excused' \subseteq Races
    BY <1>0, WrittenTyped DEF OrderSend
  <2>5. FieldsTyped' /\ GrownAt(order[o].gw, TRUE) /\ call' = call
    BY <2>1, <2>3, <2>4 DEF OrderSend, TypeOK, FieldsTyped, gatewayVars, GrownAt
  <2> QED  BY <1>0, <2>5, CallsKept
<1>4. ASSUME NEW failure \in Failures, NEW ran \in BOOLEAN, OrderSendFails(o, failure, ran)
      PROVE  TypeOK'
  <2> DEFINE g == order[o].gw
  <2>1. delivery' \in [Gateways -> Deliveries]
    BY <1>t, <1>4, NoDeliveryTyped DEF OrderSendFails
  <2>2. order' = [order EXCEPT ![o].pc = "done"]
    BY <1>4 DEF OrderSendFails
  <2>3. order' \in [Orders -> OrderThreads]
    BY <1>t, <1>p, <2>2, OrderPcUpdate, Zenon
  <2>4. engaged' \in BOOLEAN /\ excused' \subseteq Races
    BY <1>0, <1>4, WrittenTyped DEF OrderSendFails
  <2>5. Fail(g, failure) /\ killed[g] \in BOOLEAN
    BY <1>0, <1>4 DEF OrderSendFails, TypeOK
  <2>6. /\ degraded' \in [Gateways -> BOOLEAN] /\ streak' \in [Gateways -> 0..(FailStreakToDegrade - 1)]
        /\ GrownAt(g, killed[g])
    BY <1>0, <2>5, FailEffect
  <2>7. faults' \in 0..MaxFaults
    BY <1>4, KillAssumption DEF OrderSendFails, Fault, TypeOK
  <2>8. UNCHANGED <<killed, dirty, gen, flush, recover, call, last>>
    BY <1>4 DEF OrderSendFails
  <2>9. FieldsTyped'
    BY <2>1, <2>3, <2>4, <2>6, <2>7, <2>8 DEF TypeOK, FieldsTyped
  <2> QED  BY <1>0, <2>5, <2>6, <2>8, <2>9, CallsKept
<1>5. OrderSettle(o) => TypeOK'
  <2> SUFFICES ASSUME OrderSettle(o) PROVE TypeOK'
    OBVIOUS
  <2>1. order' = [order EXCEPT ![o].pc = "done"]
    BY DEF OrderSettle
  <2>2. order' \in [Orders -> OrderThreads]
    BY <1>t, <1>p, <2>1, OrderPcUpdate, Zenon
  <2>3. streak' \in [Gateways -> 0..(FailStreakToDegrade - 1)]
    BY <1>0, AnsweredTyped DEF OrderSettle
  <2>4. dirty' \in [Gateways -> BOOLEAN]
    BY DEF OrderSettle, Settle, TypeOK
  <2>5. FieldsTyped' /\ GrownAt(order[o].gw, TRUE) /\ call' = call
    BY <2>2, <2>3, <2>4 DEF OrderSettle, TypeOK, FieldsTyped, workVars, GrownAt
  <2> QED  BY <1>0, <2>5, CallsKept
<1> QED  BY <1>1, <1>2, <1>3, <1>4, <1>5

LEMMA DeliveryPcUpdate ==
  ASSUME NEW f \in [Gateways -> Deliveries], NEW g \in Gateways,
         NEW p \in {"idle", "send", "clear", "rest"}
  PROVE  [f EXCEPT ![g].pc = p] \in [Gateways -> Deliveries]
  BY Zenon DEF Deliveries

RecoverPcs == {"idle", "deliver", "check", "ask", "swap", "last"}

LEMMA RecoverPcUpdate ==
  ASSUME NEW f \in [Gateways -> Recoveries], NEW g \in Gateways, NEW p \in RecoverPcs
  PROVE  [f EXCEPT ![g].pc = p] \in [Gateways -> Recoveries]
  BY Zenon DEF Recoveries, RecoverPcs

LEMMA RecoverSeenUpdate ==
  ASSUME NEW f \in [Gateways -> Recoveries], NEW g \in Gateways, NEW p \in RecoverPcs, NEW b \in BOOLEAN
  PROVE  [f EXCEPT ![g].pc = p, ![g].seen = b] \in [Gateways -> Recoveries]
  BY Zenon DEF Recoveries, RecoverPcs

LEMMA TypeGateway ==
  ASSUME TypeOK, NEW g \in Gateways
  PROVE  /\ \A who \in {"flush", "recover"} : DeliverLock(g, who) => TypeOK'
         /\ DeliverKill(g) => TypeOK'
         /\ DeliverRefused(g) => TypeOK'
         /\ DeliverSettle(g) => TypeOK'
         /\ DeliverDone(g) => TypeOK'
         /\ \A failure \in Failures, ran \in BOOLEAN : DeliverFails(g, failure, ran) => TypeOK'
         /\ FlushBegin(g) => TypeOK'
<1>t. /\ delivery \in [Gateways -> Deliveries] /\ recover \in [Gateways -> Recoveries]
      /\ flush \in [Gateways -> {"idle", "deliver"}]
  BY DEF TypeOK
<1>0. delivery[g].on \in BOOLEAN /\ delivery[g].gen \in Nat /\ killed[g] \in BOOLEAN /\ gen[g] \in Nat
  BY DEF TypeOK, Deliveries
<1>1. ASSUME NEW who \in {"flush", "recover"}, DeliverLock(g, who) PROVE TypeOK'
  <2> DEFINE p == IF dirty[g] THEN "send" ELSE "rest"
             r == [who |-> who, pc |-> p, on |-> killed[g], gen |-> gen[g]]
  <2>1. delivery' = [delivery EXCEPT ![g] = r] /\ p \in {"send", "rest"}
    BY <1>1 DEF DeliverLock
  <2> HIDE DEF p
  <2>2. r \in Deliveries
    BY <1>0, <2>1 DEF Deliveries
  <2> HIDE DEF r
  <2>3. delivery' \in [Gateways -> Deliveries]
    BY <1>t, <2>1, <2>2
  <2>4. FieldsTyped' /\ GrownAt(g, TRUE) /\ call' = call
    BY <1>1, <2>3 DEF DeliverLock, TypeOK, FieldsTyped, gatewayVars, GrownAt
  <2> QED  BY <2>4, CallsKept
<1>2. DeliverKill(g) => TypeOK'
  <2> SUFFICES ASSUME DeliverKill(g) PROVE TypeOK'
    OBVIOUS
  <2>1. delivery' = [delivery EXCEPT ![g].pc = "clear"]
    BY DEF DeliverKill
  <2>2. delivery' \in [Gateways -> Deliveries]
    BY <1>t, <2>1, DeliveryPcUpdate, Zenon
  <2>3. engaged' \in BOOLEAN /\ excused' \subseteq Races
    BY <1>0, WrittenTyped DEF DeliverKill
  <2>4. streak' \in [Gateways -> 0..(FailStreakToDegrade - 1)]
    BY AnsweredTyped DEF DeliverKill
  <2>5. FieldsTyped' /\ GrownAt(g, TRUE) /\ call' = call
    BY <2>2, <2>3, <2>4 DEF DeliverKill, TypeOK, FieldsTyped, GrownAt
  <2> QED  BY <2>5, CallsKept
<1>3. DeliverRefused(g) => TypeOK'
  <2> SUFFICES ASSUME DeliverRefused(g) PROVE TypeOK'
    OBVIOUS
  <2>1. delivery' = [delivery EXCEPT ![g].pc = "clear"]
    BY DEF DeliverRefused
  <2>2. delivery' \in [Gateways -> Deliveries]
    BY <1>t, <2>1, DeliveryPcUpdate, Zenon
  <2>3. faults' \in 0..MaxFaults /\ excused' \subseteq Races
    BY KillAssumption DEF DeliverRefused, Fault, TypeOK, Races
  <2>4. FieldsTyped' /\ GrownAt(g, TRUE) /\ call' = call
    BY <2>2, <2>3 DEF DeliverRefused, TypeOK, FieldsTyped, gatewayVars, GrownAt
  <2> QED  BY <2>4, CallsKept
<1>4. DeliverSettle(g) => TypeOK'
  <2> SUFFICES ASSUME DeliverSettle(g) PROVE TypeOK'
    OBVIOUS
  <2>1. delivery' = [delivery EXCEPT ![g].pc = "rest"]
    BY DEF DeliverSettle
  <2>2. delivery' \in [Gateways -> Deliveries]
    BY <1>t, <2>1, DeliveryPcUpdate, Zenon
  <2>3. dirty' \in [Gateways -> BOOLEAN]
    BY DEF DeliverSettle, Settle, TypeOK
  <2>4. FieldsTyped' /\ GrownAt(g, TRUE) /\ call' = call
    BY <2>2, <2>3 DEF DeliverSettle, TypeOK, FieldsTyped, GrownAt
  <2> QED  BY <2>4, CallsKept
<1>5. DeliverDone(g) => TypeOK'
  <2> SUFFICES ASSUME DeliverDone(g) PROVE TypeOK'
    OBVIOUS
  <2>1. delivery' \in [Gateways -> Deliveries] /\ flush' \in [Gateways -> {"idle", "deliver"}]
    BY <1>t, NoDeliveryTyped DEF DeliverDone
  <2>2. recover' \in [Gateways -> Recoveries]
    <3> DEFINE p == IF recover[g].pc = "last" THEN "idle" ELSE "check"
    <3>1. p \in RecoverPcs /\ (recover' = recover \/ recover' = [recover EXCEPT ![g].pc = p])
      BY DEF DeliverDone, RecoverPcs
    <3> HIDE DEF p
    <3>2. [recover EXCEPT ![g].pc = p] \in [Gateways -> Recoveries]
      BY <1>t, <3>1, RecoverPcUpdate, Zenon
    <3> QED  BY <1>t, <3>1, <3>2, Zenon
  <2>3. FieldsTyped' /\ GrownAt(g, TRUE) /\ call' = call
    BY <2>1, <2>2 DEF DeliverDone, TypeOK, FieldsTyped, gatewayVars, GrownAt
  <2> QED  BY <2>3, CallsKept
<1>6. ASSUME NEW failure \in Failures, NEW ran \in BOOLEAN, DeliverFails(g, failure, ran)
      PROVE  TypeOK'
  <2>1. delivery' \in [Gateways -> Deliveries] /\ flush' \in [Gateways -> {"idle", "deliver"}]
    BY <1>t, <1>6, NoDeliveryTyped DEF DeliverFails
  <2>2. recover' \in [Gateways -> Recoveries]
    <3>1. "idle" \in RecoverPcs /\ (recover' = recover \/ recover' = [recover EXCEPT ![g].pc = "idle"])
      BY <1>6 DEF DeliverFails, RecoverPcs
    <3>2. [recover EXCEPT ![g].pc = "idle"] \in [Gateways -> Recoveries]
      BY <1>t, <3>1, RecoverPcUpdate, Zenon
    <3> QED  BY <1>t, <3>1, <3>2, Zenon
  <2>3. engaged' \in BOOLEAN /\ excused' \subseteq Races
    BY <1>0, <1>6, WrittenTyped DEF DeliverFails
  <2>4. /\ degraded' \in [Gateways -> BOOLEAN] /\ streak' \in [Gateways -> 0..(FailStreakToDegrade - 1)]
        /\ GrownAt(g, killed[g])
    <3>1. CASE Fail(g, failure)
      BY <3>1, FailEffect
    <3>2. CASE Degrade(g)
      BY <3>2, KillAssumption DEF Degrade, TypeOK, GrownAt
    <3>3. CASE UNCHANGED <<degraded, streak, fallbacks>>
      BY <3>3 DEF TypeOK, GrownAt
    <3> QED  BY <1>6, <3>1, <3>2, <3>3 DEF DeliverFails
  <2>5. FieldsTyped' /\ call' = call
    <3>1. faults' \in 0..MaxFaults
      BY <1>6, FaultTyped DEF DeliverFails
    <3>2. /\ killed' = killed /\ dirty' = dirty /\ gen' = gen /\ order' = order
          /\ call' = call /\ last' = last
      BY <1>6 DEF DeliverFails
    <3> QED  BY <2>1, <2>2, <2>3, <2>4, <3>1, <3>2 DEF TypeOK, FieldsTyped
  <2> QED  BY <1>0, <2>4, <2>5, CallsKept
<1>7. FlushBegin(g) => TypeOK'
  <2> SUFFICES ASSUME FlushBegin(g) PROVE TypeOK'
    OBVIOUS
  <2>1. FieldsTyped' /\ GrownAt(g, TRUE) /\ call' = call
    BY DEF FlushBegin, TypeOK, FieldsTyped, gatewayVars, GrownAt
  <2> QED  BY <2>1, CallsKept
<1> QED  BY <1>1, <1>2, <1>3, <1>4, <1>5, <1>6, <1>7

LEMMA TypeRecover ==
  ASSUME TypeOK, NEW g \in Gateways
  PROVE  /\ RecoverBegin(g) => TypeOK'
         /\ \A quiet \in BOOLEAN : RecoverCheck(g, quiet) => TypeOK'
         /\ RecoverAsk(g) => TypeOK'
         /\ RecoverFails(g) => TypeOK'
         /\ RecoverSwap(g) => TypeOK'
<1>t. recover \in [Gateways -> Recoveries] /\ recover[g] \in Recoveries
  BY DEF TypeOK
<1>p. /\ "idle" \in RecoverPcs /\ "ask" \in RecoverPcs /\ "swap" \in RecoverPcs
      /\ "last" \in RecoverPcs /\ "deliver" \in RecoverPcs
  BY DEF RecoverPcs
<1>0. recover[g].pass \in 0..WriteBackPasses /\ recover[g].seen \in BOOLEAN
  BY <1>t DEF Recoveries
<1>1. RecoverBegin(g) => TypeOK'
  <2> SUFFICES ASSUME RecoverBegin(g) PROVE TypeOK'
    OBVIOUS
  <2>1. [pc |-> "deliver", pass |-> 1, seen |-> FALSE] \in Recoveries
    BY KillAssumption DEF Recoveries
  <2>2. recover' \in [Gateways -> Recoveries]
    BY <1>t, <2>1 DEF RecoverBegin
  <2>3. FieldsTyped' /\ GrownAt(g, TRUE) /\ call' = call
    BY <2>2 DEF RecoverBegin, TypeOK, FieldsTyped, gatewayVars, GrownAt
  <2> QED  BY <2>3, CallsKept
<1>2. ASSUME NEW quiet \in BOOLEAN, RecoverCheck(g, quiet) PROVE TypeOK'
  <2> DEFINE p == IF dirty[g] THEN "swap" ELSE "ask"
             r == [pc |-> p, pass |-> recover[g].pass, seen |-> FALSE]
             q == [pc |-> "deliver", pass |-> recover[g].pass + 1, seen |-> FALSE]
  <2>1. p \in RecoverPcs
    BY <1>p
  <2>2. r \in Recoveries
    <3> HIDE DEF p
    <3> QED  BY <1>0, <2>1 DEF Recoveries, RecoverPcs
  <2>3. CASE quiet \/ recover[g].pass >= WriteBackPasses
    <3>1. recover' = [recover EXCEPT ![g] = r]
      BY <1>2, <2>3 DEF RecoverCheck
    <3> HIDE DEF r
    <3>2. recover' \in [Gateways -> Recoveries]
      BY <1>t, <2>2, <3>1
    <3>3. FieldsTyped' /\ GrownAt(g, TRUE) /\ call' = call
      BY <1>2, <3>2 DEF RecoverCheck, TypeOK, FieldsTyped, gatewayVars, GrownAt
    <3> QED  BY <3>3, CallsKept
  <2>4. CASE ~(quiet \/ recover[g].pass >= WriteBackPasses)
    <3>1. recover' = [recover EXCEPT ![g] = q]
      BY <1>2, <2>4 DEF RecoverCheck
    <3>2. recover[g].pass + 1 \in 0..WriteBackPasses
      BY <1>0, <2>4, KillAssumption
    <3>3. q \in Recoveries
      BY <3>2 DEF Recoveries
    <3> HIDE DEF q
    <3>4. recover' \in [Gateways -> Recoveries]
      BY <1>t, <3>1, <3>3
    <3>5. FieldsTyped' /\ GrownAt(g, TRUE) /\ call' = call
      BY <1>2, <3>4 DEF RecoverCheck, TypeOK, FieldsTyped, gatewayVars, GrownAt
    <3> QED  BY <3>5, CallsKept
  <2> QED  BY <2>3, <2>4
<1>3. RecoverAsk(g) => TypeOK'
  <2> SUFFICES ASSUME RecoverAsk(g) PROVE TypeOK'
    OBVIOUS
  <2>1. recover' = [recover EXCEPT ![g].pc = "swap", ![g].seen = engaged] /\ engaged \in BOOLEAN
    BY DEF RecoverAsk, TypeOK
  <2>2. recover' \in [Gateways -> Recoveries]
    BY <1>t, <1>p, <2>1, RecoverSeenUpdate, Zenon
  <2>3. FieldsTyped' /\ GrownAt(g, TRUE) /\ call' = call
    BY <2>2 DEF RecoverAsk, TypeOK, FieldsTyped, gatewayVars, GrownAt
  <2> QED  BY <2>3, CallsKept
<1>4. RecoverFails(g) => TypeOK'
  <2> SUFFICES ASSUME RecoverFails(g) PROVE TypeOK'
    OBVIOUS
  <2>1. recover' = [recover EXCEPT ![g].pc = "idle"]
    BY DEF RecoverFails
  <2>2. recover' \in [Gateways -> Recoveries]
    BY <1>t, <1>p, <2>1, RecoverPcUpdate, Zenon
  <2>3. FieldsTyped' /\ GrownAt(g, TRUE) /\ call' = call
    <3>1. faults' \in 0..MaxFaults
      BY FaultTyped DEF RecoverFails
    <3>2. /\ engaged' = engaged /\ killed' = killed /\ dirty' = dirty /\ gen' = gen
          /\ degraded' = degraded /\ streak' = streak /\ fallbacks' = fallbacks
          /\ delivery' = delivery /\ flush' = flush /\ order' = order /\ call' = call
          /\ last' = last /\ excused' = excused
      BY DEF RecoverFails, gatewayVars
    <3> QED  BY <2>2, <3>1, <3>2 DEF TypeOK, FieldsTyped, GrownAt
  <2> QED  BY <2>3, CallsKept
<1>5. RecoverSwap(g) => TypeOK'
  <2> SUFFICES ASSUME RecoverSwap(g) PROVE TypeOK'
    OBVIOUS
  <2>1. Learned(g) \in BOOLEAN
    BY <1>0 DEF Learned, TypeOK
  <2>2. GrownAt(g, Learned(g)) /\ call' = call
    BY DEF RecoverSwap, GrownAt
  <2>3. /\ killed' \in [Gateways -> BOOLEAN] /\ degraded' \in [Gateways -> BOOLEAN]
        /\ streak' \in [Gateways -> 0..(FailStreakToDegrade - 1)] /\ excused' \subseteq Races
    BY <2>1, KillAssumption DEF RecoverSwap, TypeOK, Races
  <2>4. recover' = [recover EXCEPT ![g].pc = "last"]
    BY DEF RecoverSwap
  <2>5. recover' \in [Gateways -> Recoveries]
    BY <1>t, <1>p, <2>4, RecoverPcUpdate, Zenon
  <2>6. FieldsTyped'
    BY <2>3, <2>5 DEF RecoverSwap, TypeOK, FieldsTyped
  <2> QED  BY <2>1, <2>2, <2>6, CallsKept
<1> QED  BY <1>1, <1>2, <1>3, <1>4, <1>5

LEMMA TypeStep == TypeOK /\ [Next]_vars => TypeOK'
<1> SUFFICES ASSUME TypeOK, [Next]_vars PROVE TypeOK'
  OBVIOUS
<1>1. CASE UNCHANGED vars
  BY <1>1 DEF vars, TypeOK
<1>2. ASSUME NEW c \in Calls,
             \/ CallMoves(c) \/ \E g \in Gateways : Begin(c, g)
             \/ \E failure \in Failures : AskFails(c, failure)
      PROVE  TypeOK'
  BY <1>2, TypeCall DEF CallMoves
<1>3. ASSUME NEW o \in Orders,
             \/ OrderMoves(o) \/ \E g \in Gateways, on \in BOOLEAN : SetKilled(o, g, on)
             \/ \E failure \in Failures, ran \in BOOLEAN : OrderSendFails(o, failure, ran)
      PROVE  TypeOK'
  BY <1>3, TypeOrder DEF OrderMoves
<1>4. ASSUME NEW g \in Gateways,
             \/ FlushMoves(g) \/ RecoverMoves(g) \/ DeliverMoves(g)
             \/ DeliverRefused(g) \/ RecoverFails(g)
             \/ \E failure \in Failures, ran \in BOOLEAN : DeliverFails(g, failure, ran)
      PROVE  TypeOK'
  BY <1>4, TypeGateway, TypeRecover DEF FlushMoves, RecoverMoves, DeliverMoves
<1> QED  BY <1>1, <1>2, <1>3, <1>4 DEF Next

\* The model is well typed: in particular a gap starts before the streak of
\* dropped answers reaches its limit (fail), a recovery makes no more than
\* maxWriteBackPasses passes (recovered), and a thread's fallback exists.
THEOREM KillTypeCorrect == Spec => []TypeOK
<1>1. Init => TypeOK
  BY TypeInit
<1>2. TypeOK /\ [Next]_vars => TypeOK'
  BY TypeStep
<1> QED  BY <1>1, <1>2, PTL DEF Spec

-----------------------------------------------------------------------------
(* Mirror and fallback. *)

\* The ways in which a step changes mirror and fallbacks: together, at one
\* gateway, or a new fallback takes over the mirror.
MirrorStep(g) ==
  \/ killed' = killed /\ GrownAt(g, killed[g])
  \/ \E b \in BOOLEAN :
       /\ killed' = [killed EXCEPT ![g] = b]
       /\ SetAt(g, b) \/ fallbacks' = [fallbacks EXCEPT ![g] = Append(@, b)]

LEMMA MirrorStepAgrees ==
  ASSUME TypeOK, FallbackAgrees, NEW g \in Gateways, MirrorStep(g)
  PROVE  FallbackAgrees'
<1>t. /\ fallbacks[g] \in Seq(BOOLEAN) \ {<<>>} /\ Len(fallbacks[g]) \in Nat \ {0}
      /\ killed \in [Gateways -> BOOLEAN] /\ killed[g] \in BOOLEAN
  BY DEF TypeOK
<1>a. \A h \in Gateways : fallbacks[h][Len(fallbacks[h])] = killed[h]
  BY DEF FallbackAgrees, Local
<1>1. CASE killed' = killed /\ GrownAt(g, killed[g])
  <2>1. /\ \A h \in Gateways : h # g => fallbacks'[h] = fallbacks[h]
        /\ fallbacks' # fallbacks => fallbacks'[g][Len(fallbacks'[g])] = killed[g]
    BY <1>t, <1>1, GrownTyped
  <2> QED  BY <1>1, <1>a, <2>1 DEF FallbackAgrees, Local
<1>2. ASSUME NEW b \in BOOLEAN, killed' = [killed EXCEPT ![g] = b], SetAt(g, b)
      PROVE  FallbackAgrees'
  <2>1. /\ \A h \in Gateways : h # g => fallbacks'[h] = fallbacks[h]
        /\ Len(fallbacks'[g]) = Len(fallbacks[g]) /\ fallbacks'[g][Len(fallbacks[g])] = b
    BY <1>t, <1>2, SetTyped
  <2> QED  BY <1>t, <1>2, <1>a, <2>1 DEF FallbackAgrees, Local
<1>3. ASSUME NEW b \in BOOLEAN, killed' = [killed EXCEPT ![g] = b],
             fallbacks' = [fallbacks EXCEPT ![g] = Append(@, b)]
      PROVE  FallbackAgrees'
  <2> DEFINE f == Append(fallbacks[g], b)
  <2>1. f[Len(f)] = b
    BY <1>t, GrownFallbacks
  <2> HIDE DEF f
  <2>2. fallbacks'[g] = f /\ \A h \in Gateways : h # g => fallbacks'[h] = fallbacks[h]
    BY <1>3 DEF TypeOK, f
  <2> QED  BY <1>t, <1>3, <1>a, <2>1, <2>2 DEF FallbackAgrees, Local
<1> QED  BY <1>1, <1>2, <1>3 DEF MirrorStep

LEMMA AgreesStep == TypeOK /\ FallbackAgrees /\ [Next]_vars => FallbackAgrees'
<1> SUFFICES ASSUME TypeOK, FallbackAgrees, [Next]_vars PROVE FallbackAgrees'
  OBVIOUS
<1>1. CASE UNCHANGED <<killed, fallbacks>>
  BY <1>1 DEF FallbackAgrees, Local
<1>2. ASSUME NEW c \in Calls, NEW failure \in Failures, AskFails(c, failure)
      PROVE  FallbackAgrees'
  <2>1. call[c].gw \in Gateways
    BY DEF TypeOK, CallThreads
  <2>2. MirrorStep(call[c].gw)
    BY <1>2, <2>1, FailEffect DEF AskFails, MirrorStep
  <2> QED  BY <2>1, <2>2, MirrorStepAgrees
<1>3. ASSUME NEW c \in Calls, Process(c) PROVE FallbackAgrees'
  <2>1. call[c].gw \in Gateways /\ call[c].answer \in BOOLEAN
    BY DEF TypeOK, CallThreads
  <2>2. CASE UNCHANGED <<killed, fallbacks>>
    BY <1>1, <2>2
  <2>3. CASE ~UNCHANGED <<killed, fallbacks>>
    <3>1. MirrorStep(call[c].gw)
      BY <1>3, <2>1, <2>3 DEF Process, MirrorKill, MirrorStep, SetAt
    <3> QED  BY <2>1, <3>1, MirrorStepAgrees
  <2> QED  BY <2>2, <2>3
<1>4. ASSUME NEW o \in Orders, NEW g \in Gateways, NEW on \in BOOLEAN, SetKilled(o, g, on)
      PROVE  FallbackAgrees'
  <2>1. MirrorStep(g)
    BY <1>4 DEF SetKilled, MirrorStep, SetAt
  <2> QED  BY <2>1, MirrorStepAgrees
<1>5. ASSUME NEW o \in Orders, NEW failure \in Failures, NEW ran \in BOOLEAN,
             OrderSendFails(o, failure, ran)
      PROVE  FallbackAgrees'
  <2>1. order[o].gw \in Gateways
    BY DEF TypeOK, OrderThreads
  <2>2. Fail(order[o].gw, failure) /\ killed' = killed
    BY <1>5 DEF OrderSendFails
  <2>3. MirrorStep(order[o].gw)
    BY <2>1, <2>2, FailEffect DEF MirrorStep
  <2> QED  BY <2>1, <2>3, MirrorStepAgrees
<1>6. ASSUME NEW g \in Gateways, NEW failure \in Failures, NEW ran \in BOOLEAN,
             DeliverFails(g, failure, ran)
      PROVE  FallbackAgrees'
  <2>1. CASE Fail(g, failure)
    <3>1. MirrorStep(g)
      BY <1>6, <2>1, FailEffect DEF DeliverFails, MirrorStep
    <3> QED  BY <3>1, MirrorStepAgrees
  <2>2. CASE Degrade(g)
    <3>1. MirrorStep(g)
      BY <1>6, <2>2 DEF DeliverFails, Degrade, MirrorStep, GrownAt
    <3> QED  BY <3>1, MirrorStepAgrees
  <2>3. CASE UNCHANGED <<degraded, streak, fallbacks>>
    BY <1>1, <1>6, <2>3 DEF DeliverFails
  <2> QED  BY <1>6, <2>1, <2>2, <2>3 DEF DeliverFails
<1>7. ASSUME NEW g \in Gateways, RecoverSwap(g) PROVE FallbackAgrees'
  <2>1. Learned(g) \in BOOLEAN
    BY DEF Learned, TypeOK, Recoveries
  <2>2. MirrorStep(g)
    BY <1>7, <2>1 DEF RecoverSwap, MirrorStep
  <2> QED  BY <2>2, MirrorStepAgrees
<1>8. CASE UNCHANGED vars
  BY <1>1, <1>8 DEF vars
<1>9. ASSUME NEW c \in Calls,
             \/ CallMoves(c) \/ \E g \in Gateways : Begin(c, g)
             \/ \E failure \in Failures : AskFails(c, failure)
      PROVE  FallbackAgrees'
  BY <1>1, <1>2, <1>3, <1>9 DEF CallMoves, Begin, Ask, PickLocal, Decide, gatewayVars
<1>10. ASSUME NEW o \in Orders,
              \/ OrderMoves(o) \/ \E g \in Gateways, on \in BOOLEAN : SetKilled(o, g, on)
              \/ \E failure \in Failures, ran \in BOOLEAN : OrderSendFails(o, failure, ran)
       PROVE  FallbackAgrees'
  <2>1. CASE OrderMoves(o)
    <3>1. UNCHANGED <<killed, fallbacks>>
      BY <2>1 DEF OrderMoves, OrderLock, OrderSend, OrderSettle, gatewayVars
    <3> QED  BY <1>1, <3>1
  <2> QED  BY <1>4, <1>5, <1>10, <2>1
<1>11. ASSUME NEW g \in Gateways,
              \/ FlushMoves(g) \/ RecoverMoves(g) \/ DeliverMoves(g)
              \/ DeliverRefused(g) \/ RecoverFails(g)
              \/ \E failure \in Failures, ran \in BOOLEAN : DeliverFails(g, failure, ran)
       PROVE  FallbackAgrees'
  <2>1. CASE FlushMoves(g) \/ DeliverMoves(g) \/ DeliverRefused(g) \/ RecoverFails(g)
    <3>1. UNCHANGED <<killed, fallbacks>>
      BY <2>1 DEF FlushMoves, FlushBegin, DeliverLock, DeliverMoves, DeliverKill, DeliverSettle,
                  DeliverDone, DeliverRefused, RecoverFails, gatewayVars
    <3> QED  BY <1>1, <3>1
  <2>2. CASE RecoverMoves(g) /\ ~RecoverSwap(g)
    <3>1. UNCHANGED <<killed, fallbacks>>
      BY <2>2 DEF RecoverMoves, RecoverBegin, RecoverCheck, RecoverAsk, DeliverLock, gatewayVars
    <3> QED  BY <1>1, <3>1
  <2> QED  BY <1>6, <1>7, <1>11, <2>1, <2>2
<1> QED  BY <1>8, <1>9, <1>10, <1>11 DEF Next

\* Whatever fails and whoever orders, the fallback a gateway would decide by
\* now has the switch as the gateway itself has it (setKilled, mirrorKill,
\* degrade, recovered).
THEOREM FallbackAgreesCorrect == Spec => []FallbackAgrees
<1>1. Init => TypeOK /\ FallbackAgrees
  <2>1. Init => FallbackAgrees
    BY DEF Init, FallbackAgrees, Local
  <2> QED  BY <2>1, TypeInit
<1>2. (TypeOK /\ FallbackAgrees) /\ [Next]_vars => (TypeOK /\ FallbackAgrees)'
  BY TypeStep, AgreesStep
<1> QED  BY <1>1, <1>2, PTL DEF Spec

-----------------------------------------------------------------------------
(* The switch holds. *)

LEMMA GenerationsStep ==
  ASSUME TypeOK, GenerationsBounded, [Next]_vars
  PROVE  GenerationsBounded'
<1>t. /\ gen \in [Gateways -> Nat] /\ delivery \in [Gateways -> Deliveries]
      /\ order \in [Orders -> OrderThreads]
  BY DEF TypeOK
<1>n. \A o \in Orders : order[o].gw \in Gateways /\ order[o].gen \in Nat
  BY <1>t DEF OrderThreads
<1>d. \A g \in Gateways : delivery[g].gen \in Nat /\ gen[g] \in Nat
  BY <1>t DEF Deliveries
<1>k. NoDelivery.gen = 0 /\ [NoDelivery EXCEPT !.who = "order"].gen = 0
  BY DEF NoDelivery
<1>1. ASSUME gen' = gen,
             \A o \in Orders : order'[o].gen = order[o].gen /\ order'[o].gw = order[o].gw,
             \A g \in Gateways : delivery'[g].gen \in {0, delivery[g].gen, gen[g]}
      PROVE  GenerationsBounded'
  BY <1>1, <1>n, <1>d DEF GenerationsBounded
<1>2. ASSUME NEW o \in Orders, NEW g \in Gateways, NEW on \in BOOLEAN, SetKilled(o, g, on)
      PROVE  GenerationsBounded'
  <2>1. gen' = [gen EXCEPT ![g] = @ + 1] /\ delivery' = delivery
    BY <1>2 DEF SetKilled, workVars
  <2>2. /\ order'[o].gw = g /\ order'[o].gen = gen[g] + 1
        /\ \A p \in Orders : p # o => order'[p] = order[p]
    BY <1>2, <1>t DEF SetKilled
  <2>3. gen'[g] = gen[g] + 1 /\ \A h \in Gateways : gen'[h] >= gen[h]
    BY <2>1, <1>t, <1>d
  <2>4. ASSUME NEW p \in Orders PROVE order'[p].gen <= gen'[order'[p].gw]
    <3>1. CASE p = o
      BY <2>2, <2>3, <3>1, <1>d
    <3>2. CASE p # o
      <4>1. gen'[order[p].gw] \in Nat
        BY <2>1, <1>t, <1>n
      <4> QED  BY <2>2, <2>3, <3>2, <4>1, <1>n, <1>d DEF GenerationsBounded
    <3> QED  BY <3>1, <3>2
  <2>5. ASSUME NEW h \in Gateways PROVE delivery'[h].gen <= gen'[h]
    <3>1. gen'[h] \in Nat
      BY <2>1, <1>t
    <3> QED  BY <2>1, <2>3, <3>1, <1>d DEF GenerationsBounded
  <2> QED  BY <2>4, <2>5 DEF GenerationsBounded
<1>3. CASE UNCHANGED <<gen, order, delivery>>
  BY <1>3 DEF GenerationsBounded
<1>4. ASSUME NEW o \in Orders,
             OrderMoves(o) \/ \E failure \in Failures, ran \in BOOLEAN : OrderSendFails(o, failure, ran)
      PROVE  GenerationsBounded'
  <2>1. gen' = gen
    BY <1>4 DEF OrderMoves, OrderLock, OrderSend, OrderSettle, OrderSendFails, gatewayVars
  <2>2. PICK p : order' = [order EXCEPT ![o].pc = p]
    BY <1>4 DEF OrderMoves, OrderLock, OrderSend, OrderSettle, OrderSendFails
  <2>3. \A q \in Orders : order'[q].gen = order[q].gen /\ order'[q].gw = order[q].gw
    BY <2>2, <1>t DEF OrderThreads
  <2>4. \/ delivery' = delivery
        \/ delivery' = [delivery EXCEPT ![order[o].gw] = NoDelivery]
        \/ delivery' = [delivery EXCEPT ![order[o].gw] = [NoDelivery EXCEPT !.who = "order"]]
    BY <1>4 DEF OrderMoves, OrderLock, OrderSend, OrderSettle, OrderSendFails, workVars
  <2>5. \A g \in Gateways : delivery'[g].gen \in {0, delivery[g].gen}
    BY <2>4, <1>t, <1>n, <1>k
  <2> QED  BY <2>1, <2>3, <2>5, <1>1
<1>5. ASSUME NEW g \in Gateways,
             \/ FlushMoves(g) \/ RecoverMoves(g) \/ DeliverMoves(g)
             \/ DeliverRefused(g) \/ RecoverFails(g)
             \/ \E failure \in Failures, ran \in BOOLEAN : DeliverFails(g, failure, ran)
      PROVE  GenerationsBounded'
  <2>1. gen' = gen /\ order' = order
    BY <1>5 DEF FlushMoves, FlushBegin, DeliverLock, RecoverMoves, RecoverBegin, RecoverCheck,
                RecoverAsk, RecoverSwap, DeliverMoves, DeliverKill, DeliverSettle, DeliverDone,
                DeliverRefused, RecoverFails, DeliverFails, gatewayVars
  <2>2. \A h \in Gateways : delivery'[h].gen \in {0, delivery[h].gen, gen[h]}
    <3>1. CASE UNCHANGED delivery
      BY <3>1
    <3>2. ASSUME NEW who, DeliverLock(g, who)
          PROVE  \A h \in Gateways : delivery'[h].gen \in {0, delivery[h].gen, gen[h]}
      BY <3>2, <1>t DEF DeliverLock
    <3>3. ASSUME NEW p, delivery' = [delivery EXCEPT ![g].pc = p]
          PROVE  \A h \in Gateways : delivery'[h].gen \in {0, delivery[h].gen, gen[h]}
      BY <3>3, <1>t DEF Deliveries
    <3>4. CASE delivery' = [delivery EXCEPT ![g] = NoDelivery]
      BY <3>4, <1>t, <1>k
    <3>5. CASE FlushMoves(g) \/ RecoverMoves(g) \/ RecoverFails(g)
      BY <3>1, <3>2, <3>5 DEF FlushMoves, FlushBegin, RecoverMoves, RecoverBegin, RecoverCheck,
                              RecoverAsk, RecoverSwap, RecoverFails
    <3>6. CASE DeliverMoves(g) \/ DeliverRefused(g)
      BY <3>3, <3>4, <3>6 DEF DeliverMoves, DeliverKill, DeliverSettle, DeliverDone, DeliverRefused
    <3>7. CASE \E failure \in Failures, ran \in BOOLEAN : DeliverFails(g, failure, ran)
      BY <3>4, <3>7 DEF DeliverFails
    <3> QED  BY <1>5, <3>5, <3>6, <3>7
  <2> QED  BY <2>1, <2>2, <1>1
<1>6. ASSUME NEW c \in Calls,
             \/ CallMoves(c) \/ \E g \in Gateways : Begin(c, g)
             \/ \E failure \in Failures : AskFails(c, failure)
      PROVE  UNCHANGED <<gen, order, delivery>>
  BY <1>6 DEF CallMoves, Ask, Process, PickLocal, Decide, Begin, AskFails, gatewayVars, workVars
<1>7. CASE UNCHANGED vars
  BY <1>3, <1>7 DEF vars
<1> QED  BY <1>2, <1>3, <1>4, <1>5, <1>6, <1>7 DEF Next

\* A step that orders nothing and touches no call and no mirror keeps Safe if
\* it keeps what has landed.
LEMMA SafeKept ==
  ASSUME TypeOK, Safe, NEW g \in Gateways, NEW b \in BOOLEAN, GrownAt(g, b),
         UNCHANGED <<killed, last, call>>,
         \/ engaged' = engaged /\ \A h \in Gateways, on \in BOOLEAN : Lands(h, on) => Lands(h, on)'
         \/ engaged' = last.on
  PROVE  Safe'
<1>t. last.gw \in Gateways /\ last.on \in BOOLEAN /\ TRUE \in BOOLEAN
  BY DEF TypeOK
<1>1. \A h \in Gateways : On(h)' <=> On(h)
  BY DEF On
<1>2. \A h \in Gateways : Lands(h, last.on) => Lands(h, last.on)'
  BY <1>t DEF Lands
<1>3. Lands(last.gw, last.on)'
  BY <1>t, <1>2 DEF Safe
<1>4. OnKept'
  <2> SUFFICES ASSUME NEW h \in Gateways, On(h)' PROVE (last.on /\ killed[h] /\ Lands(h, TRUE))'
    BY DEF OnKept
  <2>1. last.on /\ killed[h] /\ Lands(h, TRUE)
    BY <1>1 DEF Safe, OnKept
  <2>2. last.on = TRUE
    BY <1>t, <2>1
  <2> QED  BY <1>2, <2>1, <2>2
<1>5. UnderKept'
  <2> SUFFICES ASSUME NEW c \in Calls, call[c].under PROVE Carries(c)'
    BY DEF UnderKept
  <2>1. call[c].gw \in Gateways /\ (call[c].pc # "idle" => call[c].ptr \in 1..Len(fallbacks[call[c].gw]))
    BY DEF TypeOK, CallThreads
  <2>2. Carries(c)
    BY DEF Safe, UnderKept
  <2>3. call[c].pc = "asking" => engaged'
    <3> SUFFICES ASSUME call[c].pc = "asking" PROVE engaged'
      OBVIOUS
    <3>1. On(call[c].gw) /\ engaged
      BY <2>2 DEF On, Live, Carries
    <3>2. last.on
      BY <2>1, <3>1 DEF Safe, OnKept
    <3> QED  BY <3>1, <3>2
  <2>4. call[c].pc = "deciding" => fallbacks'[call[c].gw][call[c].ptr] = fallbacks[call[c].gw][call[c].ptr]
    BY <2>1, GrownTyped
  <2> QED  BY <2>2, <2>3, <2>4 DEF Carries
<1> QED  BY <1>3, <1>4, <1>5 DEF Safe

\* A step of a call that leaves the mirror alone.
LEMMA SafeCall ==
  ASSUME TypeOK, Safe, NEW g \in Gateways, NEW b \in BOOLEAN, GrownAt(g, b), NEW c \in Calls,
         UNCHANGED <<engaged, killed, dirty, gen, order, delivery, last>>,
         \A d \in Calls : d # c => call'[d] = call[d],
         call'[c].under /\ call'[c].pc \in Live => On(call'[c].gw),
         call'[c].under => Carries(c)'
  PROVE  Safe'
<1>1. \A h \in Gateways, on \in BOOLEAN : Lands(h, on)' <=> Lands(h, on)
  BY DEF Lands
<1>2. \A h \in Gateways : On(h)' => On(h)
  BY DEF On
<1>3. last.gw \in Gateways /\ last.on \in BOOLEAN
  BY DEF TypeOK
<1>4. Lands(last.gw, last.on)' /\ OnKept'
  BY <1>1, <1>2, <1>3 DEF Safe, OnKept
<1>5. UnderKept'
  <2> SUFFICES ASSUME NEW d \in Calls, d # c, call[d].under PROVE Carries(d)'
    BY DEF UnderKept
  <2>1. call[d].gw \in Gateways /\ (call[d].pc # "idle" => call[d].ptr \in 1..Len(fallbacks[call[d].gw]))
    BY DEF TypeOK, CallThreads
  <2>2. Carries(d)
    BY DEF Safe, UnderKept
  <2>3. call[d].pc = "deciding" => fallbacks'[call[d].gw][call[d].ptr] = fallbacks[call[d].gw][call[d].ptr]
    BY <2>1, GrownTyped
  <2> QED  BY <2>2, <2>3 DEF Carries
<1> QED  BY <1>4, <1>5 DEF Safe

LEMMA SafeCalls ==
  ASSUME TypeOK, FallbackAgrees, Safe, NEW c \in Calls, excused' = {},
         \/ CallMoves(c) \/ \E g \in Gateways : Begin(c, g)
         \/ \E failure \in Failures : AskFails(c, failure)
  PROVE  Safe'
<1>t. /\ call \in [Calls -> CallThreads] /\ call[c].gw \in Gateways /\ call[c].answer \in BOOLEAN
      /\ engaged \in BOOLEAN /\ killed \in [Gateways -> BOOLEAN]
  BY DEF TypeOK, CallThreads
<1>a. \A g \in Gateways : fallbacks[g][Local(g)] = killed[g]
  BY DEF FallbackAgrees
<1>u. call[c].under => Carries(c)
  BY DEF Safe, UnderKept
<1>o. call[c].under /\ call[c].pc \in Live => On(call[c].gw)
  BY DEF On
<1>1. ASSUME NEW g \in Gateways, Begin(c, g) PROVE Safe'
  <2> DEFINE p == IF degraded[g] THEN "deciding"
                  ELSE IF dirty[g] /\ killed[g] THEN "refused" ELSE "asking"
  <2>1. /\ UNCHANGED <<engaged, killed, dirty, gen, order, delivery, last, fallbacks>>
        /\ GrownAt(g, TRUE)
    BY <1>1 DEF Begin, gatewayVars, workVars, GrownAt
  <2>2. /\ \A d \in Calls : d # c => call'[d] = call[d]
        /\ call'[c].gw = g /\ call'[c].ptr = Local(g) /\ call'[c].pc = p
        /\ call'[c].under = (last.on /\ last.gw = g)
    BY <1>1, <1>t DEF Begin
  <2>3. call'[c].under => On(g)
    BY <2>2 DEF On
  <2>4. call'[c].under => Carries(c)'
    <3> SUFFICES ASSUME call'[c].under PROVE Carries(c)'
      OBVIOUS
    <3>1. killed[g] /\ Lands(g, TRUE)
      BY <2>3 DEF Safe, OnKept
    <3>2. p = "asking" => engaged
      BY <1>t, <3>1 DEF Lands
    <3>3. p \in {"deciding", "refused", "asking"}
      OBVIOUS
    <3> HIDE DEF p
    <3>4. fallbacks'[call'[c].gw][call'[c].ptr]
      BY <1>a, <2>1, <2>2, <3>1
    <3> QED  BY <2>1, <2>2, <3>2, <3>3, <3>4 DEF Carries
  <2> QED  BY <2>1, <2>2, <2>3, <2>4, SafeCall
<1>2. CASE Ask(c)
  <2>1. /\ UNCHANGED <<engaged, killed, dirty, gen, order, delivery, last>>
        /\ GrownAt(call[c].gw, TRUE)
    BY <1>2 DEF Ask, gatewayVars, workVars, GrownAt
  <2>2. /\ \A d \in Calls : d # c => call'[d] = call[d]
        /\ call'[c].gw = call[c].gw /\ call'[c].pc = "answered" /\ call'[c].answer = engaged
        /\ call'[c].under = call[c].under /\ call[c].pc = "asking"
    BY <1>2, <1>t DEF Ask, CallThreads
  <2>3. call'[c].under => Carries(c)' /\ On(call[c].gw)
    BY <1>u, <1>o, <2>2 DEF Carries, Live
  <2> QED  BY <1>t, <2>1, <2>2, <2>3, SafeCall
<1>3. ASSUME NEW failure \in Failures, AskFails(c, failure) PROVE Safe'
  <2>1. /\ UNCHANGED <<engaged, killed, dirty, gen, order, delivery, last>>
        /\ GrownAt(call[c].gw, killed[call[c].gw]) /\ killed[call[c].gw] \in BOOLEAN
    BY <1>3, <1>t, FailEffect DEF AskFails, workVars
  <2>2. /\ \A d \in Calls : d # c => call'[d] = call[d]
        /\ call'[c].gw = call[c].gw /\ call'[c].pc = "failed"
        /\ call'[c].under = call[c].under /\ call[c].pc = "asking"
    BY <1>3, <1>t DEF AskFails, CallThreads
  <2>3. call'[c].under => Carries(c)' /\ On(call[c].gw)
    BY <1>o, <2>2 DEF Carries, Live
  <2> QED  BY <1>t, <2>1, <2>2, <2>3, SafeCall
<1>4. CASE Process(c)
  <2> DEFINE g == call[c].gw
             on == call[c].answer
  <2>1. /\ UNCHANGED <<engaged, dirty, gen, order, delivery, last>> /\ MirrorKill(g, on)
    BY <1>4 DEF Process, workVars
  <2>2. /\ \A d \in Calls : d # c => call'[d] = call[d]
        /\ call'[c].gw = call[c].gw /\ call'[c].pc = IF on THEN "refused" ELSE "served"
        /\ call'[c].under = call[c].under /\ call[c].pc = "answered"
    BY <1>4, <1>t DEF Process, CallThreads
  <2>3. call'[c].under => Carries(c)'
    BY <1>u, <2>2 DEF Carries
  <2>4. call'[c].pc \notin Live
    BY <2>2 DEF Live
  <2>5. CASE dirty[g] \/ killed[g] = on
    <3>1. UNCHANGED killed /\ GrownAt(g, TRUE)
      BY <2>1, <2>5 DEF MirrorKill, GrownAt
    <3> QED  BY <1>t, <2>1, <2>2, <2>3, <2>4, <3>1, SafeCall
  <2>6. CASE ~(dirty[g] \/ killed[g] = on)
    <3>1. killed' = [killed EXCEPT ![g] = on] /\ SetAt(g, on) /\ on = engaged
      BY <2>1, <2>6 DEF MirrorKill, SetAt
    <3>2. ~On(g)
      <4> SUFFICES ASSUME On(g) PROVE FALSE
        OBVIOUS
      <4>1. killed[g] /\ Lands(g, TRUE)
        BY <1>t DEF Safe, OnKept
      <4>2. engaged = TRUE
        BY <2>6, <4>1 DEF Lands
      <4>3. killed[g] = TRUE
        BY <1>t, <4>1
      <4> QED  BY <2>6, <3>1, <4>2, <4>3
    <3>3. \A h \in Gateways, b \in BOOLEAN : Lands(h, b)' <=> Lands(h, b)
      BY <2>1 DEF Lands
    <3>4. \A h \in Gateways : On(h)' => On(h)
      BY <2>1, <2>2, <2>4 DEF On
    <3>5. last.gw \in Gateways /\ last.on \in BOOLEAN
      BY DEF TypeOK
    <3>6. \A h \in Gateways : h # g => killed'[h] = killed[h]
      BY <1>t, <3>1
    <3>7. Lands(last.gw, last.on)'
      BY <2>1, <3>3, <3>5 DEF Safe
    <3>8. OnKept'
      BY <2>1, <3>2, <3>3, <3>4, <3>6 DEF Safe, OnKept
    <3>9. ASSUME NEW d \in Calls, d # c, call[d].under PROVE Carries(d)'
      <4>1. Carries(d) /\ call'[d] = call[d]
        BY <2>2, <3>9 DEF Safe, UnderKept
      <4>2. call[d].gw \in Gateways
        BY DEF TypeOK, CallThreads
      <4>3. call[d].pc = "deciding" => call[d].gw # g
        BY <3>2, <3>9 DEF On, Live
      <4>4. call[d].gw # g => fallbacks'[call[d].gw] = fallbacks[call[d].gw]
        BY <1>t, <3>1, <4>2, SetTyped
      <4> QED  BY <2>1, <4>1, <4>3, <4>4 DEF Carries
    <3>10. UnderKept'
      BY <2>2, <2>3, <3>9 DEF UnderKept
    <3> QED  BY <3>7, <3>8, <3>10 DEF Safe
  <2> QED  BY <2>5, <2>6
<1>5. CASE PickLocal(c)
  <2>1. /\ UNCHANGED <<engaged, killed, dirty, gen, order, delivery, last, fallbacks>>
        /\ GrownAt(call[c].gw, TRUE)
    BY <1>5 DEF PickLocal, gatewayVars, workVars, GrownAt
  <2>2. /\ \A d \in Calls : d # c => call'[d] = call[d]
        /\ call'[c].gw = call[c].gw /\ call'[c].pc = "deciding" /\ call'[c].ptr = Local(call[c].gw)
        /\ call'[c].under = call[c].under /\ call[c].pc = "failed"
    BY <1>5, <1>t DEF PickLocal, CallThreads
  <2>3. call'[c].under => On(call[c].gw)
    BY <1>o, <2>2 DEF Live
  <2>4. call'[c].under => Carries(c)'
    <3> SUFFICES ASSUME call'[c].under PROVE Carries(c)'
      OBVIOUS
    <3>1. killed[call[c].gw]
      BY <1>t, <2>3 DEF Safe, OnKept
    <3>2. fallbacks'[call'[c].gw][call'[c].ptr]
      BY <1>a, <1>t, <2>1, <2>2, <3>1
    <3> QED  BY <2>2, <3>2 DEF Carries
  <2> QED  BY <1>t, <2>1, <2>2, <2>3, <2>4, SafeCall
<1>6. CASE Decide(c)
  <2>1. /\ UNCHANGED <<engaged, killed, dirty, gen, order, delivery, last>>
        /\ GrownAt(call[c].gw, TRUE)
    BY <1>6 DEF Decide, gatewayVars, workVars, GrownAt
  <2>2. /\ \A d \in Calls : d # c => call'[d] = call[d]
        /\ call'[c].gw = call[c].gw
        /\ call'[c].pc = IF fallbacks[call[c].gw][call[c].ptr] THEN "refused" ELSE "served"
        /\ call'[c].under = call[c].under /\ call[c].pc = "deciding"
    BY <1>6, <1>t DEF Decide, CallThreads
  <2>3. (call'[c].under => Carries(c)') /\ call'[c].pc \notin Live
    BY <1>u, <2>2 DEF Carries, Live
  <2> QED  BY <1>t, <2>1, <2>2, <2>3, SafeCall
<1> QED  BY <1>1, <1>2, <1>3, <1>4, <1>5, <1>6 DEF CallMoves

\* With no race, every write of the switch is of the newest order.
LEMMA WrittenIsLast ==
  ASSUME NEW on, Written(on), excused' = {}
  PROVE  engaged' = last.on
  BY DEF Written

LEMMA SafeGateways ==
  ASSUME TypeOK, FallbackAgrees, Safe, NEW g \in Gateways, excused' = {},
         \/ FlushMoves(g) \/ RecoverMoves(g) \/ DeliverMoves(g)
         \/ DeliverRefused(g) \/ RecoverFails(g)
         \/ \E failure \in Failures, ran \in BOOLEAN : DeliverFails(g, failure, ran)
  PROVE  Safe'
<1>t. /\ delivery \in [Gateways -> Deliveries] /\ killed \in [Gateways -> BOOLEAN]
      /\ killed[g] \in BOOLEAN /\ engaged \in BOOLEAN
  BY DEF TypeOK
<1>1. ASSUME NEW who, DeliverLock(g, who) PROVE Safe'
  <2>1. GrownAt(g, TRUE) /\ UNCHANGED <<killed, last, call, engaged, dirty, order, gen>>
    BY <1>1 DEF DeliverLock, gatewayVars, GrownAt
  <2>2. delivery'[g].pc # "clear" /\ \A h \in Gateways : h # g => delivery'[h] = delivery[h]
    BY <1>1, <1>t DEF DeliverLock
  <2>3. \A h \in Gateways, on \in BOOLEAN : Lands(h, on) => Lands(h, on)'
    BY <2>1, <2>2 DEF Lands
  <2> QED  BY <2>1, <2>3, SafeKept
<1>2. CASE DeliverKill(g)
  <2>1. GrownAt(g, TRUE) /\ UNCHANGED <<killed, last, call>> /\ engaged' = last.on
    BY <1>2, WrittenIsLast DEF DeliverKill, GrownAt
  <2> QED  BY <2>1, SafeKept
<1>3. CASE DeliverRefused(g)
  BY <1>3 DEF DeliverRefused
<1>4. CASE DeliverSettle(g)
  <2>1. GrownAt(g, TRUE) /\ UNCHANGED <<killed, last, call, engaged, order, gen>>
    BY <1>4 DEF DeliverSettle, GrownAt
  <2>2. /\ delivery[g].pc = "clear" /\ delivery'[g].pc = "rest"
        /\ \A h \in Gateways : h # g => delivery'[h] = delivery[h]
    BY <1>4, <1>t DEF DeliverSettle, Deliveries
  <2>3. /\ dirty'[g] = dirty[g] \/ gen[g] = delivery[g].gen
        /\ \A h \in Gateways : h # g => dirty'[h] = dirty[h]
    BY <1>4 DEF DeliverSettle, Settle, TypeOK
  <2>4. \A h \in Gateways, on \in BOOLEAN : Lands(h, on) => Lands(h, on)'
    BY <2>1, <2>2, <2>3 DEF Lands
  <2> QED  BY <2>1, <2>4, SafeKept
<1>5. CASE DeliverDone(g)
  <2>1. GrownAt(g, TRUE) /\ UNCHANGED <<killed, last, call, engaged, dirty, order, gen>>
    BY <1>5 DEF DeliverDone, gatewayVars, GrownAt
  <2>2. delivery'[g].pc # "clear" /\ \A h \in Gateways : h # g => delivery'[h] = delivery[h]
    BY <1>5, <1>t DEF DeliverDone, NoDelivery
  <2>3. \A h \in Gateways, on \in BOOLEAN : Lands(h, on) => Lands(h, on)'
    BY <2>1, <2>2 DEF Lands
  <2> QED  BY <2>1, <2>3, SafeKept
<1>6. ASSUME NEW failure \in Failures, NEW ran \in BOOLEAN, DeliverFails(g, failure, ran)
      PROVE  Safe'
  <2>1. GrownAt(g, killed[g])
    <3>1. CASE Fail(g, failure)
      BY <3>1, FailEffect
    <3>2. CASE ~Fail(g, failure)
      BY <1>6, <3>2 DEF DeliverFails, Degrade, GrownAt
    <3> QED  BY <3>1, <3>2
  <2>2. UNCHANGED <<killed, last, call, dirty, order, gen>>
    BY <1>6 DEF DeliverFails
  <2>3. delivery'[g].pc # "clear" /\ \A h \in Gateways : h # g => delivery'[h] = delivery[h]
    BY <1>6, <1>t DEF DeliverFails, NoDelivery
  <2>4. engaged' = engaged \/ engaged' = last.on
    BY <1>6, WrittenIsLast DEF DeliverFails
  <2>5. engaged' = engaged => \A h \in Gateways, on \in BOOLEAN : Lands(h, on) => Lands(h, on)'
    BY <2>2, <2>3 DEF Lands
  <2> QED  BY <1>t, <2>1, <2>2, <2>4, <2>5, SafeKept
<1>7. CASE FlushBegin(g) \/ RecoverBegin(g) \/ RecoverAsk(g) \/ RecoverFails(g)
           \/ \E quiet \in BOOLEAN : RecoverCheck(g, quiet)
  <2>1. /\ GrownAt(g, TRUE)
        /\ UNCHANGED <<killed, last, call, engaged, dirty, order, gen, delivery>>
    BY <1>7 DEF FlushBegin, RecoverBegin, RecoverAsk, RecoverFails, RecoverCheck, gatewayVars, GrownAt
  <2>2. \A h \in Gateways, on \in BOOLEAN : Lands(h, on) => Lands(h, on)'
    BY <2>1 DEF Lands
  <2> QED  BY <2>1, <2>2, SafeKept
<1>8. CASE RecoverSwap(g)
  <2>1. /\ UNCHANGED <<engaged, dirty, gen, delivery, order, call, last>>
        /\ killed' = [killed EXCEPT ![g] = Learned(g)]
        /\ GrownAt(g, Learned(g)) /\ Learned(g) \in BOOLEAN
    BY <1>8 DEF RecoverSwap, GrownAt, Learned, TypeOK, Recoveries
  <2>2. dirty[g] \/ recover[g].seen = engaged
    BY <1>8 DEF RecoverSwap
  <2>3. On(g) => Learned(g)
    <3> SUFFICES ASSUME On(g) PROVE Learned(g)
      OBVIOUS
    <3>1. killed[g] /\ Lands(g, TRUE)
      BY DEF Safe, OnKept
    <3>2. CASE dirty[g]
      BY <3>1, <3>2 DEF Learned
    <3>3. CASE ~dirty[g]
      BY <2>2, <3>1, <3>3 DEF Learned, Lands
    <3> QED  BY <3>2, <3>3
  <2>4. \A h \in Gateways : On(h)' <=> On(h)
    BY <2>1 DEF On
  <2>5. \A h \in Gateways, on \in BOOLEAN : Lands(h, on)' <=> Lands(h, on)
    BY <2>1 DEF Lands
  <2>6. \A h \in Gateways : On(h) => killed'[h]
    BY <1>t, <2>1, <2>3 DEF Safe, OnKept
  <2>7. last.gw \in Gateways /\ last.on \in BOOLEAN
    BY DEF TypeOK
  <2>8. Lands(last.gw, last.on)' /\ OnKept'
    BY <2>1, <2>4, <2>5, <2>6, <2>7 DEF Safe, OnKept
  <2>9. UnderKept'
    <3> SUFFICES ASSUME NEW d \in Calls, call[d].under PROVE Carries(d)'
      BY <2>1 DEF UnderKept
    <3>1. call[d].gw \in Gateways /\ (call[d].pc # "idle" => call[d].ptr \in 1..Len(fallbacks[call[d].gw]))
      BY DEF TypeOK, CallThreads
    <3>2. Carries(d)
      BY DEF Safe, UnderKept
    <3>3. call[d].pc = "deciding" => fallbacks'[call[d].gw][call[d].ptr] = fallbacks[call[d].gw][call[d].ptr]
      BY <2>1, <3>1, GrownTyped
    <3> QED  BY <2>1, <3>2, <3>3 DEF Carries
  <2> QED  BY <2>8, <2>9 DEF Safe
<1> QED  BY <1>1, <1>2, <1>3, <1>4, <1>5, <1>6, <1>7, <1>8 DEF FlushMoves, RecoverMoves, DeliverMoves

LEMMA SafeOrders ==
  ASSUME TypeOK, FallbackAgrees, GenerationsBounded, Safe, NEW o \in Orders, excused' = {},
         \/ OrderMoves(o) \/ \E g \in Gateways, on \in BOOLEAN : SetKilled(o, g, on)
         \/ \E failure \in Failures, ran \in BOOLEAN : OrderSendFails(o, failure, ran)
  PROVE  Safe'
<1>t. /\ order \in [Orders -> OrderThreads] /\ delivery \in [Gateways -> Deliveries]
      /\ order[o].gw \in Gateways /\ killed \in [Gateways -> BOOLEAN] /\ gen \in [Gateways -> Nat]
  BY DEF TypeOK, OrderThreads
<1>1. CASE OrderLock(o)
  <2>1. GrownAt(order[o].gw, TRUE) /\ UNCHANGED <<killed, last, call, engaged, dirty, gen>>
    BY <1>1 DEF OrderLock, gatewayVars, GrownAt
  <2>2. /\ delivery'[order[o].gw].pc = "idle"
        /\ \A h \in Gateways : h # order[o].gw => delivery'[h] = delivery[h]
    BY <1>1, <1>t DEF OrderLock, NoDelivery
  <2>3. order'[o].pc = "sending" /\ \A p \in Orders : p # o => order'[p] = order[p]
    BY <1>1, <1>t DEF OrderLock, OrderThreads
  <2>4. \A h \in Gateways, on \in BOOLEAN : Lands(h, on) => Lands(h, on)'
    BY <2>1, <2>2, <2>3 DEF Lands
  <2> QED  BY <1>t, <2>1, <2>4, SafeKept
<1>2. CASE OrderSend(o)
  <2>1. GrownAt(order[o].gw, TRUE) /\ UNCHANGED <<killed, last, call>> /\ engaged' = last.on
    BY <1>2, WrittenIsLast DEF OrderSend, gatewayVars, GrownAt
  <2> QED  BY <1>t, <2>1, SafeKept
<1>3. ASSUME NEW failure \in Failures, NEW ran \in BOOLEAN, OrderSendFails(o, failure, ran)
      PROVE  Safe'
  <2>1. Fail(order[o].gw, failure) /\ UNCHANGED <<killed, last, call, dirty, gen>>
    BY <1>3 DEF OrderSendFails
  <2>2. GrownAt(order[o].gw, killed[order[o].gw]) /\ killed[order[o].gw] \in BOOLEAN
    BY <1>t, <2>1, FailEffect
  <2>3. /\ delivery'[order[o].gw].pc = "idle"
        /\ \A h \in Gateways : h # order[o].gw => delivery'[h] = delivery[h]
    BY <1>3, <1>t DEF OrderSendFails, NoDelivery
  <2>4. order'[o].pc = "done" /\ \A p \in Orders : p # o => order'[p] = order[p]
    BY <1>3, <1>t DEF OrderSendFails, OrderThreads
  <2>5. engaged' = engaged \/ engaged' = last.on
    BY <1>3, WrittenIsLast DEF OrderSendFails
  <2>6. engaged' = engaged => \A h \in Gateways, on \in BOOLEAN : Lands(h, on) => Lands(h, on)'
    BY <2>1, <2>3, <2>4 DEF Lands
  <2> QED  BY <1>t, <2>1, <2>2, <2>5, <2>6, SafeKept
<1>4. CASE OrderSettle(o)
  <2>1. GrownAt(order[o].gw, TRUE) /\ UNCHANGED <<killed, last, call, engaged, delivery, gen>>
    BY <1>4 DEF OrderSettle, workVars, GrownAt
  <2>2. /\ order[o].pc = "sent" /\ order'[o].pc = "done"
        /\ \A p \in Orders : p # o => order'[p] = order[p]
    BY <1>4, <1>t DEF OrderSettle, OrderThreads
  <2>3. /\ dirty'[order[o].gw] = dirty[order[o].gw] \/ gen[order[o].gw] = order[o].gen
        /\ \A h \in Gateways : h # order[o].gw => dirty'[h] = dirty[h]
    BY <1>4 DEF OrderSettle, Settle, TypeOK
  <2>4. \A h \in Gateways, on \in BOOLEAN : Lands(h, on) => Lands(h, on)'
    BY <2>1, <2>2, <2>3 DEF Lands
  <2> QED  BY <1>t, <2>1, <2>4, SafeKept
<1>5. ASSUME NEW g \in Gateways, NEW on \in BOOLEAN, SetKilled(o, g, on) PROVE Safe'
  <2>1. /\ UNCHANGED <<engaged, delivery>> /\ last' = [on |-> on, gw |-> g]
        /\ dirty' = [dirty EXCEPT ![g] = TRUE] /\ killed' = [killed EXCEPT ![g] = on]
        /\ gen' = [gen EXCEPT ![g] = @ + 1] /\ SetAt(g, on)
    BY <1>5 DEF SetKilled, workVars, SetAt
  <2>2. /\ order'[o].pc \in {"done", "locking"}
        /\ \A p \in Orders : p # o => order'[p] = order[p]
    BY <1>5, <1>t DEF SetKilled
  <2>3. /\ dirty'[g] /\ \A h \in Gateways : h # g => dirty'[h] = dirty[h] /\ gen'[h] = gen[h]
        /\ gen'[g] = gen[g] + 1 /\ gen[g] \in Nat
    BY <2>1 DEF TypeOK
  <2>4. Lands(g, on)'
    <3>1. delivery[g].gen \in Nat /\ delivery[g].gen <= gen[g]
      BY <1>t DEF GenerationsBounded, Deliveries
    <3>2. ASSUME NEW p \in Orders, p # o, order[p].gw = g PROVE order[p].gen # gen'[g]
      <4>1. order[p].gen \in Nat /\ order[p].gen <= gen[g]
        BY <1>t, <3>2 DEF GenerationsBounded, OrderThreads
      <4> QED  BY <2>3, <4>1
    <3>3. delivery'[g].gen # gen'[g]
      BY <2>1, <2>3, <3>1
    <3>4. ASSUME NEW p \in Orders, order'[p].pc = "sent", order'[p].gw = g PROVE order'[p].gen # gen'[g]
      BY <2>2, <3>2, <3>4
    <3> QED  BY <2>3, <3>3, <3>4 DEF Lands
  <2>5. \A h \in Gateways, b \in BOOLEAN : h # g /\ Lands(h, b) => Lands(h, b)'
    BY <2>1, <2>2, <2>3 DEF Lands
  <2>6. ASSUME NEW c \in Calls
        PROVE  /\ call'[c].pc = call[c].pc /\ call'[c].gw = call[c].gw /\ call'[c].ptr = call[c].ptr
               /\ call'[c].answer = call[c].answer
               /\ IF call[c].pc \in {"served", "refused"} THEN call'[c].under = call[c].under
                  ELSE call'[c].under = (call[c].under /\ on)
    <3>1. call[c] \in CallThreads
      BY DEF TypeOK
    <3>2. call'[c] = IF call[c].pc \in {"served", "refused"} THEN call[c]
                     ELSE [call[c] EXCEPT !.under = @ /\ on]
      BY <1>5 DEF SetKilled
    <3> QED  BY <3>1, <3>2 DEF CallThreads
  <2>7. last'.on = on /\ last'.gw = g
    BY <2>1
  <2>8. \A h \in Gateways : On(h)' => on /\ (h = g \/ On(h))
    BY <2>6, <2>7 DEF On, Live
  <2>9. OnKept'
    <3> SUFFICES ASSUME NEW h \in Gateways, On(h)' PROVE last'.on /\ killed'[h] /\ Lands(h, TRUE)'
      BY DEF OnKept
    <3>1. on = TRUE
      BY <2>8
    <3>2. CASE h = g
      BY <1>t, <2>1, <2>4, <2>7, <3>1, <3>2
    <3>3. CASE h # g
      <4>1. killed[h] /\ Lands(h, TRUE)
        BY <2>8, <3>3 DEF Safe, OnKept
      <4> QED  BY <1>t, <2>1, <2>5, <2>7, <3>1, <3>3, <4>1
    <3> QED  BY <3>2, <3>3
  <2>10. UnderKept'
    <3> SUFFICES ASSUME NEW c \in Calls, call'[c].under PROVE Carries(c)'
      BY DEF UnderKept
    <3>1. call[c].under /\ (call[c].pc \notin {"served", "refused"} => on)
      BY <2>6
    <3>2. Carries(c)
      BY <3>1 DEF Safe, UnderKept
    <3>3. call[c].gw \in Gateways /\ (call[c].pc # "idle" => call[c].ptr \in 1..Len(fallbacks[call[c].gw]))
      BY DEF TypeOK, CallThreads
    <3>4. call[c].pc = "deciding" => fallbacks'[call[c].gw][call[c].ptr]
      <4> SUFFICES ASSUME call[c].pc = "deciding" PROVE fallbacks'[call[c].gw][call[c].ptr]
        OBVIOUS
      <4>1. on /\ fallbacks[call[c].gw][call[c].ptr]
        BY <3>1, <3>2 DEF Carries
      <4>2. CASE call[c].gw = g
        <5>1. fallbacks'[g][call[c].ptr] = IF call[c].ptr = Len(fallbacks[g]) THEN on
                                           ELSE fallbacks[g][call[c].ptr]
          BY <2>1, <3>3, <4>2, SetTyped, ZenonT(60)
        <5> QED  BY <4>1, <4>2, <5>1
      <4>3. CASE call[c].gw # g
        BY <2>1, <3>3, <4>1, <4>3, SetTyped, ZenonT(60)
      <4> QED  BY <4>2, <4>3
    <3> QED  BY <2>1, <2>6, <3>2, <3>4 DEF Carries
  <2> QED  BY <2>4, <2>7, <2>9, <2>10 DEF Safe
<1> QED  BY <1>1, <1>2, <1>3, <1>4, <1>5 DEF OrderMoves

LEMMA RacesKept == ASSUME [Next]_vars PROVE excused' = {} => excused = {}
<1>w. ASSUME NEW on, Written(on) PROVE excused' = {} => excused = {}
  BY <1>w DEF Written
<1>1. CASE UNCHANGED vars
  BY <1>1 DEF vars
<1>2. ASSUME NEW c \in Calls,
             \/ CallMoves(c) \/ \E g \in Gateways : Begin(c, g)
             \/ \E failure \in Failures : AskFails(c, failure)
      PROVE  excused' = {} => excused = {}
  BY <1>2 DEF CallMoves, Ask, Process, MirrorKill, PickLocal, Decide, Begin, AskFails
<1>3. ASSUME NEW o \in Orders,
             \/ OrderMoves(o) \/ \E g \in Gateways, on \in BOOLEAN : SetKilled(o, g, on)
             \/ \E failure \in Failures, ran \in BOOLEAN : OrderSendFails(o, failure, ran)
      PROVE  excused' = {} => excused = {}
  BY <1>3, <1>w DEF OrderMoves, OrderLock, OrderSend, OrderSettle, SetKilled, OrderSendFails
<1>4. ASSUME NEW g \in Gateways,
             \/ FlushMoves(g) \/ RecoverMoves(g) \/ DeliverMoves(g)
             \/ DeliverRefused(g) \/ RecoverFails(g)
             \/ \E failure \in Failures, ran \in BOOLEAN : DeliverFails(g, failure, ran)
      PROVE  excused' = {} => excused = {}
  <2>1. CASE FlushMoves(g) \/ RecoverMoves(g) \/ RecoverFails(g)
    BY <2>1 DEF FlushMoves, FlushBegin, DeliverLock, RecoverMoves, RecoverBegin, RecoverCheck,
                RecoverAsk, RecoverSwap, RecoverFails
  <2>2. CASE DeliverMoves(g) \/ DeliverRefused(g)
    BY <2>2, <1>w DEF DeliverMoves, DeliverKill, DeliverSettle, DeliverDone, DeliverRefused
  <2>3. ASSUME NEW failure \in Failures, NEW ran \in BOOLEAN, DeliverFails(g, failure, ran)
        PROVE  excused' = {} => excused = {}
    BY <2>3, <1>w DEF DeliverFails
  <2> QED  BY <1>4, <2>1, <2>2, <2>3
<1> QED  BY <1>1, <1>2, <1>3, <1>4 DEF Next

LEMMA KillInvInit == Init => KillInv
<1> SUFFICES ASSUME Init PROVE KillInv
  OBVIOUS
<1>1. TypeOK
  BY TypeInit
<1>2. FallbackAgrees
  BY DEF Init, FallbackAgrees, Local
<1>3. GenerationsBounded
  <2>1. \A o \in Orders : order[o].gen = 0 /\ order[o].gw \in Gateways
    BY <1>1 DEF Init, TypeOK, OrderThreads
  <2>2. \A g \in Gateways : delivery[g].gen = 0 /\ gen[g] = 0
    BY DEF Init, NoDelivery
  <2> QED  BY <2>1, <2>2 DEF GenerationsBounded
<1>4. /\ engaged = FALSE /\ last.on = FALSE
      /\ \A c \in Calls : ~call[c].under
      /\ \A o \in Orders : order[o].pc = "idle"
      /\ \A g \in Gateways : delivery[g].pc = "idle"
  BY DEF Init, NoDelivery
<1>5. last.gw \in Gateways
  BY <1>1 DEF TypeOK
<1>6. Lands(last.gw, last.on)
  BY <1>4, <1>5 DEF Lands
<1>7. OnKept /\ UnderKept
  BY <1>4 DEF OnKept, On, UnderKept
<1> QED  BY <1>1, <1>2, <1>3, <1>6, <1>7 DEF KillInv, Safe

LEMMA KillInvStep == KillInv /\ [Next]_vars => KillInv'
<1> SUFFICES ASSUME KillInv, [Next]_vars PROVE KillInv'
  OBVIOUS
<1>1. TypeOK /\ FallbackAgrees /\ GenerationsBounded
  BY DEF KillInv
<1>2. TypeOK' /\ FallbackAgrees' /\ GenerationsBounded'
  BY <1>1, TypeStep, AgreesStep, GenerationsStep
<1>3. ASSUME excused' = {} PROVE Safe'
  <2>1. Safe
    BY <1>3, RacesKept DEF KillInv
  <2>2. CASE UNCHANGED vars
    BY <2>1, <2>2 DEF vars, Safe, Lands, OnKept, On, UnderKept, Carries
  <2> QED  BY <1>1, <1>3, <2>1, <2>2, SafeCalls, SafeOrders, SafeGateways DEF Next
<1> QED  BY <1>2, <1>3 DEF KillInv

\* An engaged switch holds at its gateway, for any number of gateways, calls,
\* orders and failures: as long as none of the three races has put an older
\* state over a newer one, a call that began under it is not served, whether
\* the gateway, the store or a fallback decides (admitWhere, setKilled).
THEOREM KillHoldsCorrect == Spec => []KillHolds
<1>1. KillInv => KillHolds
  BY DEF KillInv, Safe, UnderKept, Carries, KillHolds
<1> QED  BY <1>1, KillInvInit, KillInvStep, PTL DEF Spec

\* When nothing is dirty or underway, the store has the newest order (killGen
\* in setKilled and deliver), barring the same races.
THEOREM StoreEndsWithLastCorrect == Spec => []StoreEndsWithLast
<1>1. KillInv => StoreEndsWithLast
  <2> SUFFICES ASSUME KillInv, Quiet, excused = {} PROVE engaged = last.on
    BY DEF StoreEndsWithLast
  <2>1. last.gw \in Gateways
    BY DEF KillInv, TypeOK
  <2>2. ~dirty[last.gw] /\ Lands(last.gw, last.on)
    BY <2>1 DEF KillInv, Safe, Quiet
  <2> QED  BY <2>2 DEF Lands
<1> QED  BY <1>1, KillInvInit, KillInvStep, PTL DEF Spec
=============================================================================
