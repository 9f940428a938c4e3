----------------------------- MODULE KillSwitch -----------------------------
(***************************************************************************)
(* The kill switch of the shared counter, internal/gateway/                *)
(* counter_redis.go: one key in the store, a mirror of it in every         *)
(* gateway and in the gateway's fallback, operators who set it at any      *)
(* gateway, calls that read it, and the deliveries and recoveries that     *)
(* carry it over a gap.  Caps and pauses are the subject of SharedCounter; *)
(* here a call only asks whether the switch is engaged, and the queue of   *)
(* owed items is something a delivery may find, deliver or fail on.        *)
(*                                                                         *)
(* Failures of the store are those of SharedCounter: "busy", "refused",    *)
(* "dead", and "drop", where the store may have run the command.  A failed *)
(* command and the fail() that answers it are one step here; SharedCounter *)
(* has them apart.                                                         *)
(***************************************************************************)
EXTENDS Integers, Sequences, FiniteSets

CONSTANTS
  Gateways,             \* replicas
  Calls,                \* requests
  Orders,               \* operators' requests to engage or clear the switch
  FailStreakToDegrade,  \* dropped answers in a row that start a gap
  WriteBackPasses,      \* deliveries tried before the swap back to the store
  MaxFaults             \* bound on failures of the store

ASSUME KillAssumption ==
  /\ IsFiniteSet(Gateways) /\ Gateways # {}
  /\ IsFiniteSet(Calls) /\ IsFiniteSet(Orders)
  /\ FailStreakToDegrade \in Nat \ {0} /\ WriteBackPasses \in Nat \ {0} /\ MaxFaults \in Nat

VARIABLES
  engaged,    \* the kill key exists in the store
  killed,     \* per gateway: the switch as mirrored, or as its operator set it
  dirty,      \* per gateway: killDirty, set here and not yet in the store
  gen,        \* per gateway: killGen
  degraded,   \* per gateway: in a gap
  streak,     \* per gateway: failStreak
  fallbacks,  \* per gateway: the switch of every fallback built so far
  delivery,   \* per gateway: who holds deliverMu, and what it is writing
  flush,      \* per gateway: the flusher
  recover,    \* per gateway: the recovery
  order,      \* per operator request: its thread
  call,       \* per call: its thread
  faults,     \* failures so far
  last,       \* history: the newest order, and where it was given
  excused     \* history: which races have put an older state over a newer one

gatewayVars == <<killed, dirty, gen, degraded, streak, fallbacks>>
workVars    == <<delivery, flush, recover>>
vars        == <<engaged, killed, dirty, gen, degraded, streak, fallbacks, delivery, flush,
                 recover, order, call, faults, last, excused>>

Races == {"mirror", "overtaken", "refused"}

NoDelivery == [who |-> "none", pc |-> "idle", on |-> FALSE, gen |-> 0]

Deliveries == [who: {"none", "order", "flush", "recover"}, pc: {"idle", "send", "clear", "rest"},
               on: BOOLEAN, gen: Nat]
Recoveries == [pc: {"idle", "deliver", "check", "ask", "swap", "last"},
               pass: 0..WriteBackPasses, seen: BOOLEAN]
OrderThreads == [pc: {"idle", "locking", "sending", "sent", "done"}, gw: Gateways,
                 on: BOOLEAN, gen: Nat]
CallThreads == [pc: {"idle", "asking", "answered", "failed", "deciding", "served", "refused"},
                gw: Gateways, ptr: Nat, answer: BOOLEAN, under: BOOLEAN]

TypeOK ==
  /\ engaged \in BOOLEAN
  /\ killed \in [Gateways -> BOOLEAN] /\ dirty \in [Gateways -> BOOLEAN]
  /\ degraded \in [Gateways -> BOOLEAN]
  /\ gen \in [Gateways -> Nat]
  /\ streak \in [Gateways -> 0..(FailStreakToDegrade - 1)]
  /\ fallbacks \in [Gateways -> Seq(BOOLEAN) \ {<<>>}]
  /\ delivery \in [Gateways -> Deliveries]
  /\ flush \in [Gateways -> {"idle", "deliver"}]
  /\ recover \in [Gateways -> Recoveries]
  /\ order \in [Orders -> OrderThreads]
  /\ call \in [Calls -> CallThreads]
  /\ \A c \in Calls : call[c].pc # "idle" => call[c].ptr \in 1..Len(fallbacks[call[c].gw])
  /\ faults \in 0..MaxFaults /\ last \in [on: BOOLEAN, gw: Gateways] /\ excused \subseteq Races

\* A gateway that the store does not answer at boot begins in a gap; the
\* fallback it had until then has decided nothing.
Init ==
  LET g0 == CHOOSE g \in Gateways : TRUE
  IN
  /\ engaged = FALSE
  /\ killed = [g \in Gateways |-> FALSE] /\ dirty = [g \in Gateways |-> FALSE]
  /\ gen = [g \in Gateways |-> 0]
  /\ degraded \in [Gateways -> BOOLEAN] /\ streak = [g \in Gateways |-> 0]
  /\ fallbacks = [g \in Gateways |-> <<FALSE>>]
  /\ delivery = [g \in Gateways |-> NoDelivery]
  /\ flush = [g \in Gateways |-> "idle"]
  /\ recover = [g \in Gateways |-> [pc |-> "idle", pass |-> 0, seen |-> FALSE]]
  /\ order = [o \in Orders |-> [pc |-> "idle", gw |-> g0, on |-> FALSE, gen |-> 0]]
  /\ call = [c \in Calls |-> [pc |-> "idle", gw |-> g0, ptr |-> 0, answer |-> FALSE,
                              under |-> FALSE]]
  /\ faults = 0 /\ last = [on |-> FALSE, gw |-> g0] /\ excused = {}

-----------------------------------------------------------------------------
(* What several handlers share. *)

Local(g) == Len(fallbacks[g])

\* Every operator request has been answered.
Completed == \A o \in Orders : order[o].pc \in {"idle", "done"}

\* Slip: the fallback of a gap starts with the switch cleared.
Degrade_Forgets(g) ==
  /\ degraded' = [degraded EXCEPT ![g] = TRUE]
  /\ streak' = [streak EXCEPT ![g] = 0]
  /\ fallbacks' = [fallbacks EXCEPT ![g] = Append(@, FALSE)]

\* degrade: a gap starts, its fallback has the switch as last known.
Degrade(g) ==
  /\ degraded' = [degraded EXCEPT ![g] = TRUE]
  /\ streak' = [streak EXCEPT ![g] = 0]
  /\ fallbacks' = [fallbacks EXCEPT ![g] = Append(@, killed[g])]

\* Slip: a gap starts one dropped answer late.
Fail_OneLate(g, failure) ==
  IF degraded[g] \/ failure \in {"busy", "refused"}
    THEN UNCHANGED <<degraded, streak, fallbacks>>
  ELSE IF failure = "dead" \/ streak[g] + 1 > FailStreakToDegrade
    THEN Degrade(g)
  ELSE /\ streak' = [streak EXCEPT ![g] = @ + 1]
       /\ UNCHANGED <<degraded, fallbacks>>

\* fail: which failures start a gap.
Fail(g, failure) ==
  IF degraded[g] \/ failure \in {"busy", "refused"}
    THEN UNCHANGED <<degraded, streak, fallbacks>>
  ELSE IF failure = "dead" \/ streak[g] + 1 >= FailStreakToDegrade
    THEN Degrade(g)
  ELSE /\ streak' = [streak EXCEPT ![g] = @ + 1]
       /\ UNCHANGED <<degraded, fallbacks>>

Failures == {"busy", "refused", "dead", "drop"}

\* A command fails; ran says whether the store had run it.
Fault(failure, ran) ==
  /\ faults < MaxFaults /\ faults' = faults + 1
  /\ ran => failure = "drop"

Answered(g) == streak' = [streak EXCEPT ![g] = 0]

\* The store takes a write of the switch; one that is not the newest order's
\* is remembered.
Written(on) ==
  /\ engaged' = on
  /\ excused' = IF on = last.on THEN excused ELSE excused \cup {"overtaken"}

\* mirrorKill: what the store said replaces the mirror, unless an order given
\* here has not reached the store.
MirrorKill(g, on) ==
  IF dirty[g] \/ killed[g] = on THEN UNCHANGED <<killed, fallbacks, excused>>
  ELSE /\ killed' = [killed EXCEPT ![g] = on]
       /\ fallbacks' = [fallbacks EXCEPT ![g][Local(g)] = on]
       /\ excused' = IF on = engaged THEN excused ELSE excused \cup {"mirror"}

-----------------------------------------------------------------------------
(* A call: admitWhere, as far as it is about the switch.                    *)

\* The store is asked unless there is a gap, or the switch was engaged here
\* and the store has not taken it.
Begin(c, g) ==
  /\ call[c].pc = "idle"
  /\ call' = [call EXCEPT ![c] =
       [pc |-> IF degraded[g] THEN "deciding"
               ELSE IF dirty[g] /\ killed[g] THEN "refused" ELSE "asking",
        gw |-> g, ptr |-> Local(g), answer |-> FALSE,
        under |-> last.on /\ last.gw = g]]
  /\ UNCHANGED <<engaged, gatewayVars, workVars, order, faults, last, excused>>

Ask(c) ==
  /\ call[c].pc = "asking"
  /\ call' = [call EXCEPT ![c].pc = "answered", ![c].answer = engaged]
  /\ UNCHANGED <<engaged, gatewayVars, workVars, order, faults, last, excused>>

AskFails(c, failure) ==
  /\ call[c].pc = "asking"
  /\ Fault(failure, FALSE)
  /\ Fail(call[c].gw, failure)
  /\ call' = [call EXCEPT ![c].pc = "failed"]
  /\ UNCHANGED <<engaged, killed, dirty, gen, workVars, order, last, excused>>

Process(c) ==
  /\ call[c].pc = "answered"
  /\ Answered(call[c].gw)
  /\ MirrorKill(call[c].gw, call[c].answer)
  /\ call' = [call EXCEPT ![c].pc = IF call[c].answer THEN "refused" ELSE "served"]
  /\ UNCHANGED <<engaged, dirty, gen, degraded, workVars, order, faults, last>>

\* admitLocally reads the fallback after fail() had its say.
PickLocal(c) ==
  /\ call[c].pc = "failed"
  /\ call' = [call EXCEPT ![c].pc = "deciding", ![c].ptr = Local(call[c].gw)]
  /\ UNCHANGED <<engaged, gatewayVars, workVars, order, faults, last, excused>>

Decide(c) ==
  /\ call[c].pc = "deciding"
  /\ call' = [call EXCEPT ![c].pc =
       IF fallbacks[call[c].gw][call[c].ptr] THEN "refused" ELSE "served"]
  /\ UNCHANGED <<engaged, gatewayVars, workVars, order, faults, last, excused>>

-----------------------------------------------------------------------------
(* setKilled, asked by an operator at gateway g.                            *)

\* The order is in force here at once.  Calls on their way are no longer
\* under a switch that is cleared.
SetKilled(o, g, on) ==
  /\ order[o].pc = "idle"
  /\ killed' = [killed EXCEPT ![g] = on]
  /\ dirty' = [dirty EXCEPT ![g] = TRUE]
  /\ gen' = [gen EXCEPT ![g] = @ + 1]
  /\ fallbacks' = [fallbacks EXCEPT ![g][Local(g)] = on]
  /\ order' = [order EXCEPT ![o] = [pc |-> IF degraded[g] THEN "done" ELSE "locking",
                                    gw |-> g, on |-> on, gen |-> gen[g] + 1]]
  /\ last' = [on |-> on, gw |-> g]
  /\ call' = [c \in Calls |->
       IF call[c].pc \in {"served", "refused"} THEN call[c]
       ELSE [call[c] EXCEPT !.under = @ /\ on]]
  /\ UNCHANGED <<engaged, degraded, streak, workVars, faults, excused>>

OrderLock(o) ==
  LET g == order[o].gw
  IN
  /\ order[o].pc = "locking" /\ delivery[g].who = "none"
  /\ delivery' = [delivery EXCEPT ![g] = [NoDelivery EXCEPT !.who = "order"]]
  /\ order' = [order EXCEPT ![o].pc = "sending"]
  /\ UNCHANGED <<engaged, gatewayVars, flush, recover, call, faults, last, excused>>

OrderSend(o) ==
  /\ order[o].pc = "sending"
  /\ Written(order[o].on)
  /\ delivery' = [delivery EXCEPT ![order[o].gw] = NoDelivery]
  /\ order' = [order EXCEPT ![o].pc = "sent"]
  /\ UNCHANGED <<gatewayVars, flush, recover, call, faults, last>>

\* Stays dirty, refused or not.
OrderSendFails(o, failure, ran) ==
  LET g == order[o].gw
  IN
  /\ order[o].pc = "sending"
  /\ Fault(failure, ran)
  /\ IF ran THEN Written(order[o].on) ELSE UNCHANGED <<engaged, excused>>
  /\ Fail(g, failure)
  /\ delivery' = [delivery EXCEPT ![g] = NoDelivery]
  /\ order' = [order EXCEPT ![o].pc = "done"]
  /\ UNCHANGED <<killed, dirty, gen, flush, recover, call, last>>

\* Slip: any write clears the mark, whichever order it was for.
Settle_AnyGen(g, written) == dirty' = [dirty EXCEPT ![g] = FALSE]

\* Slip: the number is compared with the next order's.
Settle_NextGen(g, written) ==
  dirty' = IF gen[g] = written + 1 THEN [dirty EXCEPT ![g] = FALSE] ELSE dirty

\* A write clears killDirty only if no newer order was given meanwhile.
Settle(g, written) ==
  dirty' = IF gen[g] = written THEN [dirty EXCEPT ![g] = FALSE] ELSE dirty

OrderSettle(o) ==
  /\ order[o].pc = "sent"
  /\ Answered(order[o].gw)
  /\ Settle(order[o].gw, order[o].gen)
  /\ order' = [order EXCEPT ![o].pc = "done"]
  /\ UNCHANGED <<engaged, killed, gen, degraded, fallbacks, workVars, call, faults, last, excused>>

-----------------------------------------------------------------------------
(* deliver, called by flush while healthy and by recovered in a gap: the    *)
(* switch first if it is dirty, then what else is owed.                     *)

Delivering(g, who) ==
  IF who = "flush" THEN flush[g] = "deliver" ELSE recover[g].pc \in {"deliver", "last"}

DeliverLock(g, who) ==
  /\ Delivering(g, who) /\ delivery[g].who = "none"
  /\ delivery' = [delivery EXCEPT ![g] =
       [who |-> who, pc |-> IF dirty[g] THEN "send" ELSE "rest", on |-> killed[g], gen |-> gen[g]]]
  /\ UNCHANGED <<engaged, gatewayVars, flush, recover, order, call, faults, last, excused>>

DeliverKill(g) ==
  /\ delivery[g].pc = "send"
  /\ Written(delivery[g].on)
  /\ Answered(g)
  /\ delivery' = [delivery EXCEPT ![g].pc = "clear"]
  /\ UNCHANGED <<killed, dirty, gen, degraded, fallbacks, flush, recover, order, call, faults, last>>

\* The store refuses the write: counted, and cleared as if it were taken.
DeliverRefused(g) ==
  /\ delivery[g].pc = "send"
  /\ Fault("refused", FALSE)
  /\ excused' = excused \cup {"refused"}
  /\ delivery' = [delivery EXCEPT ![g].pc = "clear"]
  /\ UNCHANGED <<engaged, gatewayVars, flush, recover, order, call, last>>

DeliverSettle(g) ==
  /\ delivery[g].pc = "clear"
  /\ Settle(g, delivery[g].gen)
  /\ delivery' = [delivery EXCEPT ![g].pc = "rest"]
  /\ UNCHANGED <<engaged, killed, gen, degraded, streak, fallbacks, flush, recover, order, call,
                 faults, last, excused>>

\* The rest of the queue is delivered.
DeliverDone(g) ==
  LET who == delivery[g].who
  IN
  /\ delivery[g].pc = "rest"
  /\ delivery' = [delivery EXCEPT ![g] = NoDelivery]
  /\ flush' = IF who = "flush" THEN [flush EXCEPT ![g] = "idle"] ELSE flush
  /\ recover' = IF who = "flush" THEN recover
                ELSE [recover EXCEPT ![g].pc = IF @ = "last" THEN "idle" ELSE "check"]
  /\ UNCHANGED <<engaged, gatewayVars, order, call, faults, last, excused>>

\* The write of the switch, or of an owed item, fails.
DeliverFails(g, failure, ran) ==
  LET who == delivery[g].who
  IN
  /\ delivery[g].pc \in {"send", "rest"} /\ failure # "refused"
  /\ Fault(failure, ran)
  /\ IF ran /\ delivery[g].pc = "send" THEN Written(delivery[g].on) ELSE UNCHANGED <<engaged, excused>>
  /\ IF who = "flush" THEN Fail(g, failure)
     ELSE IF recover[g].pc = "last" /\ ~degraded[g] THEN Degrade(g)
     ELSE UNCHANGED <<degraded, streak, fallbacks>>
  /\ delivery' = [delivery EXCEPT ![g] = NoDelivery]
  /\ flush' = IF who = "flush" THEN [flush EXCEPT ![g] = "idle"] ELSE flush
  /\ recover' = IF who = "recover" THEN [recover EXCEPT ![g].pc = "idle"] ELSE recover
  /\ UNCHANGED <<killed, dirty, gen, order, call, last>>

\* flush: the switch is dirty, or something else is owed.
FlushBegin(g) ==
  /\ flush[g] = "idle" /\ recover[g].pc = "idle" /\ ~degraded[g]
  /\ flush' = [flush EXCEPT ![g] = "deliver"]
  /\ UNCHANGED <<engaged, gatewayVars, delivery, recover, order, call, faults, last, excused>>

-----------------------------------------------------------------------------
(* recovered: the probe's PING was answered in a gap. *)

RecoverBegin(g) ==
  /\ degraded[g] /\ recover[g].pc = "idle"
  /\ recover' = [recover EXCEPT ![g] = [pc |-> "deliver", pass |-> 1, seen |-> FALSE]]
  /\ UNCHANGED <<engaged, gatewayVars, delivery, flush, order, call, faults, last, excused>>

\* Quiet, or the passes are used up; else another pass.
RecoverCheck(g, quiet) ==
  /\ recover[g].pc = "check"
  /\ quiet => ~dirty[g]
  /\ recover' = [recover EXCEPT ![g] =
       IF quiet \/ @.pass >= WriteBackPasses
         THEN [pc |-> IF dirty[g] THEN "swap" ELSE "ask", pass |-> @.pass, seen |-> FALSE]
         ELSE [pc |-> "deliver", pass |-> @.pass + 1, seen |-> FALSE]]
  /\ UNCHANGED <<engaged, gatewayVars, delivery, flush, order, call, faults, last, excused>>

\* The switch is read from the store.
RecoverAsk(g) ==
  /\ recover[g].pc = "ask"
  /\ recover' = [recover EXCEPT ![g].pc = "swap", ![g].seen = engaged]
  /\ UNCHANGED <<engaged, gatewayVars, delivery, flush, order, call, faults, last, excused>>

RecoverFails(g) ==
  /\ recover[g].pc = "ask"
  /\ Fault("drop", FALSE)
  /\ recover' = [recover EXCEPT ![g].pc = "idle"]
  /\ UNCHANGED <<engaged, gatewayVars, delivery, flush, order, call, last, excused>>

\* Slip: what was read replaces an order given meanwhile.
Learned_Always(g) == recover[g].seen

\* The switch the gateway leaves the gap with.
Learned(g) == IF dirty[g] THEN killed[g] ELSE recover[g].seen

\* Decisions go back to the store, with a fresh fallback.
RecoverSwap(g) ==
  /\ recover[g].pc = "swap"
  /\ killed' = [killed EXCEPT ![g] = Learned(g)]
  /\ fallbacks' = [fallbacks EXCEPT ![g] = Append(@, Learned(g))]
  /\ excused' = IF ~dirty[g] /\ recover[g].seen # engaged THEN excused \cup {"mirror"} ELSE excused
  /\ degraded' = [degraded EXCEPT ![g] = FALSE]
  /\ streak' = [streak EXCEPT ![g] = 0]
  /\ recover' = [recover EXCEPT ![g].pc = "last"]
  /\ UNCHANGED <<engaged, dirty, gen, delivery, flush, order, call, faults, last>>

-----------------------------------------------------------------------------
CallMoves(c)  == Ask(c) \/ Process(c) \/ PickLocal(c) \/ Decide(c)
OrderMoves(o) == OrderLock(o) \/ OrderSend(o) \/ OrderSettle(o)
FlushMoves(g) == FlushBegin(g) \/ DeliverLock(g, "flush")
RecoverMoves(g) ==
  \/ RecoverBegin(g) \/ DeliverLock(g, "recover") \/ RecoverAsk(g) \/ RecoverSwap(g)
  \/ \E quiet \in BOOLEAN : RecoverCheck(g, quiet)
DeliverMoves(g) == DeliverKill(g) \/ DeliverSettle(g) \/ DeliverDone(g)

Next ==
  \/ \E c \in Calls :
       \/ CallMoves(c) \/ \E g \in Gateways : Begin(c, g)
       \/ \E failure \in Failures : AskFails(c, failure)
  \/ \E o \in Orders :
       \/ OrderMoves(o) \/ \E g \in Gateways, on \in BOOLEAN : SetKilled(o, g, on)
       \/ \E failure \in Failures, ran \in BOOLEAN : OrderSendFails(o, failure, ran)
  \/ \E g \in Gateways :
       \/ FlushMoves(g) \/ RecoverMoves(g) \/ DeliverMoves(g)
       \/ DeliverRefused(g) \/ RecoverFails(g)
       \/ \E failure \in Failures, ran \in BOOLEAN : DeliverFails(g, failure, ran)

\* The scheduler runs every thread that can move, the probe's ticker keeps
\* firing, a mutex is handed to whoever waits for it, and the failures end.
Fairness ==
  /\ \A c \in Calls : WF_vars(CallMoves(c))
  /\ \A o \in Orders : SF_vars(OrderMoves(o))
  /\ \A g \in Gateways : SF_vars(FlushMoves(g)) /\ SF_vars(RecoverMoves(g)) /\ WF_vars(DeliverMoves(g))

Spec     == Init /\ [][Next]_vars
FairSpec == Spec /\ Fairness

-----------------------------------------------------------------------------
(* Safety. *)

\* An engaged switch holds: a call that begins at a gateway after the switch
\* was engaged there, and before anyone clears it, is refused: by the gateway
\* until the store has the switch, by the store then, by the fallback in a gap
\* and after a failed answer.  Excepted are the three races named in Races.
KillHolds == excused = {} => \A c \in Calls : call[c].under => call[c].pc # "served"

\* The gateway's own mirror is what its current fallback enforces (setKilled,
\* mirrorKill, degrade and recovered write both or neither).
FallbackAgrees == \A g \in Gateways : fallbacks[g][Local(g)] = killed[g]

\* Nothing underway that could still write the switch.
Quiet ==
  /\ Completed
  /\ \A g \in Gateways : ~dirty[g] /\ delivery[g].who = "none"

\* The store ends with the newest order: when nothing is dirty or underway the
\* key in the store is as it was last ordered, at whichever gateway, through
\* gaps and lost answers.
StoreEndsWithLast == Quiet /\ excused = {} => engaged = last.on

-----------------------------------------------------------------------------
(* Liveness, under FairSpec. *)

\* An order reaches the store.
OrderLands == \A g \in Gateways : dirty[g] ~> ~dirty[g]

-----------------------------------------------------------------------------
(* What the README claims and the code does not keep. *)

\* "It stays engaged ... until it is cleared": engaged last, it ends engaged.
StaysEngaged == Quiet /\ "refused" \notin excused /\ last.on => engaged
=============================================================================
