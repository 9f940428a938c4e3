----------------------------- MODULE StoreKeys -----------------------------
(***************************************************************************)
(* The key half of the shared counter, internal/gateway/counter_redis.go:  *)
(* one API key's record in the store, with its UTC day, its daily and      *)
(* total tallies, its pause and its place in the set the status endpoint   *)
(* lists, used by gateways whose clocks do not agree, that may be in a gap *)
(* and write back after midnight what they decided before.                 *)
(*                                                                         *)
(* A key's record is touched by no other key's calls.  The calls are keyed *)
(* calls with no run: the run half of the scripts is in StoreRules, and    *)
(* how a gap begins and ends, step by step, is in SharedCounter.  Here a   *)
(* method of the fallback with the events it dispatches is one step, a     *)
(* delivery takes the queue's first item, and any failure may start a gap, *)
(* in the step that fails.                                                 *)
(* A script is given the day of the gateway that sends it; a day read just *)
(* before midnight and sent after it is the day of a gateway that lags.    *)
(* Expiry (400 days for the record, three days for a call's id), a command *)
(* the store refuses, a queue that is full and a clock that is set back    *)
(* are left out.  A name with a suffix after "_" is a slip, as in          *)
(* ControlRules.                                                           *)
(***************************************************************************)
EXTENDS ControlRules, Sequences

CONSTANTS
  Calls, BypassCalls,   \* keyed calls, and those that carry the bypass credential
  Gateways,
  Resumes,              \* an operator's asks to resume the key, each made once
  Costs,                \* what a served call may cost, in micro-dollars
  MaxDay,               \* bound on the UTC day
  MaxFaults             \* bound on failures of the store

ASSUME KeyedAssumption ==
  /\ BypassCalls \subseteq Calls /\ Gateways # {}
  /\ Costs \subseteq Nat /\ MaxDay \in Nat \ {0} /\ MaxFaults \in Nat

VARIABLES
  db,        \* the key's hash, its place in pausedkeys, and the per-call ids
  clock,     \* per gateway: today()
  degraded,  \* per gateway: in a gap
  caughtUp,  \* per gateway: a delivery of this gap found the queue empty
  fallback,  \* per gateway: the controller's entry of the key, and whether it is a gap's
  keysSeen,  \* per gateway: the pause last seen in the store, and the day it was seen on
  owed,      \* per gateway: what the store still has to take, in order
  call,      \* per call: its thread
  asked,     \* asks to resume made so far
  faults,
  pausedOn,  \* history: the day the standing daily pause was made for
  loose      \* history: calls tallied without a reservation since the total last started anew

gatewayVars == <<degraded, caughtUp, fallback, keysSeen, owed>>
vars == <<db, clock, degraded, caughtUp, fallback, keysSeen, owed, call, asked, faults,
          pausedOn, loose>>

\* Day 0 of the record is a hash without the field day.
Reasons == KeyPauses \ {"no"}
Codes   == KeyPauses \cup {"dup"}

StoreRecord == [key: KeyState, listed: BOOLEAN, settled: SUBSET Calls,
                admits: [Calls -> {"none", "served"} \cup Reasons]]
EmptyStore == [key |-> NewKey, listed |-> FALSE, settled |-> {},
               admits |-> [c \in Calls |-> "none"]]

Owed == [kind: {"r", "l"}, call: Calls, cost: Costs] \cup
        [kind: {"P"}, why: Reasons, onDay: 1..MaxDay] \cup [kind: {"U"}]
Settlement(kind, c, cost) == [kind |-> kind, call |-> c, cost |-> cost]
OwedPause(why, onDay)     == [kind |-> "P", why |-> why, onDay |-> onDay]
OwedResume                == [kind |-> "U"]

-----------------------------------------------------------------------------
(* The scripts, each one step of the store. *)

\* A later day starts a new daily tally, drops every reservation and ends a
\* daily pause; luaAdmit and luaRecord begin with it.
KeyNewDay(k, d) ==
  [k EXCEPT !.day = d, !.dayCalls = 0, !.daySpend = 0, !.inflight = 0,
            !.paused = IF @ = "day" THEN "no" ELSE @]

\* Slip: a new day lifts the pause of the total cap too.
NewDay_LiftsAll(h, d) ==
  IF d <= h.key.day THEN h
  ELSE [h EXCEPT !.key = [KeyNewDay(@, d) EXCEPT !.paused = "no"], !.listed = FALSE]

NewDay(h, d) ==
  IF d <= h.key.day THEN h
  ELSE [h EXCEPT !.key = KeyNewDay(@, d), !.listed = @ /\ h.key.paused # "day"]

\* The comparison is exact, where micro() rounds the projection.
StoreProjection(base, k, cap) ==
  /\ cap > 0
  /\ IF k.lifeCalls > 0 /\ k.lifeSpend > Micro(ReservePerCall) * k.lifeCalls
       THEN base * k.lifeCalls + k.lifeSpend * k.inflight >= cap * k.lifeCalls
       ELSE base + Micro(ReservePerCall) * k.inflight >= cap

\* The cap that the settled tallies alone have reached.
StoreReached(spend, cap) == Micro(cap) > 0 /\ spend >= Micro(cap)

SettledCap(k) ==
  IF StoreReached(k.lifeSpend, MaxSpendPerKey) THEN "total"
  ELSE IF StoreReached(k.daySpend, MaxSpendPerKeyDay) THEN "day" ELSE "no"

\* Slip: calls in flight are not counted.
StoreKeyCap_SettledOnly(k) == SettledCap(k)

StoreKeyCap(k) ==
  IF StoreProjection(k.lifeSpend, k, Micro(MaxSpendPerKey)) THEN "total"
  ELSE IF StoreProjection(k.daySpend, k, Micro(MaxSpendPerKeyDay)) THEN "day" ELSE "no"

\* luaAdmit for call c on day d: the record and the answer <<ok, code>>.  A
\* refusal for a pause that was already there leaves no id.
AdmitScript(h, c, mode, d) ==
  LET now == NewDay(h, d)
      was == now.key.paused
      hit == IF was # "no" \/ mode = "bypass" THEN "no" ELSE StoreKeyCap(now.key)
      why == IF was # "no" THEN was ELSE hit
      ok  == why = "no" \/ mode # "decide"
      hitIn == [now EXCEPT !.key.paused = why, !.listed = @ \/ hit # "no"]
  IN
  CASE h.admits[c] = "served"  -> [db |-> h, ok |-> TRUE, code |-> "dup"]
    [] h.admits[c] \in Reasons -> [db |-> h, ok |-> FALSE, code |-> h.admits[c]]
    [] h.admits[c] = "none" /\ ok ->
         [db |-> [hitIn EXCEPT !.key.inflight = @ + 1, !.admits[c] = "served"],
          ok |-> TRUE, code |-> IF mode = "bypass" THEN "no" ELSE why]
    [] OTHER -> [db |-> [hitIn EXCEPT !.admits[c] = IF hit = "no" THEN @ ELSE hit],
                 ok |-> FALSE, code |-> why]

\* luaRecord: once per token; the settled tallies may pause the key.
RecordScript(h, c, cost, d) ==
  LET now == NewDay(h, d)
      new == [now.key EXCEPT !.inflight = Dec(@), !.dayCalls = @ + 1, !.lifeCalls = @ + 1,
                             !.daySpend = @ + Micro(cost), !.lifeSpend = @ + Micro(cost)]
      hit == IF new.paused # "no" THEN "no" ELSE SettledCap(new)
  IN  IF c \in h.settled THEN h
      ELSE [now EXCEPT !.key = IF hit = "no" THEN new ELSE [new EXCEPT !.paused = hit],
                       !.listed = @ \/ hit # "no", !.settled = @ \cup {c}]

\* luaRelease: once per token, whatever the day.
ReleaseScript(h, c) ==
  IF c \in h.settled THEN h
  ELSE [h EXCEPT !.settled = @ \cup {c}, !.key.inflight = Dec(@)]

\* luaKeyResume: nothing unless paused; a daily pause keeps the total.
ResumeScript(h) ==
  IF h.key.paused = "no" THEN h
  ELSE [h EXCEPT !.key = ResumedKey(@), !.listed = FALSE]

\* Slip: a daily pause is written whatever day it was made on.
PauseScript_AnyDay(h, why, onDay) ==
  [h EXCEPT !.key.paused = why, !.listed = TRUE,
            !.key.day = IF @ < onDay THEN onDay ELSE @]

\* luaKeyPause: a daily pause is stamped with the day it was made on, which
\* may start a new day; one from an earlier day than the store's is over.
PauseScript(h, why, onDay) ==
  LET stamped == IF why = "day" /\ onDay > h.key.day
                   THEN [h.key EXCEPT !.day = onDay, !.dayCalls = 0, !.daySpend = 0, !.inflight = 0]
                   ELSE h.key
  IN  IF why = "day" /\ onDay < h.key.day THEN h
      ELSE [h EXCEPT !.key = [stamped EXCEPT !.paused = why], !.listed = TRUE]

\* Slip: every key with an older day is taken off the list.
StatusScript_AnyOld(h, d) ==
  [h EXCEPT !.listed = @ /\ h.key.paused # "no" /\ d <= h.key.day]

\* luaStatus on day d: a member that is not paused, or paused for an earlier
\* day, is taken off the list.
StatusScript(h, d) ==
  [h EXCEPT !.listed = @ /\ h.key.paused # "no" /\ ~(h.key.paused = "day" /\ d > h.key.day)]

-----------------------------------------------------------------------------
(* A gateway. *)

Mode(c) == IF c \in BypassCalls THEN "bypass" ELSE IF Shadow THEN "shadow" ELSE "decide"

\* keyNote: a daily pause is remembered with the day it was seen on.
KeyNote(g, why) == [why |-> why, day |-> IF why = "day" THEN clock[g] ELSE 0]
NoNote == [why |-> "no", day |-> 0]

\* freshFallback: it starts from the pause last seen, unless that is over.
FreshFallback(g, gap) ==
  LET n    == keysSeen[g]
      over == n.day # 0 /\ clock[g] > n.day
  IN  [key |-> IF n.why = "no" \/ over THEN NewKey
               ELSE [KeyLocked(NewKey, 0, clock[g]) EXCEPT !.paused = n.why],
       gap |-> gap]

\* A failure: it may start a gap, unless there is one.
Fault(g, starts) ==
  /\ faults < MaxFaults /\ faults' = faults + 1
  /\ starts => ~degraded[g]
  /\ degraded' = [degraded EXCEPT ![g] = @ \/ starts]
  /\ caughtUp' = [caughtUp EXCEPT ![g] = @ /\ ~starts]
  /\ fallback' = IF starts THEN [fallback EXCEPT ![g] = FreshFallback(g, TRUE)] ELSE fallback

\* The day the standing daily pause was made for, after a script that makes
\* its own pauses was run for day d.
Stamped(new, d) ==
  IF new.key.paused # "day" THEN 0
  ELSE IF NewDay(db, d).key.paused = "day" THEN pausedOn ELSE new.key.day

\* A call's thread: where it is, its gateway and the counter that admitted it,
\* and the answer of the store it has yet to read.
Thread(pc, g, where) == [pc |-> pc, gw |-> g, where |-> where, ok |-> FALSE, code |-> "no"]
Over == Thread("done", CHOOSE g \in Gateways : TRUE, "local")

TypeOK ==
  /\ db \in StoreRecord
  /\ clock \in [Gateways -> 1..MaxDay]
  /\ degraded \in [Gateways -> BOOLEAN] /\ caughtUp \in [Gateways -> BOOLEAN]
  /\ fallback \in [Gateways -> [key: KeyState, gap: BOOLEAN]]
  /\ keysSeen \in [Gateways -> [why: KeyPauses, day: 0..MaxDay]]
  /\ owed \in [Gateways -> Seq(Owed)]
  /\ call \in [Calls -> [pc: {"idle", "answered", "failed", "out", "done"}, gw: Gateways,
                         where: {"shared", "local"}, ok: BOOLEAN, code: Codes]]
  /\ asked \subseteq Resumes /\ faults \in 0..MaxFaults
  /\ pausedOn \in Nat /\ loose \in Nat

\* A gateway that the store does not answer at boot begins in a gap.
Init ==
  /\ db = EmptyStore
  /\ clock = [g \in Gateways |-> 1]
  /\ degraded \in [Gateways -> BOOLEAN] /\ caughtUp = [g \in Gateways |-> FALSE]
  /\ fallback = [g \in Gateways |-> [key |-> NewKey, gap |-> degraded[g]]]
  /\ keysSeen = [g \in Gateways |-> NoNote]
  /\ owed = [g \in Gateways |-> <<>>]
  /\ call = [c \in Calls |-> Thread("idle", CHOOSE g \in Gateways : TRUE, "local")]
  /\ asked = {} /\ faults = 0 /\ pausedOn = 0 /\ loose = 0

-----------------------------------------------------------------------------
(* admitWhere. *)

\* The store answers.  do() sends a command again when a pooled connection
\* ends before it answered, so the store may run the script twice.
Ask(c, g, again) ==
  LET first == AdmitScript(db, c, Mode(c), clock[g])
      r     == IF again THEN AdmitScript(first.db, c, Mode(c), clock[g]) ELSE first
  IN
  /\ call[c].pc = "idle" /\ ~degraded[g]
  /\ again => faults < MaxFaults
  /\ faults' = IF again THEN faults + 1 ELSE faults
  /\ db' = r.db
  /\ call' = [call EXCEPT ![c] = [Thread("answered", g, "shared") EXCEPT !.ok = r.ok, !.code = r.code]]
  /\ pausedOn' = Stamped(r.db, clock[g])
  /\ loose' = loose + IF r.ok /\ Mode(c) = "bypass" THEN 1 ELSE 0
  /\ UNCHANGED <<clock, gatewayVars, asked>>

\* The answer is lost, whether or not the store ran the script.
AskFails(c, g, ran, starts) ==
  LET r == AdmitScript(db, c, Mode(c), clock[g]) IN
  /\ call[c].pc = "idle" /\ ~degraded[g]
  /\ Fault(g, starts)
  /\ db' = IF ran THEN r.db ELSE db
  /\ pausedOn' = IF ran THEN Stamped(r.db, clock[g]) ELSE pausedOn
  /\ loose' = loose + IF ran /\ r.ok /\ Mode(c) = "bypass" THEN 1 ELSE 0
  /\ call' = [call EXCEPT ![c] = Thread("failed", g, "local")]
  /\ UNCHANGED <<clock, keysSeen, owed, asked>>

\* What the answer says of the key is remembered, as of the day it is read.
Process(c) ==
  LET g == call[c].gw
      code == call[c].code
  IN
  /\ call[c].pc = "answered"
  /\ keysSeen' = [keysSeen EXCEPT ![g] =
       IF code \in Reasons THEN KeyNote(g, code)
       ELSE IF code = "no" /\ Mode(c) # "bypass" THEN NoNote ELSE @]
  /\ call' = [call EXCEPT ![c] = IF call[c].ok THEN Thread("out", g, "shared") ELSE Over]
  /\ UNCHANGED <<db, clock, degraded, caughtUp, fallback, owed, asked, faults, pausedOn, loose>>

\* The entry k of gateway g's fallback becomes new; a gap's fallback owes the
\* store a pause it has just made, with the day the clock shows.
SetLocal(g, k, new) ==
  /\ fallback' = [fallback EXCEPT ![g].key = new]
  /\ owed' = IF fallback[g].gap /\ k.paused = "no" /\ new.paused # "no"
               THEN [owed EXCEPT ![g] = Append(@, OwedPause(new.paused, clock[g]))] ELSE owed

\* admitKeyed of the fallback, in a gap or after a failure.
Decide(c, g) ==
  LET k   == KeyLocked(fallback[g].key, 0, clock[g])
      hit == IF k.paused # "no" \/ Mode(c) = "bypass" THEN "no" ELSE KeyCap(k)
      new == [k EXCEPT !.paused = IF hit = "no" THEN @ ELSE hit]
      ok  == new.paused = "no" \/ Mode(c) # "decide"
  IN
  /\ \/ call[c].pc = "idle" /\ degraded[g]
     \/ call[c].pc = "failed" /\ call[c].gw = g
  /\ SetLocal(g, k, IF ok THEN [new EXCEPT !.inflight = @ + 1] ELSE new)
  /\ call' = [call EXCEPT ![c] = IF ok THEN Thread("out", g, "local") ELSE Over]
  /\ UNCHANGED <<db, clock, degraded, caughtUp, keysSeen, asked, faults, pausedOn, loose>>

-----------------------------------------------------------------------------
(* settle and take. *)

SettleLocal(c, kind, cost) ==
  LET g == call[c].gw
      k == KeyLocked(fallback[g].key, 0, clock[g])
  IN
  /\ call[c].pc = "out" /\ call[c].where = "local"
  /\ IF kind = "r" THEN SetLocal(g, k, SettleKey(k, cost))
     ELSE /\ fallback' = [fallback EXCEPT ![g].key = Released(@)]
          /\ UNCHANGED owed
  /\ call' = [call EXCEPT ![c] = Over]
  /\ UNCHANGED <<db, clock, degraded, caughtUp, keysSeen, asked, faults, pausedOn, loose>>

\* What an item does in the store when gateway g sends it.
TakeScript(g, item) ==
  CASE item.kind = "r" -> RecordScript(db, item.call, item.cost, clock[g])
    [] item.kind = "l" -> ReleaseScript(db, item.call)
    [] item.kind = "P" -> PauseScript(db, item.why, item.onDay)
    [] item.kind = "U" -> ResumeScript(db)

TakenBy(g, item) ==
  LET new == TakeScript(g, item) IN
  /\ db' = new
  /\ pausedOn' = CASE item.kind = "r" /\ new # db -> Stamped(new, clock[g])
                   [] item.kind = "P" /\ new # db -> IF item.why = "day" THEN item.onDay ELSE 0
                   [] item.kind = "U" -> 0
                   [] OTHER -> pausedOn
  /\ loose' = IF item.kind = "U" /\ db.key.paused = "total" THEN 0
               ELSE loose + IF /\ item.kind = "r" /\ new # db
                               /\ NewDay(db, clock[g]).key.inflight = 0 THEN 1 ELSE 0

\* A record that paused the key is remembered.
Noted(g, item) ==
  keysSeen' = IF /\ item.kind = "r" /\ db' # db
                 /\ NewDay(db, clock[g]).key.paused = "no" /\ db'.key.paused # "no"
                THEN [keysSeen EXCEPT ![g] = KeyNote(g, db'.key.paused)] ELSE keysSeen

SettleShared(c, kind, cost) ==
  LET g == call[c].gw
      item == Settlement(kind, c, cost)
  IN
  /\ call[c].pc = "out" /\ call[c].where = "shared"
  /\ call' = [call EXCEPT ![c] = Over]
  /\ IF degraded[g]
       THEN /\ owed' = [owed EXCEPT ![g] = Append(@, item)]
            /\ UNCHANGED <<db, keysSeen, pausedOn, loose>>
       ELSE TakenBy(g, item) /\ Noted(g, item) /\ UNCHANGED owed
  /\ UNCHANGED <<clock, degraded, caughtUp, fallback, asked, faults>>

SettleFails(c, kind, cost, ran, starts) ==
  LET g == call[c].gw
      item == Settlement(kind, c, cost)
  IN
  /\ call[c].pc = "out" /\ call[c].where = "shared" /\ ~degraded[g]
  /\ Fault(g, starts)
  /\ IF ran THEN TakenBy(g, item) ELSE UNCHANGED <<db, pausedOn, loose>>
  /\ owed' = [owed EXCEPT ![g] = Append(@, item)]
  /\ call' = [call EXCEPT ![c] = Over]
  /\ UNCHANGED <<clock, keysSeen, asked>>

-----------------------------------------------------------------------------
(* deliver, recovered, resumeKey, status. *)

\* The first item owed is taken, by flush or by the recovery.
Deliver(g) ==
  /\ owed[g] # <<>>
  /\ TakenBy(g, Head(owed[g])) /\ Noted(g, Head(owed[g]))
  /\ owed' = [owed EXCEPT ![g] = Tail(@)]
  /\ UNCHANGED <<clock, degraded, caughtUp, fallback, call, asked, faults>>

DeliverFails(g, ran, starts) ==
  /\ owed[g] # <<>>
  /\ Fault(g, starts)
  /\ IF ran THEN TakenBy(g, Head(owed[g])) ELSE UNCHANGED <<db, pausedOn, loose>>
  /\ UNCHANGED <<clock, keysSeen, owed, call, asked>>

\* The recovery has delivered all there was; more may be owed before the swap.
\* (A recovery whose passes are used up swaps with items owed: SharedCounter.)
CatchUp(g) ==
  /\ degraded[g] /\ ~caughtUp[g] /\ owed[g] = <<>>
  /\ caughtUp' = [caughtUp EXCEPT ![g] = TRUE]
  /\ UNCHANGED <<db, clock, degraded, fallback, keysSeen, owed, call, asked, faults, pausedOn, loose>>

Recover(g) ==
  /\ degraded[g] /\ caughtUp[g]
  /\ fallback' = [fallback EXCEPT ![g] = FreshFallback(g, FALSE)]
  /\ degraded' = [degraded EXCEPT ![g] = FALSE]
  /\ caughtUp' = [caughtUp EXCEPT ![g] = FALSE]
  /\ UNCHANGED <<db, clock, keysSeen, owed, call, asked, faults, pausedOn, loose>>

LocalResume(g) ==
  fallback' = [fallback EXCEPT ![g].key = IF @.paused = "no" THEN @ ELSE ResumedKey(@)]

Resume(u, g) ==
  /\ u \notin asked /\ asked' = asked \cup {u}
  /\ keysSeen' = [keysSeen EXCEPT ![g] = NoNote]
  /\ LocalResume(g)
  /\ IF degraded[g]
       THEN /\ owed' = [owed EXCEPT ![g] = Append(@, OwedResume)]
            /\ UNCHANGED <<db, pausedOn, loose>>
       ELSE TakenBy(g, OwedResume) /\ UNCHANGED owed
  /\ UNCHANGED <<clock, degraded, caughtUp, call, faults>>

\* The ask fails while no gap begins, or the gap it begins has a fallback that
\* starts without the pause: either way it is owed.
ResumeFails(u, g, ran, starts) ==
  /\ u \notin asked /\ asked' = asked \cup {u}
  /\ ~degraded[g] /\ faults < MaxFaults /\ faults' = faults + 1
  /\ keysSeen' = [keysSeen EXCEPT ![g] = NoNote]
  /\ IF starts
       THEN /\ degraded' = [degraded EXCEPT ![g] = TRUE]
            /\ caughtUp' = [caughtUp EXCEPT ![g] = FALSE]
            /\ fallback' = [fallback EXCEPT ![g] = [key |-> NewKey, gap |-> TRUE]]
       ELSE LocalResume(g) /\ UNCHANGED <<degraded, caughtUp>>
  /\ IF ran THEN TakenBy(g, OwedResume) ELSE UNCHANGED <<db, pausedOn, loose>>
  /\ owed' = [owed EXCEPT ![g] = Append(@, OwedResume)]
  /\ UNCHANGED <<clock, call>>

\* status while healthy: the list is pruned, and what is left is what the
\* gateway knows of the key's pause.
Status(g) ==
  LET new == StatusScript(db, clock[g]) IN
  /\ ~degraded[g]
  /\ db' = new
  /\ keysSeen' = [keysSeen EXCEPT ![g] = IF new.listed THEN KeyNote(g, new.key.paused) ELSE NoNote]
  /\ UNCHANGED <<clock, degraded, caughtUp, fallback, owed, call, asked, faults, pausedOn, loose>>

Midnight(g) ==
  /\ clock[g] < MaxDay
  /\ clock' = [clock EXCEPT ![g] = @ + 1]
  /\ UNCHANGED <<db, gatewayVars, call, asked, faults, pausedOn, loose>>

Settle(c) ==
  \E kind \in {"r", "l"}, cost \in Costs :
    \/ SettleLocal(c, kind, cost) \/ SettleShared(c, kind, cost)
    \/ \E ran, starts \in BOOLEAN : SettleFails(c, kind, cost, ran, starts)

Next ==
  \/ \E c \in Calls :
       \/ Process(c) \/ Settle(c)
       \/ \E g \in Gateways :
            \/ Decide(c, g) \/ \E again \in BOOLEAN : Ask(c, g, again)
            \/ \E ran, starts \in BOOLEAN : AskFails(c, g, ran, starts)
  \/ \E g \in Gateways :
       \/ Deliver(g) \/ CatchUp(g) \/ Recover(g) \/ Status(g) \/ Midnight(g)
       \/ \E ran, starts \in BOOLEAN : DeliverFails(g, ran, starts)
       \/ \E u \in Resumes :
            \/ Resume(u, g)
            \/ \E ran, starts \in BOOLEAN : ResumeFails(u, g, ran, starts)

Spec == Init /\ [][Next]_vars

-----------------------------------------------------------------------------
(* Safety. *)

\* A daily pause in the store is one of the store's day: a pause made before
\* midnight, in a gap or by a gateway whose clock lags, never holds a call of
\* the day after (luaKeyPause, and the day check luaAdmit and luaRecord begin
\* with, which ends it at the first call of a later day).
DailyPauseIsOfItsDay == db.key.paused = "day" => pausedOn = db.key.day

\* The status endpoint lists every paused key: no step of another gateway's
\* status, day or write-back takes off the list a key whose calls are refused,
\* unless by that gateway's clock the daily pause is over.
ListedWhilePaused ==
  /\ db.key.paused = "total" => db.listed
  /\ db.key.paused = "day" => db.listed \/ \E g \in Gateways : clock[g] > db.key.day

\* One cap for every gateway: when no call costs more than the reserve floor,
\* what the store has tallied and reserved for the key stays within one floor
\* of each cap, plus one for every call forced by a bypass or tallied without
\* a reservation (one that midnight or a resume dropped).  Lost answers and
\* settlements that are sent again add nothing.
WithinStoreCap(spend, cap) ==
  cap > 0 => spend + ReservePerCall * db.key.inflight < cap + ReservePerCall * (1 + loose)

SharedKeyCapHolds ==
  Grain = 1 /\ ~Shadow /\ ReservePerCall > 0 /\ (\A cost \in Costs : cost <= ReservePerCall) =>
    /\ WithinStoreCap(db.key.lifeSpend, MaxSpendPerKey)
    /\ WithinStoreCap(db.key.daySpend, MaxSpendPerKeyDay)

\* In the store a pause for the total cap outlasts every settlement, new day and
\* status request: a step that ends it is an operator's resume, which alone cuts
\* the total tally, or the write-back of a gap's daily pause, which renames it.
\* (A pause so renamed ends at midnight, against README.md:385-386.)
TotalKept ==
  [][/\ db.key.paused = "total" /\ db'.key.paused # "total" =>
          db' = ResumeScript(db) \/ \E onDay \in 1..MaxDay : db' = PauseScript(db, "day", onDay)
     /\ db'.key.lifeSpend < db.key.lifeSpend =>
          db.key.paused = "total" /\ db' = ResumeScript(db)]_vars
=============================================================================
