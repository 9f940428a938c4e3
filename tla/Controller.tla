----------------------------- MODULE Controller -----------------------------
(***************************************************************************)
(* The in-memory controller of internal/gateway/control.go: run and key    *)
(* tallies, reserve-at-admit caps, pauses, resumes, the kill switch, the   *)
(* UTC day of a key's tally and the bounded maps.                          *)
(*                                                                         *)
(* Every method holds controller.mu from its first read to its last write, *)
(* so each is one action; dispatch() takes the lock again after the        *)
(* method's unlock and is an action of its own.  A caller is one request:  *)
(* it is admitted or refused, and an admitted one ends in exactly one      *)
(* Record (served) or Release (failed before it was served).               *)
(***************************************************************************)
EXTENDS ControlRules, Sequences

CONSTANTS
  Calls,          \* requests, each made once
  Costs,          \* what a served call may cost
  RequestCaps,    \* caps callers set with X-AxiGate-Max-Spend; {} if not allowed
  BypassAllowed,  \* an admin token is configured and some callers hold it
  Fallback,       \* this controller stands in for a shared store
  MaxNow,         \* bound on the monotonic clock
  MaxDay          \* bound on the UTC day

ASSUME CallerAssumption ==
  /\ IsFiniteSet(Calls) /\ Costs \subseteq Nat /\ RequestCaps \subseteq Nat \ {0}
  /\ BypassAllowed \in BOOLEAN /\ Fallback \in BOOLEAN
  /\ MaxNow \in Nat \ {0} /\ MaxDay \in Nat

VARIABLES
  now,       \* monotonic clock, orders lastSeen
  today,     \* UTC day of the wall clock, which may be stepped back
  killed,
  runs,      \* controller.runs
  keys,      \* controller.keys
  pending,   \* controller.pending: stop events not yet dispatched
  calls      \* where each request is, and the run and key it named

(***************************************************************************)
(* History variables, read by no action.  Since a run's last resume:       *)
(*   admitted[r]  calls let through, less those of them given back;        *)
(*   slack[r]     calls let through unchecked (a bypass, shadow mode),     *)
(*                releases of calls admitted before the resume, and the    *)
(*                tallies that evictions forgot.                           *)
(*   stale        the calls in flight when their run was resumed.          *)
(* Since the entry of a run or key was last reset:                         *)
(*   loose[x]     calls let through unchecked and calls settled when the   *)
(*                entry held no reservation.                               *)
(***************************************************************************)
VARIABLES admitted, slack, stale, loose

history == <<admitted, slack, stale, loose>>
vars    == <<now, today, killed, runs, keys, pending, calls, admitted, slack, stale, loose>>

Phases == {"idle", "flying", "done"}
Idle   == [phase |-> "idle", run |-> NoRun, key |-> NoKey]
Event  == [id: Runs \cup Keys, reason: (RunPauses \cup KeyPauses) \ {"no"}]

TypeOK ==
  /\ now \in 1..MaxNow /\ today \in 0..MaxDay /\ killed \in BOOLEAN
  /\ runs \in [Runs -> RunState]
  /\ keys \in [Keys -> KeyState]
  /\ pending \in Seq(Event)
  /\ calls \in [Calls -> [phase: Phases, run: Runs \cup {NoRun}, key: Keys \cup {NoKey}]]
  /\ admitted \in [Runs -> Int] /\ slack \in [Runs -> Nat] /\ stale \subseteq Calls
  /\ loose \in [Runs \cup Keys -> Nat]

Init ==
  /\ now = 1 /\ today = 0 /\ killed = FALSE
  /\ runs = [r \in Runs |-> NewRun]
  /\ keys = [k \in Keys |-> NewKey]
  /\ pending = <<>>
  /\ calls = [c \in Calls |-> Idle]
  /\ admitted = [r \in Runs |-> 0] /\ slack = [r \in Runs |-> 0] /\ stale = {}
  /\ loose = [x \in Runs \cup Keys |-> 0]

\* The admitted calls of a run or a key that are not settled yet.
FlyingOn(x) == {c \in Calls : calls[c].phase = "flying" /\ x \in {calls[c].run, calls[c].key}}

-----------------------------------------------------------------------------
(* The entries a method works on, and what it leaves in the maps. *)

RunOf(r) == IF r = NoRun THEN NewRun ELSE SeenRun(runs[r], now)
KeyOf(k) == IF k = NoKey THEN NewKey ELSE KeyLocked(keys[k], now, today)

WithRun(r, st) == IF r = NoRun THEN runs ELSE [runs EXCEPT ![r] = st]
WithKey(k, ks) == IF k = NoKey THEN keys ELSE [keys EXCEPT ![k] = ks]

PauseFor(rec, hit) == IF hit = "no" THEN rec ELSE [rec EXCEPT !.paused = hit]
Reserve(rec) == [rec EXCEPT !.inflight = @ + 1]

Stop(id, reason) == IF reason = "no" THEN <<>> ELSE <<[id |-> id, reason |-> reason]>>

\* Slip: a settle of an entry paused before alerts again.
StopIf_EveryTime(id, before, after) == Stop(id, after.paused)

\* Slip: a settle pauses and leaves the alert to an admit.
StopIf_Silent(id, before, after) == <<>>

\* The event of a settle that paused its record.
StopIf(id, before, after) == Stop(id, IF before.paused = "no" THEN after.paused ELSE "no")

\* f with n more at x; the empty id is in no tally.
Add(f, x, n) == IF x \in DOMAIN f THEN [f EXCEPT ![x] = @ + n] ELSE f

-----------------------------------------------------------------------------
(* admitKeyed.  What stops a call, in the order the code asks: a pause of   *)
(* its run or key, then the key's caps, then the run's.                     *)

Held(r, k) == RunOf(r).paused # "no" \/ KeyOf(k).paused # "no"

KeyHit(r, k) == IF k = NoKey \/ Held(r, k) THEN "no" ELSE KeyCap(KeyOf(k))

RunHit(r, k) ==
  IF r = NoRun \/ Held(r, k) \/ KeyHit(r, k) # "no" THEN "no" ELSE RunCap(RunOf(r))

Stopped(r, k) == Held(r, k) \/ KeyHit(r, k) # "no" \/ RunHit(r, k) # "no"

\* The call is served: reserved on its run and its key, and the key map is
\* bounded.  A cap met in shadow mode still pauses and still alerts.
LetThrough(c, r, k, runHit, keyHit, unchecked) ==
  LET map == WithKey(k, Reserve(PauseFor(KeyOf(k), keyHit)))
      one == IF unchecked THEN 1 ELSE 0
  IN
  /\ runs' = WithRun(r, Reserve(PauseFor(RunOf(r), runHit)))
  /\ \E V \in (IF k = NoKey THEN {{}} ELSE Victims(map)) :
       /\ keys' = Without(map, V, NewKey)
       /\ loose' = [x \in DOMAIN loose |->
                      IF x \in V THEN 0 ELSE IF x \in {r, k} THEN loose[x] + one ELSE loose[x]]
  /\ pending' = pending \o Stop(k, keyHit) \o Stop(r, runHit)
  /\ calls' = [calls EXCEPT ![c] = [phase |-> "flying", run |-> r, key |-> k]]
  /\ admitted' = Add(admitted, r, 1)
  /\ slack' = Add(slack, r, one)
  /\ UNCHANGED <<now, today, killed, stale>>

AdmitServed(c, r, k) ==
  /\ calls[c].phase = "idle" /\ ~killed
  /\ ~Stopped(r, k)
  /\ LetThrough(c, r, k, "no", "no", FALSE)

\* A bypass overrides pauses and caps, never the kill switch.
AdmitForced(c, r, k) ==
  /\ calls[c].phase = "idle" /\ ~killed /\ BypassAllowed
  /\ LetThrough(c, r, k, "no", "no", TRUE)

\* Shadow mode serves what a pause or a cap would have refused.
AdmitShadow(c, r, k) ==
  /\ calls[c].phase = "idle" /\ ~killed /\ Shadow
  /\ Stopped(r, k)
  /\ LetThrough(c, r, k, RunHit(r, k), KeyHit(r, k), TRUE)

AdmitRefused(c, r, k) ==
  /\ calls[c].phase = "idle" /\ ~killed /\ ~Shadow
  /\ Stopped(r, k)
  /\ runs' = WithRun(r, PauseFor(RunOf(r), RunHit(r, k)))
  /\ keys' = WithKey(k, PauseFor(KeyOf(k), KeyHit(r, k)))
  /\ pending' = pending \o Stop(k, KeyHit(r, k)) \o Stop(r, RunHit(r, k))
  /\ calls' = [calls EXCEPT ![c] = [Idle EXCEPT !.phase = "done"]]
  /\ UNCHANGED <<now, today, killed, history>>

\* The kill switch refuses before any entry is looked up.
AdmitKilled(c) ==
  /\ calls[c].phase = "idle" /\ killed
  /\ calls' = [calls EXCEPT ![c] = [Idle EXCEPT !.phase = "done"]]
  /\ UNCHANGED <<now, today, killed, runs, keys, pending, history>>

-----------------------------------------------------------------------------
(* The end of an admitted call. *)

\* recordKeyed: the key first, then the run; each map is bounded after it.
Record(c, cost, suspectedLoop) ==
  LET r  == calls[c].run
      k  == calls[c].key
      st == SettleRun(RunOf(r), cost, suspectedLoop)
      ks == SettleKey(KeyOf(k), cost)
      runMap == WithRun(r, st)
      keyMap == WithKey(k, ks)
      unreserved == {x \in {r} : RunOf(r).inflight = 0} \cup {x \in {k} : KeyOf(k).inflight = 0}
  IN
  /\ calls[c].phase = "flying"
  /\ \E VR \in (IF r = NoRun THEN {{}} ELSE Victims(runMap)),
        VK \in (IF k = NoKey THEN {{}} ELSE Victims(keyMap)) :
       /\ runs' = Without(runMap, VR, NewRun)
       /\ keys' = Without(keyMap, VK, NewKey)
       /\ slack' = [x \in Runs |-> slack[x] + IF x \in VR THEN runMap[x].calls + runMap[x].inflight ELSE 0]
       /\ loose' = [x \in DOMAIN loose |->
                      IF x \in VR \cup VK THEN 0
                      ELSE IF x \in unreserved THEN loose[x] + 1 ELSE loose[x]]
  /\ pending' = pending \o (IF k = NoKey THEN <<>> ELSE StopIf(k, KeyOf(k), ks))
                        \o (IF r = NoRun THEN <<>> ELSE StopIf(r, RunOf(r), st))
  /\ calls' = [calls EXCEPT ![c] = [Idle EXCEPT !.phase = "done"]]
  /\ UNCHANGED <<now, today, killed, admitted, stale>>

\* releaseKeyed: no entry is made, no day rolled, nothing evicted.
Release(c) ==
  LET r == calls[c].run
      k == calls[c].key
  IN
  /\ calls[c].phase = "flying"
  /\ runs' = IF r = NoRun THEN runs ELSE [runs EXCEPT ![r] = Released(@)]
  /\ keys' = IF k = NoKey THEN keys ELSE [keys EXCEPT ![k] = Released(@)]
  /\ calls' = [calls EXCEPT ![c] = [Idle EXCEPT !.phase = "done"]]
  /\ admitted' = Add(admitted, r, IF c \in stale THEN 0 ELSE -1)
  /\ slack' = Add(slack, r, IF c \in stale THEN 1 ELSE 0)
  /\ UNCHANGED <<now, today, killed, pending, stale, loose>>

-----------------------------------------------------------------------------
(* The rest of the controller's methods. *)

\* noteRun makes the entry without a lastSeen and bounds nothing.
NoteRun(r) ==
  /\ runs' = [runs EXCEPT ![r].tracked = TRUE]
  /\ UNCHANGED <<now, today, killed, keys, pending, calls, history>>

NoteKey(k) ==
  LET map == WithKey(k, KeyOf(k))
  IN
  /\ \E V \in Victims(map) :
       /\ keys' = Without(map, V, NewKey)
       /\ loose' = [x \in DOMAIN loose |-> IF x \in V THEN 0 ELSE loose[x]]
  /\ UNCHANGED <<now, today, killed, runs, pending, calls, admitted, slack, stale>>

SetRunCap(r, cap) ==
  LET map == [runs EXCEPT ![r] = [SeenRun(@, now) EXCEPT !.maxSpend = cap]]
  IN
  /\ \E V \in Victims(map) :
       /\ runs' = Without(map, V, NewRun)
       /\ slack' = [x \in Runs |-> slack[x] + IF x \in V THEN map[x].calls + map[x].inflight ELSE 0]
       /\ loose' = [x \in DOMAIN loose |-> IF x \in V THEN 0 ELSE loose[x]]
  /\ UNCHANGED <<now, today, killed, keys, pending, calls, admitted, stale>>

ResumeRun(r) ==
  /\ runs[r].paused # "no"
  /\ runs' = [runs EXCEPT ![r] = ResumedRun(@)]
  /\ admitted' = [admitted EXCEPT ![r] = 0]
  /\ slack' = [slack EXCEPT ![r] = 0]
  /\ stale' = stale \cup FlyingOn(r)
  /\ loose' = [loose EXCEPT ![r] = 0]
  /\ UNCHANGED <<now, today, killed, keys, pending, calls>>

ResumeKey(k) ==
  /\ keys[k].paused # "no"
  /\ keys' = [keys EXCEPT ![k] = ResumedKey(@)]
  /\ loose' = IF keys[k].paused = "day" THEN loose ELSE [loose EXCEPT ![k] = 0]
  /\ UNCHANGED <<now, today, killed, runs, pending, calls, admitted, slack, stale>>

SetKilled(on) ==
  /\ killed' = on
  /\ UNCHANGED <<now, today, runs, keys, pending, calls, history>>

\* markPaused and markKeyPaused: a pause the shared store made before a gap,
\* recorded in the stand-in without a second alert.
MarkPaused(r, reason) ==
  /\ Fallback
  /\ runs' = [runs EXCEPT ![r].tracked = TRUE, ![r].paused = reason]
  /\ UNCHANGED <<now, today, killed, keys, pending, calls, history>>

MarkKeyPaused(k, reason) ==
  /\ Fallback
  /\ keys' = [keys EXCEPT ![k] = [KeyLocked(@, now, today) EXCEPT !.paused = reason]]
  /\ UNCHANGED <<now, today, killed, runs, pending, calls, history>>

\* Some method that queued an event has unlocked and now dispatches: it takes
\* every event queued by then.
Dispatch ==
  /\ pending # <<>>
  /\ pending' = <<>>
  /\ UNCHANGED <<now, today, killed, runs, keys, calls, history>>

\* The clocks.  The monotonic one only advances; the wall clock may be
\* stepped back over midnight.
Tick ==
  /\ now < MaxNow
  /\ now' = now + 1
  /\ UNCHANGED <<today, killed, runs, keys, pending, calls, history>>

WallClock(d) ==
  /\ today' = d /\ d # today
  /\ UNCHANGED <<now, killed, runs, keys, pending, calls, history>>

CallStep(c) ==
  \/ \E r \in Runs \cup {NoRun}, k \in Keys \cup {NoKey} :
       AdmitServed(c, r, k) \/ AdmitForced(c, r, k) \/ AdmitShadow(c, r, k) \/ AdmitRefused(c, r, k)
  \/ AdmitKilled(c)
  \/ \E cost \in Costs, suspectedLoop \in BOOLEAN : Record(c, cost, suspectedLoop)
  \/ Release(c)

RunStep(r) ==
  \/ NoteRun(r)
  \/ \E cap \in RequestCaps : SetRunCap(r, cap)
  \/ ResumeRun(r)
  \/ \E reason \in RunPauses \ {"no"} : MarkPaused(r, reason)

KeyStep(k) ==
  \/ NoteKey(k)
  \/ ResumeKey(k)
  \/ \E reason \in KeyPauses \ {"no"} : MarkKeyPaused(k, reason)

Next ==
  \/ \E c \in Calls : CallStep(c)
  \/ \E r \in Runs : RunStep(r)
  \/ \E k \in Keys : KeyStep(k)
  \/ \E on \in BOOLEAN : SetKilled(on)
  \/ Dispatch
  \/ Tick
  \/ \E d \in 0..MaxDay : WallClock(d)

Spec == Init /\ [][Next]_vars

-----------------------------------------------------------------------------
(* Safety. *)

\* A reservation belongs to a call that is still out.  admitKeyed, recordKeyed
\* and releaseKeyed keep inflight at or below the number of admitted calls not
\* yet settled, through resumes, midnights and evictions, so a cap is never
\* held against a run or a key by a reservation nobody will return.
NoPhantomReservation ==
  /\ \A r \in Runs : runs[r].inflight <= Cardinality(FlyingOn(r))
  /\ \A k \in Keys : keys[k].inflight <= Cardinality(FlyingOn(k))

\* The call cap of admitKeyed under any interleaving: between two resumes a
\* run has at most MaxCallsPerRun calls served or in flight, plus one for
\* each call forced by a bypass and each release of a call from before the
\* resume, and plus whatever tally an eviction forgot.  A burst of concurrent
\* calls adds nothing to that.
CallCapHolds ==
  MaxCallsPerRun > 0 => \A r \in Runs : admitted[r] <= MaxCallsPerRun + slack[r]

\* Twice the least amount whose micro() meets the cap.
CapLine(cap) == (2 * Micro(cap) - 1) * Grain

\* When no call costs more than the reserve floor, what an entry has settled
\* and reserved stays within one floor of the cap, plus one more for each
\* call forced by a bypass or settled without a reservation.
WithinCap(spend, inflight, cap, excess) ==
  Micro(cap) > 0 =>
    2 * (spend + ReservePerCall * inflight) < CapLine(cap) + 2 * ReservePerCall * (1 + excess)

CostsWithinReserve == ReservePerCall > 0 /\ \A cost \in Costs : cost <= ReservePerCall

\* The spend cap of a run: the bound the comment on ReserveUSDPerCall claims
\* for a burst on a cold run, whatever the interleaving of admits and settles.
RunSpendHolds ==
  CostsWithinReserve =>
    \A r \in Runs : WithinCap(runs[r].spend, runs[r].inflight, MaxSpendPerRun, loose[r])

\* The daily and the total cap of a key, across every run it starts.
KeySpendHolds ==
  CostsWithinReserve =>
    \A k \in Keys :
      /\ WithinCap(keys[k].lifeSpend, keys[k].inflight, MaxSpendPerKey, loose[k])
      /\ WithinCap(keys[k].daySpend, keys[k].inflight, MaxSpendPerKeyDay, loose[k])

-----------------------------------------------------------------------------
(* The controller behind the interface budget. *)

StoppedIds == {r \in Runs : runs[r].paused # "no"} \cup {k \in Keys : keys[k].paused # "no"}
CallsOut   == {<<c, calls[c].run, calls[c].key>> : c \in {d \in Calls : calls[d].phase = "flying"}}
Decided    == {c \in Calls : calls[c].phase # "idle"}

B == INSTANCE Budget WITH stopped <- StoppedIds, out <- CallsOut, decided <- Decided

\* The controller does what the handler relies on (Budget.tla): every step of
\* a method is a step the interface allows, or one the handler cannot see.  In
\* particular no eviction, settlement or resume of something else lets a call
\* of a stopped run or key through.
ImplementsBudget == B!BudgetSpec

-----------------------------------------------------------------------------
(* Action properties. *)

\* A pause stands until an operator resumes it: no settle, eviction or new
\* day lifts it or changes its reason, except that a pause of the daily cap
\* ends on a later UTC day (keyLocked), after which the same call may drop the
\* entry (evictKeys).  Marks made for a shared store aside.
PauseStands ==
  [][/\ \A r \in Runs :
          runs[r].paused \notin {"no", runs'[r].paused} /\ ~Fallback => runs'[r] = ResumedRun(runs[r])
     /\ \A k \in Keys :
          keys[k].paused \notin {"no", keys'[k].paused} /\ ~Fallback =>
            \/ keys'[k] = ResumedKey(keys[k])
            \/ /\ keys[k].paused = "day" /\ today > keys[k].day
               /\ keys'[k].day = today \/ keys'[k] = NewKey]_vars

EventsOf(x, q) == {i \in DOMAIN q : q[i].id = x}

\* One stop alert per stop: a step queues an event for a run or a key exactly
\* when it takes it from not paused to paused, and then one event, carrying
\* the reason (pauseLocked, pauseKeyLocked; every caller checks !paused).
OneAlertPerStop ==
  [][pending' # <<>> \/ pending = <<>> =>
       \A x \in Runs \cup Keys :
         LET was == IF x \in Runs THEN runs[x].paused
                    ELSE IF keys'[x].day = keys[x].day THEN keys[x].paused ELSE KeyOf(x).paused
             is  == IF x \in Runs THEN runs'[x].paused ELSE keys'[x].paused
             new == EventsOf(x, pending') \ EventsOf(x, pending)
         IN  /\ ~Fallback => (new # {} <=> was = "no" /\ is # "no")
             /\ Cardinality(new) <= 1
             /\ \A i \in new : was = "no" /\ pending'[i].reason = is]_vars

\* A key's tallies are only cut by what may cut them: today's by a later UTC
\* day, an operator's resume or an eviction, the total by a resume of a total
\* pause or an eviction.  A lagging clock never resets one (keyLocked).
KeyTallyKept ==
  [][\A k \in Keys :
       keys'[k] # NewKey =>
         /\ keys'[k].daySpend < keys[k].daySpend =>
              today > keys[k].day \/ keys'[k] = ResumedKey(keys[k])
         /\ keys'[k].lifeSpend < keys[k].lifeSpend =>
              keys[k].paused = "total" /\ keys'[k].paused = "no"
         /\ keys[k].tracked => keys'[k].day >= keys[k].day]_vars

\* evict and evictKeys drop the least recently seen active entries only: what
\* is dropped was seen no later than any active entry that stays.
Dropped(old, new) == {x \in DOMAIN old : old[x].tracked /\ ~new[x].tracked}

DropsLeastRecent ==
  [][/\ \A x \in Dropped(runs, runs'), y \in Runs :
          runs'[y].tracked /\ runs'[y].paused = "no" => runs[x].lastSeen <= runs'[y].lastSeen
     /\ \A x \in Dropped(keys, keys'), y \in Keys :
          keys'[y].tracked /\ keys'[y].paused = "no" => keys[x].lastSeen <= keys'[y].lastSeen]_vars
=============================================================================
