----------------------------- MODULE LoopDetector -----------------------------
(***************************************************************************)
(* The loop detector of internal/gateway/loop.go as operators on its map   *)
(* of windows; observe holds the detector's lock throughout, so the module *)
(* that owns the map applies it in one step.  A request is a record with   *)
(* the time the handler read for it and its signature.  An operator with a *)
(* suffix after "_" is the one it precedes with a slip in it.              *)
(***************************************************************************)
EXTENDS Integers, FiniteSets, FiniteSetsExt

CONSTANTS
  Window,       \* LoopPolicy
  MaxPerRun,    \* 0 leaves a signal off
  MaxRepeat,
  MaxWindows    \* LoopPolicy.MaxRuns

ASSUME LoopAssumption ==
  Window \in Nat \ {0} /\ MaxPerRun \in Nat /\ MaxRepeat \in Nat /\ MaxWindows \in Nat \ {0}

NoWindow == [events |-> {}, lastSeen |-> 0]

Tracked(win) == {r \in DOMAIN win : win[r].events # {}}
Cutoff(e) == e.t - Window

\* Slip: what left the window stays.
Seen_KeepsAll(win, r, e) ==
  [win EXCEPT ![r] = [events |-> @.events \cup {e}, lastSeen |-> e.t]]

\* The run's window without what left it, and with request e.
Seen(win, r, e) ==
  [win EXCEPT ![r] = [events |-> {f \in @.events : f.t > Cutoff(e)} \cup {e}, lastSeen |-> e.t]]

\* Slip: a run seen just outside half the window goes too.
Expired_TooSoon(win, e) == {r \in Tracked(win) : win[r].lastSeen < e.t}

\* evict: the runs whose last observed request left the window of e.
Expired(win, e) == {r \in Tracked(win) : win[r].lastSeen <= Cutoff(e)}

\* evict, if there are still too many: sets of least recently seen runs.
Oldest(win, gone) ==
  LET left == Tracked(win) \ gone
      over == Cardinality(left) - MaxWindows
  IN  IF over <= 0 THEN {{}}
      ELSE {V \in kSubset(over, left) : \A v \in V, u \in left \ V : win[v].lastSeen <= win[u].lastSeen}

Evict(win, V) == [r \in DOMAIN win |-> IF r \in V THEN NoWindow ELSE win[r]]

\* Slip: calls that differ are repetitions too.
Repeats_AnyCall(events) == Cardinality(events)

\* The most often repeated signature.
Repeats(events) ==
  IF MaxRepeat = 0 THEN 0
  ELSE Max({Cardinality({f \in events : f.sig = e.sig}) : e \in events})

Decision(events) ==
  LET count  == Cardinality(events)
      repeat == Repeats(events)
  IN  [count |-> count, repeat |-> repeat,
       suspected |-> (MaxPerRun > 0 /\ count >= MaxPerRun) \/ (MaxRepeat > 0 /\ repeat >= MaxRepeat)]

NoDecision == [count |-> 0, repeat |-> 0, suspected |-> FALSE]
=============================================================================
