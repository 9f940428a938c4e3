----------------------------- MODULE StoreRules -----------------------------
(***************************************************************************)
(* The scripts of internal/gateway/counter_redis.go that work on one run's *)
(* record in the shared store.  Redis runs a script as one step, so each   *)
(* is an operator from the record to the record and the script's answer.   *)
(* This is the store of a deployment without key caps (ControlPolicy's     *)
(* keyCaps() is false, so every script is called with an empty key); the   *)
(* key half of the scripts is in StoreKeys.tla.                            *)
(*                                                                         *)
(* The record is a run's tally (the fields of RunState, money in whole     *)
(* micro-dollars) with the per-call ids: admits[c] is the field a:<token>  *)
(* of call c ("served", or the reason it was refused for), settled the set *)
(* of calls whose field s:<token> is set.  The expiry of a record 48 hours *)
(* after its last touch is left out.                                       *)
(***************************************************************************)
EXTENDS ControlRules

CONSTANT Calls          \* requests; each uses one token, named by the request

Modes == {"decide", "bypass", "shadow"}

StoreRecord == [tally: RunState, settled: SUBSET Calls,
                admits: [Calls -> {"none", "served"} \cup (RunPauses \ {"no"})]]

EmptyStore == [tally |-> NewRun, admits |-> [c \in Calls |-> "none"], settled |-> {}]

\* An answer of luaAdmit: ok, and the reason code: "no" for none, "dup" for an
\* id admitted before, else the reason of the pause.
Answer(ok, code) == [ok |-> ok, code |-> code]
Answers == [ok: BOOLEAN, code: RunPauses \cup {"dup"}]

\* The comparison is exact, where micro() rounds the projection.
StoreProjection(st, cap) ==
  /\ cap > 0
  /\ IF st.calls > 0 /\ st.spend > Micro(ReservePerCall) * st.calls
       THEN st.spend * st.calls + st.spend * st.inflight >= cap * st.calls
       ELSE st.spend + Micro(ReservePerCall) * st.inflight >= cap

\* The settled amount against a cap of whole micro-dollars.
StoreReached(spend, cap) == Micro(cap) > 0 /\ spend >= Micro(cap)

\* Slip: calls in flight are not counted.
StoreCap_SettledOnly(st) ==
  IF MaxCallsPerRun > 0 /\ st.calls >= MaxCallsPerRun THEN "calls"
  ELSE IF StoreProjection(st, Micro(SpendCap(st))) THEN "spend" ELSE "no"

StoreCap(st) ==
  IF MaxCallsPerRun > 0 /\ st.calls + st.inflight >= MaxCallsPerRun THEN "calls"
  ELSE IF StoreProjection(st, Micro(SpendCap(st))) THEN "spend" ELSE "no"

\* reserve() of luaAdmit, with the pause the script may have made before it.
StoreReserve(db, c, why) ==
  [db EXCEPT !.tally.inflight = @ + 1, !.tally.paused = why, !.admits[c] = "served"]

\* Slip: the id of an admitted call is not looked up.
AdmitScript_NoReplay(db, c, mode) ==
  IF mode # "bypass" /\ (db.tally.paused # "no" \/ StoreCap(db.tally) # "no")
    THEN [db |-> [db EXCEPT !.tally.paused = "calls"], answer |-> Answer(FALSE, "calls")]
    ELSE [db |-> StoreReserve(db, c, db.tally.paused), answer |-> Answer(TRUE, "no")]

\* luaAdmit.  A refusal for a pause that was already there leaves no id, so
\* its replay is decided afresh.
AdmitScript(db, c, mode) ==
  LET was == db.tally.paused
      hit == IF mode = "bypass" THEN "no" ELSE StoreCap(db.tally)
      why == IF was # "no" THEN was ELSE hit
      served == [db |-> StoreReserve(db, c, why),
                 answer |-> Answer(TRUE, IF mode = "bypass" THEN "no" ELSE why)]
  IN
  CASE db.admits[c] = "served" -> [db |-> db, answer |-> Answer(TRUE, "dup")]
    [] db.admits[c] \in RunPauses -> [db |-> db, answer |-> Answer(FALSE, db.admits[c])]
    [] db.admits[c] = "none" /\ (why = "no" \/ mode # "decide") -> served
    [] OTHER ->
         [db |-> IF was # "no" THEN db
                 ELSE [db EXCEPT !.tally.paused = hit, !.admits[c] = hit],
          answer |-> Answer(FALSE, why)]

\* Slip: a settlement sent twice is tallied twice.
RecordScript_Again(db, c, cost, suspectedLoop) ==
  [db EXCEPT !.settled = @ \cup {c}, !.tally.calls = @ + 1,
             !.tally.inflight = Dec(@), !.tally.spend = @ + Micro(cost)]

\* luaRecord: once per token; the settled tally may pause the run.
RecordScript(db, c, cost, suspectedLoop) ==
  LET new == [db.tally EXCEPT !.inflight = Dec(@), !.calls = @ + 1, !.spend = @ + Micro(cost)]
      hit == IF MaxCallsPerRun > 0 /\ new.calls >= MaxCallsPerRun THEN "calls"
             ELSE IF StoreReached(new.spend, SpendCap(new)) THEN "spend"
             ELSE IF suspectedLoop /\ PauseOnSuspectedLoop THEN "loop" ELSE "no"
  IN  IF c \in db.settled THEN db
      ELSE [db EXCEPT !.settled = @ \cup {c},
                      !.tally = IF new.paused = "no" THEN [new EXCEPT !.paused = hit] ELSE new]

\* luaRelease: once per token.
ReleaseScript(db, c) ==
  IF c \in db.settled THEN db
  ELSE [db EXCEPT !.settled = @ \cup {c}, !.tally.inflight = Dec(@)]

\* luaResume: nothing unless paused, else a fresh budget.
ResumeScript(db) ==
  IF db.tally.paused = "no" THEN db ELSE [db EXCEPT !.tally = ResumedRun(@)]

\* luaPause: a pause the fallback made, written back.
PauseScript(db, why) == [db EXCEPT !.tally.paused = why]
=============================================================================
