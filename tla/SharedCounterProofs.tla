------------------------- MODULE SharedCounterProofs -------------------------
(***************************************************************************)
(* Proofs about SharedCounter.tla for any number of replicas, calls,       *)
(* operator asks and failures, and any bounds of the queues: the store     *)
(* counts each call once, no settlement is lost untold, one cap holds for  *)
(* every replica, and an operator's resume is the last word.               *)
(***************************************************************************)
EXTENDS SharedCounter, ControlRulesProofs, FiniteSetTheorems, SequenceTheorems, TLAPS

CallRec == [pc: CallStates, gw: Gateways, ptr: Nat, where: {"", "shared", "local"},
            answer: Answers, evs: Seq(RunPauses), next: {"out", "refused", "done"},
            kind: {"r", "l"}, cost: Nat, loop: BOOLEAN, failure: Failures]
ResumeRec == [pc: ResumeStates, gw: Gateways, ptr: Nat, failure: Failures]
RecoverRec == [pc: RecoverStates, pass: 0..WriteBackPasses]
FlushStates == {"idle", "deliver"} \cup Failures

Flags ==
  /\ degraded \in [Gateways -> BOOLEAN] /\ streak \in [Gateways -> 0..FailStreakToDegrade]
  /\ pausedSeen \in [Gateways -> RunPauses]
  /\ deliverer \in [Gateways -> {"none", "flush", "recover"}]
  /\ flush \in [Gateways -> FlushStates]
  /\ recover \in [Gateways -> RecoverRec]
  /\ faults \in 0..MaxFaults

Queues == owed \in [Gateways -> Seq(Owed)] /\ batch \in [Gateways -> Seq(Owed)]

Locals == fallbacks \in [Gateways -> Seq(Fallback)] /\ \A g \in Gateways : fallbacks[g] # <<>>

\* A thread that has picked a fallback points at one; a thread that owes has
\* something to owe.
CallFits(r) ==
  /\ r.ptr <= Len(fallbacks[r.gw])
  /\ r.pc \in {"deciding", "dispatching", "applying"} => r.ptr > 0
  /\ r.pc = "owing" => r.evs # <<>>
  /\ r.pc \in {"dispatching", "owing", "applying"} => r.where = "local"
  /\ r.pc \in {"settling", "takeFailed", "oweing"} => r.where = "shared"
ResumeFits(r) == r.pc # "idle" => r.ptr \in 1..Len(fallbacks[r.gw])

Threads ==
  /\ call \in [Calls -> CallRec] /\ \A c \in Calls : CallFits(call[c])
  /\ resume \in [Resumes -> ResumeRec] /\ \A u \in Resumes : ResumeFits(resume[u])

Histories == lost \subseteq Owed /\ lastWord \in {"none", "pause", "resume"} /\ raced \in BOOLEAN

SharedType == db \in StoreRecord /\ Flags /\ Queues /\ Locals /\ Threads /\ Histories

Items(s) == {s[i] : i \in 1..Len(s)}

\* A settlement on its way is that of a call that is over.
OwnItem(item) ==
  /\ item.kind \in {"r", "l"} =>
       call[item.call].pc = "done" /\ call[item.call].where = "shared" /\ call[item.call].kind = item.kind
  /\ item.kind = "u" => Resumes # {}

\* A call whose settlement is on its way to the store, or there.
Sending == {"settling", "takeFailed", "oweing", "done"}

\* What the store has settled a gateway has sent; what a gateway sends the
\* store has let through.
Sent ==
  /\ \A g \in Gateways : \A i \in 1..Len(owed[g]) : OwnItem(owed[g][i])
  /\ \A g \in Gateways : \A i \in 1..Len(batch[g]) : OwnItem(batch[g][i])
  /\ \A c \in db.settled : call[c].pc \in Sending /\ call[c].where = "shared"
  /\ \A c \in Calls : call[c].where = "shared" /\ call[c].pc \in Through => db.admits[c] = "served"
  /\ \A c \in Calls : call[c].pc = "answered" /\ call[c].answer.ok => db.admits[c] = "served"

Held      == {c \in Calls : db.admits[c] = "served"} \ db.settled
Recorded  == {c \in db.settled : call[c].kind = "r"}

Counted ==
  /\ db.tally.inflight <= Cardinality(Held) /\ db.tally.calls <= Cardinality(Recorded)
  /\ Resumes = {} => db.tally.inflight = Cardinality(Held) /\ db.tally.calls = Cardinality(Recorded)
  /\ MaxCallsPerRun > 0 /\ Resumes = {} /\ BypassCalls = {} /\ ~Shadow =>
       Cardinality(Held) + Cardinality(Recorded) <= MaxCallsPerRun

NoPause(s)  == \A i \in 1..Len(s) : s[i].kind # "p"
\* A resume in s comes after every pause in it.
ResumeLast(s) == \E i \in 1..Len(s) : s[i] = OwedResume /\ \A j \in 1..Len(s) : j > i => s[j].kind # "p"

\* With one gateway, when a resume is the last word: no pause is still to be
\* owed, and the resume comes after every pause that is, or has landed after
\* the last of them.
Ordered ==
  \A g \in Gateways :
    Gateways = {g} /\ lastWord = "resume" /\ ~raced /\ OwedResume \notin lost =>
      /\ \A i \in 1..Len(fallbacks[g]) : fallbacks[g][i].pending = <<>>
      /\ \A c \in Calls : call[c].pc # "owing"
      /\ \/ \E u \in Resumes : resume[u].pc = "oweing"
         \/ ResumeLast(owed[g])
         \/ ResumeLast(batch[g]) /\ NoPause(owed[g])
         \/ db.tally.paused = "no" /\ NoPause(batch[g]) /\ NoPause(owed[g])

SharedInv == SharedType /\ Sent /\ NoSettlementLost /\ Counted /\ Ordered

-----------------------------------------------------------------------------
(* The scripts. *)

\* What the admit script makes of record x for call c, with answer a.
AdmitsCall(x, y, c, a, mode) ==
  /\ y \in StoreRecord /\ a \in Answers /\ y.settled = x.settled
  /\ \A d \in Calls \ {c} : y.admits[d] = x.admits[d]
  /\ y.tally.calls = x.tally.calls
  /\ a.ok => y.admits[c] = "served"
  /\ \/ y.tally.inflight = x.tally.inflight /\ (y.admits[c] = "served" <=> x.admits[c] = "served")
     \/ /\ y.tally.inflight = x.tally.inflight + 1
        /\ x.admits[c] # "served" /\ y.admits[c] = "served"
        /\ mode = "decide" /\ MaxCallsPerRun > 0 =>
             x.tally.calls + x.tally.inflight < MaxCallsPerRun

\* What an item does to record x: kind and call of it.
TakesItem(x, y, kind, c) ==
  /\ y \in StoreRecord /\ y.admits = x.admits
  /\ kind \in {"r", "l"} =>
       /\ y.settled = x.settled \cup {c}
       /\ c \in x.settled => y = x
       /\ c \notin x.settled =>
            /\ y.tally.inflight = Dec(x.tally.inflight)
            /\ y.tally.calls = IF kind = "r" THEN x.tally.calls + 1 ELSE x.tally.calls
  /\ kind \in {"p", "u"} =>
       /\ y.settled = x.settled
       /\ \/ y.tally.inflight = x.tally.inflight /\ y.tally.calls = x.tally.calls
          \/ kind = "u" /\ y.tally.inflight = 0 /\ y.tally.calls = 0
  /\ kind = "l" => y.tally.paused = x.tally.paused
  /\ kind = "u" => y.tally.paused = "no"

LEMMA RecordParts ==
  ASSUME NEW x \in StoreRecord
  PROVE  /\ x.tally \in RunState /\ x.settled \subseteq Calls
         /\ x.admits \in [Calls -> {"none", "served"} \cup (RunPauses \ {"no"})]
         /\ x.tally.inflight \in Nat /\ x.tally.calls \in Nat /\ x.tally.spend \in Nat
         /\ x.tally.paused \in RunPauses
BY DEF StoreRecord, RunState

LEMMA MicroType ==
  ASSUME NEW v \in Nat
  PROVE  Micro(v) \in Nat
BY PolicyAssumption DEF Micro

LEMMA StoreCapNames == \A st : StoreCap(st) \in RunPauses
BY DEF StoreCap, RunPauses

LEMMA ReserveFacts ==
  ASSUME NEW x \in StoreRecord, NEW c \in Calls, NEW why \in RunPauses
  PROVE  LET y == StoreReserve(x, c, why)
         IN  /\ y \in StoreRecord /\ y.settled = x.settled /\ y.tally.calls = x.tally.calls
             /\ y.tally.inflight = x.tally.inflight + 1 /\ y.admits[c] = "served"
             /\ \A d \in Calls \ {c} : y.admits[d] = x.admits[d]
<1> DEFINE t1 == [x.tally EXCEPT !.inflight = @ + 1]
           t2 == [t1 EXCEPT !.paused = why]
           a  == [x.admits EXCEPT ![c] = "served"]
<1>6. t1 \in RunState /\ t1.calls = x.tally.calls /\ t1.inflight = x.tally.inflight + 1
  BY RecordParts DEF RunState
<1>1. t2 \in RunState /\ t2.calls = x.tally.calls /\ t2.inflight = x.tally.inflight + 1
  <2> HIDE DEF t1
  <2> QED
    BY <1>6 DEF RunState
<1>2. /\ a \in [Calls -> {"none", "served"} \cup (RunPauses \ {"no"})] /\ a[c] = "served"
      /\ \A d \in Calls \ {c} : a[d] = x.admits[d]
  BY RecordParts
<1>3. StoreReserve(x, c, why) = [[x EXCEPT !.tally = t2] EXCEPT !.admits = a]
  BY DEF StoreReserve, StoreRecord
<1> HIDE DEF t2, a
<1> DEFINE y == [[x EXCEPT !.tally = t2] EXCEPT !.admits = a]
<1>4. y \in StoreRecord /\ y.settled = x.settled /\ y.tally = t2 /\ y.admits = a
  BY <1>1, <1>2 DEF StoreRecord
<1> HIDE DEF y
<1>5. StoreReserve(x, c, why) = y
  BY <1>3 DEF y
<1> QED
  BY <1>1, <1>2, <1>4, <1>5

LEMMA RefuseFacts ==
  ASSUME NEW x \in StoreRecord, NEW c \in Calls, NEW why \in RunPauses \ {"no"}
  PROVE  LET y == [x EXCEPT !.tally.paused = why, !.admits[c] = why]
         IN  /\ y \in StoreRecord /\ y.settled = x.settled /\ y.tally.calls = x.tally.calls
             /\ y.tally.inflight = x.tally.inflight /\ y.admits[c] = why
             /\ \A d \in Calls \ {c} : y.admits[d] = x.admits[d]
<1> DEFINE t == [x.tally EXCEPT !.paused = why]
           a == [x.admits EXCEPT ![c] = why]
           y == [x EXCEPT !.tally.paused = why, !.admits[c] = why]
           z == [[x EXCEPT !.tally = t] EXCEPT !.admits = a]
<1>1. t \in RunState /\ t.calls = x.tally.calls /\ t.inflight = x.tally.inflight
  BY RecordParts DEF RunState
<1>2. /\ a \in [Calls -> {"none", "served"} \cup (RunPauses \ {"no"})] /\ a[c] = why
      /\ \A d \in Calls \ {c} : a[d] = x.admits[d]
  BY RecordParts
<1>3. y = z
  BY DEF StoreRecord
<1> HIDE DEF t, a, y
<1>4. z \in StoreRecord /\ z.settled = x.settled /\ z.tally = t /\ z.admits = a
  BY <1>1, <1>2 DEF StoreRecord
<1> HIDE DEF z
<1>5. /\ y \in StoreRecord /\ y.settled = x.settled /\ y.tally.calls = x.tally.calls
      /\ y.tally.inflight = x.tally.inflight /\ y.admits[c] = why
      /\ \A d \in Calls \ {c} : y.admits[d] = x.admits[d]
  BY <1>1, <1>2, <1>3, <1>4
<1> QED
  BY <1>5 DEF y

LEMMA AdmitFacts ==
  ASSUME NEW x \in StoreRecord, NEW c \in Calls, NEW mode
  PROVE  LET r == AdmitScript(x, c, mode) IN AdmitsCall(x, r.db, c, r.answer, mode)
<1> DEFINE was == x.tally.paused
           hit == IF mode = "bypass" THEN "no" ELSE StoreCap(x.tally)
           why == IF was # "no" THEN was ELSE hit
           r   == AdmitScript(x, c, mode)
           res == StoreReserve(x, c, why)
           ref == [x EXCEPT !.tally.paused = hit, !.admits[c] = hit]
<1>1. /\ was \in RunPauses /\ hit \in RunPauses /\ why \in RunPauses /\ "no" \in RunPauses
      /\ x.admits[c] \in {"none", "served"} \cup (RunPauses \ {"no"})
      /\ "none" \notin RunPauses /\ "served" \notin RunPauses
  BY RecordParts, StoreCapNames DEF RunPauses
<1>2. \A ok \in BOOLEAN, code \in RunPauses \cup {"dup"} :
        Answer(ok, code) \in Answers /\ Answer(ok, code).ok = ok
  BY DEF Answer, Answers
<1>3. CASE x.admits[c] = "served"
  <2>1. r = [db |-> x, answer |-> Answer(TRUE, "dup")]
    BY <1>1, <1>3 DEF AdmitScript
  <2> HIDE DEF r
  <2>2. r.db = x /\ r.answer = Answer(TRUE, "dup")
    BY <2>1
  <2>3. AdmitsCall(x, r.db, c, r.answer, mode)
    BY <1>2, <1>3, <2>2 DEF AdmitsCall
  <2> QED
    BY <2>3 DEF r
<1>4. CASE x.admits[c] \in RunPauses
  <2>1. r = [db |-> x, answer |-> Answer(FALSE, x.admits[c])]
    BY <1>1, <1>4 DEF AdmitScript
  <2> HIDE DEF r
  <2>2. r.db = x /\ r.answer = Answer(FALSE, x.admits[c])
    BY <2>1
  <2>3. AdmitsCall(x, r.db, c, r.answer, mode)
    BY <1>2, <1>4, <2>2 DEF AdmitsCall
  <2> QED
    BY <2>3 DEF r
<1>5. CASE x.admits[c] = "none" /\ (why = "no" \/ mode # "decide")
  <2>1. r = [db |-> res, answer |-> Answer(TRUE, IF mode = "bypass" THEN "no" ELSE why)]
    BY <1>1, <1>5 DEF AdmitScript
  <2>2. /\ res \in StoreRecord /\ res.settled = x.settled /\ res.tally.calls = x.tally.calls
        /\ res.tally.inflight = x.tally.inflight + 1 /\ res.admits[c] = "served"
        /\ \A d \in Calls \ {c} : res.admits[d] = x.admits[d]
    BY <1>1, ReserveFacts
  <2>3. mode = "decide" /\ MaxCallsPerRun > 0 => x.tally.calls + x.tally.inflight < MaxCallsPerRun
    <3>1. mode = "decide" => StoreCap(x.tally) = "no"
      BY <1>5
    <3>2. StoreCap(x.tally) = "no" => ~(MaxCallsPerRun > 0 /\ x.tally.calls + x.tally.inflight >= MaxCallsPerRun)
      BY DEF StoreCap
    <3> QED
      BY <3>1, <3>2, RecordParts, PolicyAssumption
  <2> DEFINE b == IF mode = "bypass" THEN "no" ELSE why
  <2>4. b \in RunPauses
    BY <1>1
  <2> HIDE DEF r, res, b
  <2>5. r.db = res /\ r.answer = Answer(TRUE, b)
    BY <2>1 DEF b
  <2>6. r.answer \in Answers
    BY <1>2, <2>4, <2>5
  <2>7. AdmitsCall(x, r.db, c, r.answer, mode)
    BY <1>5, <2>2, <2>3, <2>5, <2>6 DEF AdmitsCall
  <2> QED
    BY <2>7 DEF r
<1>6. CASE x.admits[c] = "none" /\ why # "no" /\ mode = "decide"
  <2> DEFINE y == IF was # "no" THEN x ELSE ref
  <2>1. r = [db |-> y, answer |-> Answer(FALSE, why)]
    BY <1>1, <1>6 DEF AdmitScript
  <2>2. /\ y \in StoreRecord /\ y.settled = x.settled /\ y.tally.calls = x.tally.calls
        /\ y.tally.inflight = x.tally.inflight /\ y.admits[c] # "served"
        /\ \A d \in Calls \ {c} : y.admits[d] = x.admits[d]
    <3>1. CASE was # "no"
      BY <1>6, <3>1
    <3>2. CASE was = "no"
      <4>1. hit \in RunPauses \ {"no"} /\ y = ref
        BY <1>1, <1>6, <3>2
      <4>2. /\ ref \in StoreRecord /\ ref.settled = x.settled /\ ref.tally.calls = x.tally.calls
            /\ ref.tally.inflight = x.tally.inflight /\ ref.admits[c] = hit
            /\ \A d \in Calls \ {c} : ref.admits[d] = x.admits[d]
        <5> HIDE DEF hit, y
        <5> QED
          BY <4>1, RefuseFacts
      <4> HIDE DEF ref, y, hit
      <4> QED
        BY <1>1, <4>1, <4>2
    <3> QED
      BY <3>1, <3>2
  <2> HIDE DEF r, y
  <2>3. r.db = y /\ r.answer = Answer(FALSE, why)
    BY <2>1
  <2>4. r.answer \in Answers /\ ~r.answer.ok
    BY <1>1, <1>2, <2>3
  <2>5. AdmitsCall(x, r.db, c, r.answer, mode)
    BY <1>6, <2>2, <2>3, <2>4 DEF AdmitsCall
  <2> QED
    BY <2>5 DEF r
<1> QED
  BY <1>1, <1>3, <1>4, <1>5, <1>6

\* A script that is sent again does what it did the first time.
LEMMA AdmitTwice ==
  ASSUME NEW x, NEW y, NEW z, NEW c \in Calls, NEW a, NEW b, NEW mode,
         AdmitsCall(x, y, c, a, mode), AdmitsCall(y, z, c, b, mode)
  PROVE  AdmitsCall(x, z, c, b, mode)
BY DEF AdmitsCall

LEMMA AdmitNot ==
  ASSUME NEW x \in StoreRecord, NEW c \in Calls, NEW mode
  PROVE  AdmitsCall(x, x, c, Answer(FALSE, "no"), mode)
BY DEF AdmitsCall, Answer, Answers, RunPauses

LEMMA RecordFacts ==
  ASSUME NEW x \in StoreRecord, NEW c \in Calls, NEW cost \in Nat, NEW loop
  PROVE  TakesItem(x, RecordScript(x, c, cost, loop), "r", c)
<1> DEFINE t1  == [x.tally EXCEPT !.inflight = Dec(@)]
           t2  == [t1 EXCEPT !.calls = @ + 1]
           t3  == [t2 EXCEPT !.spend = @ + Micro(cost)]
           new == [x.tally EXCEPT !.inflight = Dec(@), !.calls = @ + 1, !.spend = @ + Micro(cost)]
           hit == IF MaxCallsPerRun > 0 /\ new.calls >= MaxCallsPerRun THEN "calls"
                  ELSE IF StoreReached(new.spend, SpendCap(new)) THEN "spend"
                  ELSE IF loop /\ PauseOnSuspectedLoop THEN "loop" ELSE "no"
           fin == IF new.paused = "no" THEN [new EXCEPT !.paused = hit] ELSE new
           s   == x.settled \cup {c}
           y   == RecordScript(x, c, cost, loop)
<1>1. CASE c \in x.settled
  <2>1. y = x /\ x.settled = x.settled \cup {c}
    BY <1>1 DEF RecordScript
  <2> QED
    BY <1>1, <2>1 DEF TakesItem
<1>2. CASE c \notin x.settled
  <2>1. hit \in RunPauses
    BY DEF RunPauses
  <2>2. t1 \in RunState /\ t1.inflight = Dec(x.tally.inflight) /\ t1.calls = x.tally.calls
    BY RecordParts, DecType DEF RunState
  <2>3. t2 \in RunState /\ t2.inflight = Dec(x.tally.inflight) /\ t2.calls = x.tally.calls + 1
    <3> HIDE DEF t1
    <3> QED
      BY <2>2 DEF RunState
  <2>4. t3 \in RunState /\ t3.inflight = Dec(x.tally.inflight) /\ t3.calls = x.tally.calls + 1
    <3> HIDE DEF t2
    <3> QED
      BY <2>3, MicroType DEF RunState
  <2>5. new = t3
    BY RecordParts DEF RunState
  <2>6. y = [[x EXCEPT !.settled = s] EXCEPT !.tally = fin]
    BY <1>2, RecordParts DEF RecordScript, StoreRecord
  <2> HIDE DEF hit, t3, new
  <2>7. fin \in RunState /\ fin.inflight = Dec(x.tally.inflight) /\ fin.calls = x.tally.calls + 1
    BY <2>1, <2>4, <2>5 DEF RunState
  <2>8. s \in SUBSET Calls
    BY RecordParts
  <2> HIDE DEF fin, y, s
  <2>9. y \in StoreRecord /\ y.settled = s /\ y.tally = fin /\ y.admits = x.admits
    BY <2>6, <2>7, <2>8 DEF StoreRecord
  <2>10. TakesItem(x, y, "r", c)
    BY <1>2, <2>7, <2>9 DEF TakesItem, s
  <2> QED
    BY <2>10 DEF y
<1> QED
  BY <1>1, <1>2

LEMMA ReleaseFacts ==
  ASSUME NEW x \in StoreRecord, NEW c \in Calls
  PROVE  TakesItem(x, ReleaseScript(x, c), "l", c)
<1> DEFINE t == [x.tally EXCEPT !.inflight = Dec(@)]
           s == x.settled \cup {c}
           y == ReleaseScript(x, c)
<1>1. CASE c \in x.settled
  <2>1. y = x /\ x.settled = x.settled \cup {c}
    BY <1>1 DEF ReleaseScript
  <2> QED
    BY <1>1, <2>1 DEF TakesItem
<1>2. CASE c \notin x.settled
  <2>1. /\ t \in RunState /\ t.inflight = Dec(x.tally.inflight) /\ t.calls = x.tally.calls
        /\ t.paused = x.tally.paused
    BY RecordParts, DecType DEF RunState
  <2>2. y = [[x EXCEPT !.settled = s] EXCEPT !.tally = t]
    BY <1>2, RecordParts DEF ReleaseScript, StoreRecord
  <2>3. s \in SUBSET Calls
    BY RecordParts
  <2> HIDE DEF t, y, s
  <2>4. y \in StoreRecord /\ y.settled = s /\ y.tally = t /\ y.admits = x.admits
    BY <2>1, <2>2, <2>3 DEF StoreRecord
  <2>5. TakesItem(x, y, "l", c)
    BY <1>2, <2>1, <2>4 DEF TakesItem, s
  <2> QED
    BY <2>5 DEF y
<1> QED
  BY <1>1, <1>2

LEMMA ResumeFacts ==
  ASSUME NEW x \in StoreRecord, NEW c
  PROVE  TakesItem(x, ResumeScript(x), "u", c)
<1> DEFINE t == ResumedRun(x.tally)
           s == x.settled
           y == ResumeScript(x)
<1>1. CASE x.tally.paused = "no"
  <2>1. y = x
    BY <1>1 DEF ResumeScript
  <2> QED
    BY <1>1, <2>1 DEF TakesItem
<1>2. CASE x.tally.paused # "no"
  <2>1. t \in RunState /\ t.inflight = 0 /\ t.calls = 0 /\ t.paused = "no"
    BY RecordParts DEF RunState, ResumedRun, RunPauses
  <2>2. y = [[x EXCEPT !.settled = s] EXCEPT !.tally = t]
    BY <1>2, RecordParts DEF ResumeScript, StoreRecord
  <2>3. s \in SUBSET Calls
    BY RecordParts
  <2> HIDE DEF t, y, s
  <2>4. y \in StoreRecord /\ y.settled = s /\ y.tally = t /\ y.admits = x.admits
    BY <2>1, <2>2, <2>3 DEF StoreRecord
  <2>5. TakesItem(x, y, "u", c)
    BY <2>1, <2>4 DEF TakesItem, s
  <2> QED
    BY <2>5 DEF y
<1> QED
  BY <1>1, <1>2

LEMMA PauseFacts ==
  ASSUME NEW x \in StoreRecord, NEW why \in RunPauses, NEW c
  PROVE  TakesItem(x, PauseScript(x, why), "p", c)
<1> DEFINE t == [x.tally EXCEPT !.paused = why]
           s == x.settled
           y == PauseScript(x, why)
<1>1. t \in RunState /\ t.inflight = x.tally.inflight /\ t.calls = x.tally.calls
  BY RecordParts DEF RunState
<1>2. y = [[x EXCEPT !.settled = s] EXCEPT !.tally = t]
  BY RecordParts DEF PauseScript, StoreRecord
<1>3. s \in SUBSET Calls
  BY RecordParts
<1> HIDE DEF t, y, s
<1>4. y \in StoreRecord /\ y.settled = s /\ y.tally = t /\ y.admits = x.admits
  BY <1>1, <1>2, <1>3 DEF StoreRecord
<1>5. TakesItem(x, y, "p", c)
  BY <1>1, <1>4 DEF TakesItem, s
<1> QED
  BY <1>5 DEF y

LEMMA OwedParts ==
  /\ \A item \in Owed : /\ item.kind \in {"r", "l", "p", "u"} /\ item.why \in RunPauses
                        /\ item.kind \in {"r", "l"} => item.call \in Calls
                        /\ item.kind \in {"r", "l"} => item = Settlement(item.kind, item.call)
                        /\ item.kind = "u" => item = OwedResume
  /\ \A c \in Calls : \A kind \in {"r", "l"} :
       /\ Settlement(kind, c) \in Owed
       /\ Settlement(kind, c).kind = kind /\ Settlement(kind, c).call = c
  /\ \A why \in RunPauses : OwedPause(why) \in Owed /\ OwedPause(why).kind = "p"
  /\ OwedResume \in Owed /\ OwedResume.kind = "u"
<1>1. ASSUME NEW item \in Owed
      PROVE  /\ item.kind \in {"r", "l", "p", "u"} /\ item.why \in RunPauses
             /\ item.kind \in {"r", "l"} => item.call \in Calls
             /\ item.kind \in {"r", "l"} => item = Settlement(item.kind, item.call)
             /\ item.kind = "u" => item = OwedResume
  <2>1. CASE item \in [kind: {"r", "l"}, call: Calls, why: {"no"}]
    BY <2>1 DEF Settlement, RunPauses
  <2>2. CASE item \in [kind: {"p"}, call: {NoCall}, why: RunPauses]
    BY <2>2
  <2>3. CASE item \in [kind: {"u"}, call: {NoCall}, why: {"no"}]
    BY <2>3 DEF OwedResume, RunPauses
  <2> QED
    BY <1>1, <2>1, <2>2, <2>3 DEF Owed
<1>2. \A c \in Calls : \A kind \in {"r", "l"} :
        /\ Settlement(kind, c) \in Owed
        /\ Settlement(kind, c).kind = kind /\ Settlement(kind, c).call = c
  BY DEF Settlement, Owed
<1>3. \A why \in RunPauses : OwedPause(why) \in Owed /\ OwedPause(why).kind = "p"
  BY DEF OwedPause, Owed
<1>4. OwedResume \in Owed /\ OwedResume.kind = "u"
  BY DEF OwedResume, Owed
<1> QED
  BY <1>1, <1>2, <1>3, <1>4

LEMMA TakeFacts ==
  ASSUME SharedType, NEW item \in Owed
  PROVE  TakesItem(db, TakeScript(item), item.kind, item.call)
<1>1. db \in StoreRecord /\ \A c \in Calls : call[c].cost \in Nat
  BY DEF SharedType, Threads, CallRec
<1>2. CASE item.kind = "r"
  <2>1. TakeScript(item) = RecordScript(db, item.call, call[item.call].cost, call[item.call].loop)
    BY <1>2 DEF TakeScript
  <2> QED
    BY <1>1, <1>2, <2>1, OwedParts, RecordFacts
<1>3. CASE item.kind = "l"
  <2>1. TakeScript(item) = ReleaseScript(db, item.call)
    BY <1>3 DEF TakeScript
  <2> QED
    BY <1>1, <1>3, <2>1, OwedParts, ReleaseFacts
<1>4. CASE item.kind = "p"
  <2>1. TakeScript(item) = PauseScript(db, item.why)
    BY <1>4 DEF TakeScript
  <2> QED
    BY <1>1, <1>4, <2>1, OwedParts, PauseFacts
<1>5. CASE item.kind = "u"
  <2>1. TakeScript(item) = ResumeScript(db)
    BY <1>5 DEF TakeScript
  <2> QED
    BY <1>1, <1>5, <2>1, ResumeFacts
<1> QED
  BY <1>2, <1>3, <1>4, <1>5, OwedParts

-----------------------------------------------------------------------------
(* Types: the fallbacks, the queues and the threads. *)

Grow == \A g \in Gateways : Len(fallbacks'[g]) >= Len(fallbacks[g])
\* No pause waits to be dispatched.
Calm == \A g \in Gateways : \A i \in 1..Len(fallbacks[g]) : fallbacks[g][i].pending = <<>>

LEMMA FallbackFacts ==
  ASSUME NEW fb \in Fallback
  PROVE  /\ fb.st \in RunState /\ fb.gap \in BOOLEAN /\ fb.pending \in Seq(RunPauses)
         /\ \A st \in RunState : /\ [fb EXCEPT !.st = st] \in Fallback
                                 /\ [fb EXCEPT !.st = st].pending = fb.pending
         /\ \A q \in Seq(RunPauses) : /\ [fb EXCEPT !.pending = q] \in Fallback
                                      /\ [fb EXCEPT !.pending = q].pending = q
BY DEF Fallback

LEMMA FreshFacts ==
  ASSUME NEW why \in RunPauses, NEW b \in BOOLEAN
  PROVE  FreshFallback(why, b) \in Fallback /\ FreshFallback(why, b).pending = <<>>
<1>1. [NewRun EXCEPT !.paused = why] \in RunState
  BY NewFields DEF RunState
<1> QED
  BY <1>1 DEF FreshFallback, Fallback

LEMMA Unchanging ==
  ASSUME SharedType, fallbacks' = fallbacks
  PROVE  Locals' /\ Grow /\ (Calm => Calm')
BY DEF SharedType, Locals, Grow, Calm

LEMMA Added ==
  ASSUME SharedType, NEW g \in Gateways, NEW fb \in Fallback, fb.pending = <<>>,
         fallbacks' = [fallbacks EXCEPT ![g] = Append(@, fb)]
  PROVE  Locals' /\ Grow /\ (Calm => Calm')
<1> DEFINE new == Append(fallbacks[g], fb)
<1>1. \A h \in Gateways : fallbacks[h] \in Seq(Fallback) /\ fallbacks[h] # <<>>
  BY DEF SharedType, Locals
<1>2. /\ new \in Seq(Fallback) /\ Len(new) = Len(fallbacks[g]) + 1 /\ new # <<>>
      /\ Len(fallbacks[g]) \in Nat
      /\ \A i \in 1..Len(fallbacks[g]) : new[i] = fallbacks[g][i]
      /\ new[Len(fallbacks[g]) + 1] = fb
  BY <1>1
<1>3. /\ \A h \in Gateways : fallbacks'[h] = IF h = g THEN new ELSE fallbacks[h]
      /\ fallbacks' = [h \in Gateways |-> fallbacks'[h]]
  BY DEF SharedType, Locals
<1> HIDE DEF new
<1>4. fallbacks' \in [Gateways -> Seq(Fallback)] /\ \A h \in Gateways : fallbacks'[h] # <<>>
  BY <1>1, <1>2, <1>3
<1>5. \A h \in Gateways : Len(fallbacks'[h]) >= Len(fallbacks[h])
  <2> TAKE h \in Gateways
  <2>1. Len(fallbacks[h]) \in Nat
    BY <1>1
  <2> QED
    BY <1>2, <1>3, <2>1
<1>6. ASSUME Calm PROVE Calm'
  <2>1. SUFFICES ASSUME NEW h \in Gateways, NEW i \in 1..Len(fallbacks'[h])
                 PROVE  fallbacks'[h][i].pending = <<>>
    BY DEF Calm
  <2>2. CASE h # g
    BY <1>3, <1>6, <2>1, <2>2 DEF Calm
  <2>3. CASE h = g /\ i \in 1..Len(fallbacks[g])
    BY <1>2, <1>3, <1>6, <2>1, <2>3 DEF Calm
  <2>4. CASE h = g /\ i \notin 1..Len(fallbacks[g])
    <3>1. i = Len(fallbacks[g]) + 1
      BY <1>2, <1>3, <2>1, <2>4
    <3> QED
      BY <1>2, <1>3, <2>4, <3>1
  <2> QED
    BY <2>2, <2>3, <2>4
<1> QED
  BY <1>4, <1>5, <1>6 DEF Locals, Grow

LEMMA Updated ==
  ASSUME SharedType, NEW g \in Gateways, NEW p \in 1..Len(fallbacks[g]), NEW fb \in Fallback,
         fallbacks' = [fallbacks EXCEPT ![g] = [fallbacks[g] EXCEPT ![p] = fb]]
  PROVE  Locals' /\ Grow /\ (Calm /\ fb.pending = <<>> => Calm')
<1> DEFINE new == [fallbacks[g] EXCEPT ![p] = fb]
<1>1. \A h \in Gateways : fallbacks[h] \in Seq(Fallback) /\ fallbacks[h] # <<>>
  BY DEF SharedType, Locals
<1>2. /\ new \in Seq(Fallback) /\ Len(new) = Len(fallbacks[g])
      /\ \A i \in 1..Len(fallbacks[g]) : new[i] = IF i = p THEN fb ELSE fallbacks[g][i]
  BY <1>1, ExceptSeq
<1>3. /\ \A h \in Gateways : fallbacks'[h] = IF h = g THEN new ELSE fallbacks[h]
      /\ fallbacks' = [h \in Gateways |-> fallbacks'[h]]
  BY DEF SharedType, Locals
<1> HIDE DEF new
<1>4. Len(new) > 0 /\ new # <<>>
  BY <1>1, <1>2
<1>5. fallbacks' \in [Gateways -> Seq(Fallback)] /\ \A h \in Gateways : fallbacks'[h] # <<>>
  BY <1>1, <1>2, <1>3, <1>4
<1>6. \A h \in Gateways : Len(fallbacks'[h]) >= Len(fallbacks[h])
  <2> TAKE h \in Gateways
  <2>1. Len(fallbacks[h]) \in Nat
    BY <1>1
  <2> QED
    BY <1>2, <1>3, <2>1
<1>7. ASSUME Calm, fb.pending = <<>> PROVE Calm'
  BY <1>2, <1>3, <1>7 DEF Calm
<1> QED
  BY <1>5, <1>6, <1>7 DEF Locals, Grow

LEMMA FailFacts ==
  ASSUME SharedType, NEW g \in Gateways, NEW failure, Fail(g, failure)
  PROVE  /\ Locals' /\ Grow /\ (Calm => Calm')
         /\ degraded' \in [Gateways -> BOOLEAN] /\ streak' \in [Gateways -> 0..FailStreakToDegrade]
<1>1. /\ degraded \in [Gateways -> BOOLEAN] /\ streak \in [Gateways -> 0..FailStreakToDegrade]
      /\ pausedSeen[g] \in RunPauses /\ FailStreakToDegrade \in Nat
  BY SharedAssumption DEF SharedType, Flags
<1>2. CASE Degrade(g)
  <2>1. fallbacks' = [fallbacks EXCEPT ![g] = Append(@, FreshFallback(pausedSeen[g], TRUE))]
    BY <1>2 DEF Degrade
  <2>2. Locals' /\ Grow /\ (Calm => Calm')
    BY <1>1, <2>1, FreshFacts, Added
  <2> QED
    BY <1>1, <1>2, <2>2 DEF Degrade
<1>3. CASE UNCHANGED <<degraded, streak, fallbacks>>
  BY <1>1, <1>3, Unchanging
<1>4. CASE /\ streak' = [streak EXCEPT ![g] = @ + 1] /\ streak[g] + 1 < FailStreakToDegrade
           /\ UNCHANGED <<degraded, fallbacks>>
  BY <1>1, <1>4, Unchanging
<1>5. streak[g] \in Nat
  BY <1>1
<1> QED
  BY <1>1, <1>2, <1>3, <1>4, <1>5 DEF Fail

LEMMA CallStays ==
  ASSUME SharedType, call' = call, resume' = resume, Grow
  PROVE  Threads'
<1>1. \A g \in Gateways : Len(fallbacks[g]) \in Nat /\ Len(fallbacks'[g]) >= Len(fallbacks[g])
  BY DEF SharedType, Locals, Grow
<1>2. \A c \in Calls : call[c].gw \in Gateways /\ call[c].ptr \in Nat
  BY DEF SharedType, Threads, CallRec
<1>3. \A u \in Resumes : resume[u].gw \in Gateways /\ resume[u].ptr \in Nat
  BY DEF SharedType, Threads, ResumeRec
<1> QED
  BY <1>1, <1>2, <1>3 DEF SharedType, Threads, CallFits, ResumeFits

\* Only call c, or only ask u, moves.
Others(c)    == \A d \in Calls \ {c} : call'[d] = call[d]
OtherAsks(u) == \A v \in Resumes \ {u} : resume'[v] = resume[v]

LEMMA CallMoved ==
  ASSUME SharedType, NEW c \in Calls, call' \in [Calls -> CallRec], Others(c),
         CallFits(call[c])', resume' = resume, Grow
  PROVE  Threads'
<1>1. \A g \in Gateways : Len(fallbacks[g]) \in Nat /\ Len(fallbacks'[g]) >= Len(fallbacks[g])
  BY DEF SharedType, Locals, Grow
<1>2. \A d \in Calls : call[d].gw \in Gateways /\ call[d].ptr \in Nat
  BY DEF SharedType, Threads, CallRec
<1>3. \A u \in Resumes : resume[u].gw \in Gateways /\ resume[u].ptr \in Nat
  BY DEF SharedType, Threads, ResumeRec
<1>4. \A d \in Calls \ {c} : CallFits(call[d])'
  BY <1>1, <1>2 DEF SharedType, Threads, CallFits, Others
<1>5. \A u \in Resumes : ResumeFits(resume[u])'
  BY <1>1, <1>3 DEF SharedType, Threads, ResumeFits
<1>6. resume' \in [Resumes -> ResumeRec]
  BY DEF SharedType, Threads
<1> QED
  BY <1>4, <1>5, <1>6 DEF Threads

LEMMA AskMoved ==
  ASSUME SharedType, NEW u \in Resumes, resume' \in [Resumes -> ResumeRec], OtherAsks(u),
         ResumeFits(resume[u])', call' = call, Grow
  PROVE  Threads'
<1>1. \A g \in Gateways : Len(fallbacks[g]) \in Nat /\ Len(fallbacks'[g]) >= Len(fallbacks[g])
  BY DEF SharedType, Locals, Grow
<1>2. \A d \in Calls : call[d].gw \in Gateways /\ call[d].ptr \in Nat
  BY DEF SharedType, Threads, CallRec
<1>3. \A v \in Resumes : resume[v].gw \in Gateways /\ resume[v].ptr \in Nat
  BY DEF SharedType, Threads, ResumeRec
<1>4. \A d \in Calls : CallFits(call[d])'
  BY <1>1, <1>2 DEF SharedType, Threads, CallFits
<1>5. \A v \in Resumes \ {u} : ResumeFits(resume[v])'
  BY <1>1, <1>3 DEF SharedType, Threads, ResumeFits, OtherAsks
<1>6. call' \in [Calls -> CallRec]
  BY DEF SharedType, Threads
<1> QED
  BY <1>4, <1>5, <1>6 DEF Threads

\* t is s without its first item.
Shifts(s, t) ==
  Len(s) > 0 /\ Len(t) = Len(s) - 1 /\ \A i \in 1..Len(t) : t[i] = s[i + 1]

\* t is s with item behind it, and in lost the first of s when it is dropped.
Pushed(s, t, item) ==
  /\ Len(t) > 0 /\ t[Len(t)] = item
  /\ \/ Len(t) = Len(s) + 1 /\ \A i \in 1..Len(s) : t[i] = s[i]
     \/ /\ Len(s) > 0 /\ Len(t) = Len(s) /\ \A i \in 1..(Len(s) - 1) : t[i] = s[i + 1]
        /\ s[1] \in lost'

LEMMA TailShifts ==
  ASSUME NEW s \in Seq(Owed), s # <<>>
  PROVE  /\ Tail(s) \in Seq(Owed) /\ Shifts(s, Tail(s)) /\ Head(s) = s[1] /\ Head(s) \in Owed
         /\ Len(s) \in Nat /\ Len(Tail(s)) \in Nat
<1>1. Len(s) \in Nat /\ Len(s) > 0 /\ Head(s) = s[1] /\ Head(s) \in Owed /\ Tail(s) \in Seq(Owed)
  OBVIOUS
<1>2. Len(Tail(s)) = Len(s) - 1 /\ \A i \in 1..Len(Tail(s)) : Tail(s)[i] = s[i + 1]
  BY HeadTailProperties
<1> QED
  BY <1>1, <1>2 DEF Shifts

LEMMA PushFacts ==
  ASSUME NEW s \in Seq(Owed), NEW item \in Owed, Len(s) >= MaxOwed => Head(s) \in lost'
  PROVE  Push(s, item) \in Seq(Owed) /\ Pushed(s, Push(s, item), item)
<1>1. MaxOwed > 0 /\ MaxOwed \in Nat /\ Len(s) \in Nat
  BY SharedAssumption
<1>2. CASE Len(s) >= MaxOwed
  <2> DEFINE r == Tail(s)
  <2>1. s # <<>>
    BY <1>1, <1>2
  <2>2. r \in Seq(Owed) /\ Shifts(s, r) /\ s[1] \in lost'
    BY <1>2, <2>1, TailShifts
  <2>3. Push(s, item) = Append(r, item)
    BY <1>2 DEF Push
  <2> HIDE DEF r
  <2>4. /\ Append(r, item) \in Seq(Owed) /\ Len(Append(r, item)) = Len(r) + 1
        /\ Append(r, item)[Len(r) + 1] = item /\ \A i \in 1..Len(r) : Append(r, item)[i] = r[i]
    BY <2>2, AppendProperties
  <2> DEFINE t == Append(r, item)
  <2> HIDE DEF t
  <2>5. /\ t \in Seq(Owed) /\ Len(t) = Len(r) + 1 /\ t[Len(r) + 1] = item
        /\ \A i \in 1..Len(r) : t[i] = r[i]
    BY <2>4 DEF t
  <2>6. Pushed(s, t, item)
    BY <1>1, <2>2, <2>5 DEF Pushed, Shifts
  <2> QED
    BY <2>3, <2>5, <2>6 DEF t
<1>3. CASE ~(Len(s) >= MaxOwed)
  <2> DEFINE t == Append(s, item)
  <2>1. Push(s, item) = t
    BY <1>3 DEF Push
  <2>2. /\ t \in Seq(Owed) /\ Len(t) = Len(s) + 1 /\ t[Len(s) + 1] = item
        /\ \A i \in 1..Len(s) : t[i] = s[i]
    BY AppendProperties
  <2> HIDE DEF t
  <2>3. Pushed(s, t, item)
    BY <1>1, <2>2 DEF Pushed
  <2> QED
    BY <2>1, <2>2, <2>3
<1> QED
  BY <1>2, <1>3

OtherQueues(g) == \A h \in Gateways \ {g} : owed'[h] = owed[h] /\ batch'[h] = batch[h]

LEMMA QueueFacts ==
  ASSUME SharedType, NEW g \in Gateways
  PROVE  /\ owed[g] \in Seq(Owed) /\ batch[g] \in Seq(Owed)
         /\ Len(owed[g]) \in Nat /\ Len(batch[g]) \in Nat
         /\ owed \in [Gateways -> Seq(Owed)] /\ batch \in [Gateways -> Seq(Owed)]
BY DEF SharedType, Queues

LEMMA OweFacts ==
  ASSUME SharedType, NEW g \in Gateways, NEW item \in Owed, Owe(g, item), batch' = batch
  PROVE  /\ Queues' /\ OtherQueues(g) /\ lost' \subseteq Owed /\ lost \subseteq lost'
         /\ Pushed(owed[g], owed'[g], item)
<1>1. owed[g] \in Seq(Owed) /\ owed \in [Gateways -> Seq(Owed)] /\ Len(owed[g]) \in Nat
  BY QueueFacts
<1>2. /\ owed' = [owed EXCEPT ![g] = Push(owed[g], item)]
      /\ lost' = IF Len(owed[g]) >= MaxOwed THEN lost \cup {Head(owed[g])} ELSE lost
  BY <1>1 DEF Owe
<1>3. lost' \subseteq Owed /\ lost \subseteq lost'
  <2>1. Len(owed[g]) >= MaxOwed => owed[g] # <<>>
    BY <1>1, SharedAssumption
  <2>2. lost \subseteq Owed
    BY DEF SharedType, Histories
  <2> QED
    BY <1>1, <1>2, <2>1, <2>2, TailShifts
<1>4. Push(owed[g], item) \in Seq(Owed) /\ Pushed(owed[g], Push(owed[g], item), item)
  BY <1>1, <1>2, PushFacts
<1>5. /\ owed' \in [Gateways -> Seq(Owed)] /\ owed'[g] = Push(owed[g], item)
      /\ \A h \in Gateways \ {g} : owed'[h] = owed[h]
  BY <1>1, <1>2, <1>4
<1>6. batch' \in [Gateways -> Seq(Owed)]
  BY QueueFacts
<1>7. Pushed(owed[g], owed'[g], item)
  BY <1>4, <1>5
<1> QED
  BY <1>3, <1>5, <1>6, <1>7 DEF Queues, OtherQueues

-----------------------------------------------------------------------------
(* The store takes an item. *)

\* A pause the store makes is the last word.
Heard(kind) ==
  \/ lastWord' = "pause"
  \/ lastWord' = lastWord /\ (kind # "p" /\ db.tally.paused = "no" => db'.tally.paused = "no")

LEMMA TakenFacts ==
  ASSUME SharedType, NEW g \in Gateways, NEW item \in Owed, Taken(g, item)
  PROVE  /\ TakesItem(db, db', item.kind, item.call) /\ Heard(item.kind)
         /\ streak' \in [Gateways -> 0..FailStreakToDegrade] /\ pausedSeen' \in [Gateways -> RunPauses]
<1>1. TakesItem(db, db', item.kind, item.call) /\ db' \in StoreRecord
  BY TakeFacts DEF Taken, TakesItem
<1>2. /\ streak \in [Gateways -> 0..FailStreakToDegrade] /\ pausedSeen \in [Gateways -> RunPauses]
      /\ 0 \in 0..FailStreakToDegrade
  BY SharedAssumption DEF SharedType, Flags
<1>3. streak' \in [Gateways -> 0..FailStreakToDegrade]
  BY <1>2 DEF Taken, Answered
<1>4. db'.tally.paused \in RunPauses
  BY <1>1, RecordParts
<1>5. /\ db' = TakeScript(item)
      /\ \/ lastWord' = "pause" /\ pausedSeen' = [pausedSeen EXCEPT ![g] = db'.tally.paused]
         \/ lastWord' = lastWord /\ pausedSeen' = pausedSeen /\ ~(item.kind = "r" /\ Pauses(db.tally, db'.tally))
  BY DEF Taken
<1>6. pausedSeen' \in [Gateways -> RunPauses]
  BY <1>2, <1>4, <1>5
<1>7. Heard(item.kind)
  <2>1. item.kind \in {"r", "l", "p", "u"}
    BY OwedParts
  <2> QED
    BY <1>1, <1>5, <2>1 DEF Heard, Pauses, TakesItem
<1> QED
  BY <1>1, <1>3, <1>6, <1>7

LEMMA FlagsFacts ==
  ASSUME SharedType
  PROVE  /\ degraded \in [Gateways -> BOOLEAN] /\ streak \in [Gateways -> 0..FailStreakToDegrade]
         /\ pausedSeen \in [Gateways -> RunPauses]
         /\ deliverer \in [Gateways -> {"none", "flush", "recover"}]
         /\ flush \in [Gateways -> FlushStates]
         /\ recover \in [Gateways -> RecoverRec]
         /\ faults \in 0..MaxFaults /\ MaxFaults \in Nat /\ 0 \in 0..FailStreakToDegrade
BY SharedAssumption DEF SharedType, Flags

LEMMA FaultFacts ==
  ASSUME SharedType, NEW failure, NEW ran, Fault(failure, ran)
  PROVE  faults' \in 0..MaxFaults
BY FlagsFacts DEF Fault

LEMMA RecoverFacts ==
  ASSUME NEW r \in RecoverRec
  PROVE  /\ \A pc \in RecoverStates : [r EXCEPT !.pc = pc] \in RecoverRec
         /\ \A pass \in 0..WriteBackPasses : [pc |-> "deliver", pass |-> pass] \in RecoverRec
         /\ r.pass \in 0..WriteBackPasses /\ r.pc \in RecoverStates
         /\ WriteBackPasses \in Nat /\ 1 \in 0..WriteBackPasses
BY SharedAssumption DEF RecoverRec, RecoverStates

LEMMA FlagsOfCalls ==
  ASSUME SharedType, NEW c \in Calls, CallMoves(c) \/ CallFails(c) \/ Settle(c) \/ \E g \in Gateways : Begin(c, g)
  PROVE  Flags'
<1>1. call[c].gw \in Gateways /\ call[c].answer \in Answers /\ call[c].kind \in {"r", "l"}
  BY DEF SharedType, Threads, CallRec
<1>2. UNCHANGED <<degraded, streak, pausedSeen, deliverer, flush, recover, faults>> => Flags'
  BY DEF SharedType, Flags
<1>3. ASSUME PickLocal(c) \/ Decide(c) \/ DispatchTake(c) \/ DispatchOwe(c) \/ Apply(c) \/ OweSettlement(c)
      PROVE  Flags'
  BY <1>2, <1>3 DEF PickLocal, Decide, DispatchTake, DispatchOwe, Apply, OweSettlement, storeVars,
     gatewayVars, deliverVars
<1>4. ASSUME NEW g \in Gateways, Begin(c, g) PROVE Flags'
  BY <1>2, <1>4 DEF Begin, storeVars, gatewayVars, deliverVars
<1>5. ASSUME Settle(c) PROVE Flags'
  BY <1>2, <1>5 DEF Settle, SettleLocal, SettleShared, storeVars, gatewayVars, deliverVars
<1>6. ASSUME NEW again \in BOOLEAN, Ask(c, again) PROVE Flags'
  <2>1. faults' \in 0..MaxFaults
    BY <1>6, FlagsFacts DEF Ask
  <2>2. UNCHANGED <<degraded, streak, pausedSeen, deliverer, flush, recover>>
    BY <1>6 DEF Ask, gatewayVars, deliverVars
  <2> QED
    BY <2>1, <2>2 DEF SharedType, Flags
<1>7. ASSUME Process(c) PROVE Flags'
  <2> DEFINE seen == IF call[c].answer.code \notin {"no", "dup"} THEN call[c].answer.code
                     ELSE IF call[c].answer.ok /\ call[c].answer.code = "no" /\ Mode(c) # "bypass" THEN "no"
                     ELSE pausedSeen[call[c].gw]
  <2>1. seen \in RunPauses
    BY <1>1, FlagsFacts DEF Answers, RunPauses
  <2>2. pausedSeen' = [pausedSeen EXCEPT ![call[c].gw] = seen]
    BY <1>7 DEF Process
  <2> HIDE DEF seen
  <2>3. pausedSeen' \in [Gateways -> RunPauses]
    BY <2>1, <2>2, FlagsFacts
  <2>4. streak' \in [Gateways -> 0..FailStreakToDegrade]
    BY <1>7, FlagsFacts DEF Process, Answered
  <2>5. UNCHANGED <<degraded, deliverer, flush, recover, faults>>
    BY <1>7 DEF Process, storeVars, deliverVars
  <2> QED
    BY <2>3, <2>4, <2>5 DEF SharedType, Flags
<1>8. ASSUME Take(c) PROVE Flags'
  <2>1. Taken(call[c].gw, Settlement(call[c].kind, c)) /\ Settlement(call[c].kind, c) \in Owed
    BY <1>1, <1>8, OwedParts DEF Take
  <2>2. UNCHANGED <<degraded, deliverer, flush, recover, faults>>
    BY <1>8 DEF Take, deliverVars
  <2>3. streak' \in [Gateways -> 0..FailStreakToDegrade] /\ pausedSeen' \in [Gateways -> RunPauses]
    BY <1>1, <2>1, TakenFacts
  <2> QED
    BY <2>2, <2>3 DEF SharedType, Flags
<1>9. ASSUME NEW failure \in Failures, NEW ran \in BOOLEAN, AskFails(c, failure, ran) \/ TakeFails(c, failure, ran)
      PROVE  Flags'
  <2>1. Fault(failure, ran) /\ UNCHANGED <<degraded, streak, pausedSeen, deliverer, flush, recover>>
    BY <1>9 DEF AskFails, TakeFails, gatewayVars, deliverVars
  <2>2. faults' \in 0..MaxFaults
    BY <2>1, FaultFacts
  <2> QED
    BY <2>1, <2>2 DEF SharedType, Flags
<1>10. ASSUME AskFailed(c) \/ TakeFailed(c) PROVE Flags'
  <2>1. Fail(call[c].gw, call[c].failure) /\ UNCHANGED <<pausedSeen, deliverer, flush, recover, faults>>
    BY <1>10 DEF AskFailed, TakeFailed, storeVars, deliverVars
  <2>2. degraded' \in [Gateways -> BOOLEAN] /\ streak' \in [Gateways -> 0..FailStreakToDegrade]
    BY <1>1, <2>1, FailFacts
  <2> QED
    BY <2>1, <2>2 DEF SharedType, Flags
<1> QED
  BY <1>3, <1>4, <1>5, <1>6, <1>7, <1>8, <1>9, <1>10 DEF CallMoves, CallFails

LEMMA FlagsOfResumes ==
  ASSUME SharedType, NEW u \in Resumes,
         \/ ResumeMoves(u) \/ \E g \in Gateways : ResumeBegin(u, g)
         \/ \E failure \in Failures, ran \in BOOLEAN : ResumeFails(u, failure, ran)
  PROVE  Flags'
<1>1. resume[u].gw \in Gateways
  BY DEF SharedType, Threads, ResumeRec
<1>2. ASSUME ResumeLocal(u) \/ OweResume(u) PROVE Flags'
  <2>1. UNCHANGED <<degraded, streak, pausedSeen, deliverer, flush, recover, faults>>
    BY <1>2 DEF ResumeLocal, OweResume, storeVars, deliverVars
  <2> QED
    BY <2>1 DEF SharedType, Flags
<1>3. ASSUME ResumeAsk(u) PROVE Flags'
  <2>1. streak' \in [Gateways -> 0..FailStreakToDegrade]
    BY <1>3, FlagsFacts DEF ResumeAsk, Answered
  <2>2. UNCHANGED <<degraded, pausedSeen, deliverer, flush, recover, faults>>
    BY <1>3 DEF ResumeAsk, deliverVars
  <2> QED
    BY <2>1, <2>2 DEF SharedType, Flags
<1>4. ASSUME NEW g \in Gateways, ResumeBegin(u, g) PROVE Flags'
  <2>1. pausedSeen' \in [Gateways -> RunPauses]
    BY <1>4, FlagsFacts DEF ResumeBegin, RunPauses
  <2>2. UNCHANGED <<degraded, streak, deliverer, flush, recover, faults>>
    BY <1>4 DEF ResumeBegin, storeVars, deliverVars
  <2> QED
    BY <2>1, <2>2 DEF SharedType, Flags
<1>5. ASSUME NEW failure \in Failures, NEW ran \in BOOLEAN, ResumeFails(u, failure, ran) PROVE Flags'
  <2>1. Fault(failure, ran) /\ UNCHANGED <<degraded, streak, pausedSeen, deliverer, flush, recover>>
    BY <1>5 DEF ResumeFails, gatewayVars, deliverVars
  <2>2. faults' \in 0..MaxFaults
    BY <2>1, FaultFacts
  <2> QED
    BY <2>1, <2>2 DEF SharedType, Flags
<1>6. ASSUME ResumeFailed(u) PROVE Flags'
  <2>1. Fail(resume[u].gw, resume[u].failure) /\ UNCHANGED <<pausedSeen, deliverer, flush, recover, faults>>
    BY <1>6 DEF ResumeFailed, storeVars, deliverVars
  <2>2. degraded' \in [Gateways -> BOOLEAN] /\ streak' \in [Gateways -> 0..FailStreakToDegrade]
    BY <1>1, <2>1, FailFacts
  <2> QED
    BY <2>1, <2>2 DEF SharedType, Flags
<1> QED
  BY <1>2, <1>3, <1>4, <1>5, <1>6 DEF ResumeMoves

LEMMA DegradeFacts ==
  ASSUME SharedType, NEW g \in Gateways, Degrade(g)
  PROVE  /\ Locals' /\ Grow /\ (Calm => Calm')
         /\ degraded' \in [Gateways -> BOOLEAN] /\ streak' \in [Gateways -> 0..FailStreakToDegrade]
<1>1. fallbacks' = [fallbacks EXCEPT ![g] = Append(@, FreshFallback(pausedSeen[g], TRUE))]
  BY DEF Degrade
<1>2. pausedSeen[g] \in RunPauses
  BY FlagsFacts
<1>3. Locals' /\ Grow /\ (Calm => Calm')
  BY <1>1, <1>2, FreshFacts, Added
<1> QED
  BY <1>3, FlagsFacts DEF Degrade

\* What the end of a delivery that failed does to the gap, on whoever's behalf
\* it ran.
LEMMA EndFacts ==
  ASSUME SharedType, NEW g \in Gateways, FlushFailed(g) \/ RecoverReopens(g)
  PROVE  /\ Locals' /\ Grow /\ (Calm => Calm')
         /\ degraded' \in [Gateways -> BOOLEAN] /\ streak' \in [Gateways -> 0..FailStreakToDegrade]
<1>1. CASE Fail(g, flush[g])
  BY <1>1, FailFacts
<1>2. CASE Degrade(g)
  BY <1>2, DegradeFacts
<1>3. CASE UNCHANGED <<degraded, streak, fallbacks>>
  BY <1>3, FlagsFacts, Unchanging
<1> QED
  BY <1>1, <1>2, <1>3 DEF FlushFailed, RecoverReopens

LEMMA FlagsOfGateways ==
  ASSUME SharedType, NEW g \in Gateways, GatewayMoves(g) \/ GatewayFails(g)
  PROVE  Flags'
<1>1. recover[g] \in RecoverRec /\ recover \in [Gateways -> RecoverRec]
  BY FlagsFacts
<1>2. ASSUME NEW r \in RecoverRec, recover' = [recover EXCEPT ![g] = r]
      PROVE  recover' \in [Gateways -> RecoverRec]
  BY <1>1, <1>2
<1>3. ASSUME NEW pc \in RecoverStates, recover' = [recover EXCEPT ![g].pc = pc]
      PROVE  recover' \in [Gateways -> RecoverRec]
  <2>1. recover' = [recover EXCEPT ![g] = [recover[g] EXCEPT !.pc = pc]]
    BY <1>1, <1>3
  <2>2. [recover[g] EXCEPT !.pc = pc] \in RecoverRec
    BY <1>1, RecoverFacts
  <2> QED
    BY <1>1, <2>1, <2>2
<1>4. ASSUME NEW who \in {"flush", "recover"}, DeliverLock(g, who) PROVE Flags'
  <2>1. deliverer' \in [Gateways -> {"none", "flush", "recover"}]
    BY <1>4, FlagsFacts DEF DeliverLock
  <2>2. UNCHANGED <<degraded, streak, pausedSeen, flush, recover, faults>>
    BY <1>4 DEF DeliverLock, storeVars, gatewayVars
  <2> QED
    BY <2>1, <2>2 DEF SharedType, Flags
<1>5. ASSUME DeliverBatch(g) PROVE Flags'
  BY <1>5 DEF DeliverBatch, storeVars, SharedType, Flags
<1>6. ASSUME DeliverTake(g) PROVE Flags'
  <2>1. batch[g] # <<>> /\ Taken(g, Head(batch[g])) /\ UNCHANGED <<degraded, deliverer, flush, recover, faults>>
    BY <1>6 DEF DeliverTake, AtItem
  <2>2. Head(batch[g]) \in Owed
    BY <2>1, QueueFacts, TailShifts
  <2>3. streak' \in [Gateways -> 0..FailStreakToDegrade] /\ pausedSeen' \in [Gateways -> RunPauses]
    BY <2>1, <2>2, TakenFacts
  <2> QED
    BY <2>1, <2>3 DEF SharedType, Flags
<1>7. ASSUME DeliverRefused(g) PROVE Flags'
  <2>1. faults' \in 0..MaxFaults
    BY <1>7, FaultFacts DEF DeliverRefused
  <2>2. UNCHANGED <<degraded, streak, pausedSeen, deliverer, flush, recover>>
    BY <1>7 DEF DeliverRefused, gatewayVars
  <2> QED
    BY <2>1, <2>2 DEF SharedType, Flags
<1>8. ASSUME NEW failure \in Failures, NEW ran \in BOOLEAN, DeliverFails(g, failure, ran) PROVE Flags'
  <2>1. faults' \in 0..MaxFaults
    BY <1>8, FaultFacts DEF DeliverFails
  <2>2. flush' \in [Gateways -> FlushStates]
    BY <1>8, FlagsFacts DEF DeliverFails, FlushStates
  <2>3. recover' \in [Gateways -> RecoverRec]
    <3>1. \/ recover' = recover
          \/ recover' = [recover EXCEPT ![g].pc = IF recover[g].pc = "last" THEN "reopen" ELSE "stop"]
      BY <1>1, <1>8 DEF DeliverFails
    <3>2. "reopen" \in RecoverStates /\ "stop" \in RecoverStates
      BY DEF RecoverStates
    <3> QED
      BY <1>1, <1>3, <3>1, <3>2
  <2>4. UNCHANGED <<degraded, streak, pausedSeen, deliverer>>
    BY <1>8 DEF DeliverFails, gatewayVars
  <2> QED
    BY <2>1, <2>2, <2>3, <2>4 DEF SharedType, Flags
<1>9. ASSUME DeliverDone(g) PROVE Flags'
  <2>1. deliverer' \in [Gateways -> {"none", "flush", "recover"}] /\ flush' \in [Gateways -> FlushStates]
    BY <1>9, FlagsFacts DEF DeliverDone, FlushStates
  <2>2. recover' \in [Gateways -> RecoverRec]
    <3>1. \/ recover' = recover
          \/ recover' = [recover EXCEPT ![g].pc = IF recover[g].pc = "last" THEN "idle" ELSE "check"]
      BY <1>1, <1>9 DEF DeliverDone
    <3>2. "idle" \in RecoverStates /\ "check" \in RecoverStates
      BY DEF RecoverStates
    <3> QED
      BY <1>1, <1>3, <3>1, <3>2
  <2>3. UNCHANGED <<degraded, streak, pausedSeen, faults>>
    BY <1>9 DEF DeliverDone, storeVars, gatewayVars
  <2> QED
    BY <2>1, <2>2, <2>3 DEF SharedType, Flags
<1>10. ASSUME FlushBegin(g) PROVE Flags'
  <2>1. flush' \in [Gateways -> FlushStates]
    BY <1>10, FlagsFacts DEF FlushBegin, FlushStates
  <2>2. UNCHANGED <<degraded, streak, pausedSeen, faults, deliverer, recover>>
    BY <1>10 DEF FlushBegin, storeVars, gatewayVars
  <2> QED
    BY <2>1, <2>2 DEF SharedType, Flags
<1>11. ASSUME RecoverBegin(g) \/ RecoverCheck(g) PROVE Flags'
  <2>1. UNCHANGED <<degraded, streak, pausedSeen, faults, deliverer, flush>>
    BY <1>11 DEF RecoverBegin, RecoverCheck, storeVars, gatewayVars
  <2>2. CASE RecoverBegin(g)
    <3>1. [pc |-> "deliver", pass |-> 1] \in RecoverRec
      BY <1>1, RecoverFacts
    <3>2. recover' \in [Gateways -> RecoverRec]
      BY <1>2, <2>2, <3>1 DEF RecoverBegin
    <3> QED
      BY <2>1, <3>2 DEF SharedType, Flags
  <2>3. CASE RecoverCheck(g)
    <3>1. [recover[g] EXCEPT !.pc = "swap"] \in RecoverRec
      BY <1>1, RecoverFacts DEF RecoverStates
    <3>2. recover[g].pass < WriteBackPasses => [pc |-> "deliver", pass |-> recover[g].pass + 1] \in RecoverRec
      <4>1. recover[g].pass \in 0..WriteBackPasses /\ WriteBackPasses \in Nat
        BY <1>1, SharedAssumption DEF RecoverRec
      <4>2. recover[g].pass < WriteBackPasses => recover[g].pass + 1 \in 0..WriteBackPasses
        BY <4>1
      <4> QED
        BY <4>2 DEF RecoverRec, RecoverStates
    <3>3. recover[g].pass \in Nat /\ WriteBackPasses \in Nat
      BY <1>1, SharedAssumption DEF RecoverRec
    <3>4. \/ recover' = [recover EXCEPT ![g] = [recover[g] EXCEPT !.pc = "swap"]]
          \/ /\ ~(recover[g].pass >= WriteBackPasses)
             /\ recover' = [recover EXCEPT ![g] = [pc |-> "deliver", pass |-> recover[g].pass + 1]]
      BY <1>1, <2>3 DEF RecoverCheck
    <3>5. recover' \in [Gateways -> RecoverRec]
      BY <1>2, <3>1, <3>2, <3>3, <3>4
    <3> QED
      BY <2>1, <3>5 DEF SharedType, Flags
  <2> QED
    BY <1>11, <2>2, <2>3
<1>12. ASSUME RecoverSwap(g) PROVE Flags'
  <2>1. degraded' \in [Gateways -> BOOLEAN] /\ streak' \in [Gateways -> 0..FailStreakToDegrade]
    BY <1>12, FlagsFacts DEF RecoverSwap
  <2>2. recover' \in [Gateways -> RecoverRec]
    BY <1>3, <1>12 DEF RecoverSwap, RecoverStates
  <2>3. UNCHANGED <<pausedSeen, deliverer, flush, faults>>
    BY <1>12 DEF RecoverSwap, storeVars
  <2> QED
    BY <2>1, <2>2, <2>3 DEF SharedType, Flags
<1>13. ASSUME RecoverFails(g) PROVE Flags'
  <2>1. faults' \in 0..MaxFaults /\ recover' \in [Gateways -> RecoverRec]
    BY <1>3, <1>13, FaultFacts DEF RecoverFails, RecoverStates
  <2>2. UNCHANGED <<degraded, streak, pausedSeen, deliverer, flush>>
    BY <1>13 DEF RecoverFails, gatewayVars
  <2> QED
    BY <2>1, <2>2 DEF SharedType, Flags
<1>14. ASSUME DeliverStops(g) PROVE Flags'
  <2>1. deliverer' \in [Gateways -> {"none", "flush", "recover"}]
    BY <1>14, FlagsFacts DEF DeliverStops
  <2>2. recover' \in [Gateways -> RecoverRec]
    <3>1. recover' = recover \/ recover' = [recover EXCEPT ![g].pc = "idle"]
      BY <1>14 DEF DeliverStops
    <3> QED
      BY <1>1, <1>3, <3>1 DEF RecoverStates
  <2>3. UNCHANGED <<degraded, streak, pausedSeen, flush, faults>>
    BY <1>14 DEF DeliverStops, storeVars
  <2> QED
    BY <2>1, <2>2, <2>3 DEF SharedType, Flags
<1>15. ASSUME FlushFailed(g) \/ RecoverReopens(g) PROVE Flags'
  <2>1. degraded' \in [Gateways -> BOOLEAN] /\ streak' \in [Gateways -> 0..FailStreakToDegrade]
    BY <1>15, EndFacts
  <2>2. flush' \in [Gateways -> FlushStates]
    BY <1>15, FlagsFacts DEF FlushFailed, RecoverReopens, FlushStates
  <2>3. recover' \in [Gateways -> RecoverRec]
    <3>1. recover' = recover \/ recover' = [recover EXCEPT ![g].pc = "idle"]
      BY <1>15 DEF FlushFailed, RecoverReopens
    <3> QED
      BY <1>1, <1>3, <3>1 DEF RecoverStates
  <2>4. UNCHANGED <<pausedSeen, deliverer, faults>>
    BY <1>15 DEF FlushFailed, RecoverReopens, storeVars
  <2> QED
    BY <2>1, <2>2, <2>3, <2>4 DEF SharedType, Flags
<1> QED
  BY <1>4, <1>5, <1>6, <1>7, <1>8, <1>9, <1>10, <1>11, <1>12, <1>13, <1>14, <1>15 DEF GatewayMoves, GatewayFails

-----------------------------------------------------------------------------
(* What a step does, to the record, the queues, the threads and the words.  *)

\* Call c goes on by itself, with neither the store nor a queue.
Walks(c) ==
  /\ Others(c) /\ UNCHANGED <<db, owed, batch, resume, lost, raced>>
  /\ call[c].pc \notin Sending \cup {"owing"} /\ call'[c].pc # "answered"
  /\ call'[c].pc \in Through /\ call'[c].where = "shared" =>
       \/ call[c].pc = "answered" /\ call[c].answer.ok
       \/ call[c].pc = "out" /\ call[c].where = "shared"
  /\ call'[c].pc = "done" => call'[c].where = "local"
  /\ \/ lastWord' = "pause"
     \/ lastWord' = lastWord /\ (Calm => Calm' /\ call'[c].pc # "owing")

\* The store is asked about call c; the answer comes, or is lost.
Enquires(c) ==
  /\ Others(c) /\ UNCHANGED <<owed, batch, resume, lost, raced>> /\ (Calm => Calm')
  /\ call[c].pc = "asking" /\ call'[c].pc \in {"answered", "askFailed"}
  /\ \E a : AdmitsCall(db, db', c, a, Mode(c)) /\ (call'[c].pc = "answered" => call'[c].answer = a)
  /\ lastWord' = Word(db.tally, db'.tally)

\* Call c owes a pause that the fallback made.
OwesPause(c) ==
  /\ Others(c) /\ UNCHANGED <<db, batch, resume, fallbacks, lastWord, raced>>
  /\ call[c].pc = "owing" /\ call'[c].pc \in {"owing", "out", "refused", "done"}
  /\ call'[c].where = "local" /\ lost \subseteq lost'
  /\ \E g \in Gateways : \E item \in Owed :
       item.kind = "p" /\ OtherQueues(g) /\ Pushed(owed[g], owed'[g], item)

SameCall(c) ==
  call'[c].where = call[c].where /\ call'[c].kind = call[c].kind /\ call'[c].gw = call[c].gw

\* Call c owes its settlement.
OwesCall(c) ==
  /\ Others(c) /\ UNCHANGED <<db, batch, resume, fallbacks, lastWord, raced>>
  /\ call[c].pc = "oweing" /\ call'[c].pc = "done" /\ SameCall(c) /\ lost \subseteq lost'
  /\ call[c].where = "shared" /\ call[c].kind \in {"r", "l"} /\ call[c].gw \in Gateways
  /\ OtherQueues(call[c].gw)
  /\ Pushed(owed[call[c].gw], owed'[call[c].gw], Settlement(call[c].kind, c))

\* Call c settles with the store: it lands, or fails, or that is said, and it
\* is refused or has yet to be owed.
Pays(c) ==
  /\ Others(c) /\ UNCHANGED <<owed, batch, resume, raced>> /\ (Calm => Calm')
  /\ call[c].pc \in {"settling", "takeFailed"}
  /\ call'[c].pc \in {"takeFailed", "oweing", "done"} /\ SameCall(c)
  /\ call[c].where = "shared" /\ call[c].kind \in {"r", "l"}
  /\ \/ /\ call[c].pc = "settling" /\ lost' = lost
        /\ TakesItem(db, db', call[c].kind, c) /\ Heard(call[c].kind)
     \/ db' = db /\ lastWord' = lastWord /\ call'[c].pc # "done" /\ lost' = lost
     \/ /\ db' = db /\ lastWord' = lastWord
        /\ lost' = lost \cup {Settlement(call[c].kind, c)}

LEMMA WalkTypes ==
  ASSUME SharedType, NEW c \in Calls, Flags', Locals', Grow,
         UNCHANGED <<db, owed, batch, resume, lost, raced>>, lastWord' \in {"pause", lastWord},
         call' \in [Calls -> CallRec], Others(c), CallFits(call[c])'
  PROVE  SharedType'
<1>1. Threads'
  BY CallMoved
<1>2. Queues'
  BY DEF SharedType, Queues
<1>3. Histories'
  BY DEF SharedType, Histories
<1>4. (db \in StoreRecord)'
  BY DEF SharedType
<1> QED
  BY <1>1, <1>2, <1>3, <1>4 DEF SharedType

LEMMA CallFacts ==
  ASSUME SharedType, NEW c \in Calls
  PROVE  /\ call[c] \in CallRec /\ call \in [Calls -> CallRec] /\ CallFits(call[c])
         /\ call[c].gw \in Gateways /\ call[c].ptr \in Nat /\ call[c].kind \in {"r", "l"}
         /\ call[c].answer \in Answers /\ call[c].evs \in Seq(RunPauses) /\ call[c].cost \in Nat
         /\ call[c].next \in {"out", "refused", "done"} /\ call[c].pc \in CallStates
         /\ \A g \in Gateways : Len(fallbacks[g]) \in Nat \ {0} /\ fallbacks[g] \in Seq(Fallback)
<1>1. call[c] \in CallRec /\ call \in [Calls -> CallRec] /\ CallFits(call[c])
  BY DEF SharedType, Threads
<1>2. \A g \in Gateways : Len(fallbacks[g]) \in Nat \ {0} /\ fallbacks[g] \in Seq(Fallback)
  BY EmptySeq DEF SharedType, Locals
<1> QED
  BY <1>1, <1>2 DEF CallRec

LEMMA BeginStep ==
  ASSUME SharedType, NEW c \in Calls, NEW g \in Gateways, Begin(c, g)
  PROVE  SharedType' /\ Walks(c)
<1>0. call[c] \in CallRec /\ call \in [Calls -> CallRec] /\ call[c].gw \in Gateways
  BY CallFacts
<1>1. Flags'
  BY FlagsOfCalls
<1>2. UNCHANGED <<db, owed, batch, resume, lost, raced, lastWord, fallbacks>> /\ call[c].pc = "idle"
  BY DEF Begin, storeVars, gatewayVars, deliverVars, history
<1>3. Locals' /\ Grow /\ (Calm => Calm')
  BY <1>2, Unchanging
<1>4. Local(g) \in Nat /\ Local(g) > 0
  BY CallFacts DEF Local
<1>5. /\ call' \in [Calls -> CallRec] /\ Others(c)
      /\ call'[c].gw = g /\ call'[c].ptr = Local(g) /\ call'[c].pc \in {"deciding", "asking"}
  BY <1>0, <1>4 DEF Begin, Others, CallRec, CallStates
<1>6. CallFits(call[c])'
  BY <1>2, <1>4, <1>5 DEF CallFits, Local
<1>7. SharedType'
  BY <1>1, <1>2, <1>3, <1>5, <1>6, WalkTypes
<1>8. Walks(c)
  BY <1>2, <1>3, <1>5 DEF Walks, Through, Sending
<1> QED
  BY <1>7, <1>8

LEMMA ProcessStep ==
  ASSUME SharedType, NEW c \in Calls, Process(c)
  PROVE  SharedType' /\ Walks(c)
<1>0. call[c] \in CallRec /\ call \in [Calls -> CallRec] /\ call[c].gw \in Gateways
  BY CallFacts
<1>1. Flags'
  BY FlagsOfCalls DEF CallMoves
<1>2. UNCHANGED <<db, owed, batch, resume, lost, raced, lastWord, fallbacks>> /\ call[c].pc = "answered"
  BY DEF Process, storeVars, deliverVars, history
<1>3. Locals' /\ Grow /\ (Calm => Calm')
  BY <1>2, Unchanging
<1>5. /\ call' \in [Calls -> CallRec] /\ Others(c)
      /\ call'[c].gw = call[c].gw /\ call'[c].ptr = call[c].ptr
      /\ call'[c].pc = IF call[c].answer.ok THEN "out" ELSE "refused"
  BY <1>0 DEF Process, Others, CallRec, CallStates
<1>6. CallFits(call[c])'
  BY <1>2, <1>5, CallFacts DEF CallFits
<1>7. SharedType'
  BY <1>1, <1>2, <1>3, <1>5, <1>6, WalkTypes
<1>8. Walks(c)
  BY <1>2, <1>3, <1>5 DEF Walks, Through, Sending
<1> QED
  BY <1>7, <1>8

LEMMA PickLocalStep ==
  ASSUME SharedType, NEW c \in Calls, PickLocal(c)
  PROVE  SharedType' /\ Walks(c)
<1>0. call[c] \in CallRec /\ call \in [Calls -> CallRec] /\ call[c].gw \in Gateways
  BY CallFacts
<1>1. Flags'
  BY FlagsOfCalls DEF CallMoves
<1>2. UNCHANGED <<db, owed, batch, resume, lost, raced, lastWord, fallbacks>> /\ call[c].pc = "failed"
  BY DEF PickLocal, storeVars, gatewayVars, deliverVars, history
<1>3. Locals' /\ Grow /\ (Calm => Calm')
  BY <1>2, Unchanging
<1>4. Local(call[c].gw) \in Nat /\ Local(call[c].gw) > 0
  BY CallFacts DEF Local
<1>5. /\ call' \in [Calls -> CallRec] /\ Others(c)
      /\ call'[c].gw = call[c].gw /\ call'[c].ptr = Local(call[c].gw) /\ call'[c].pc = "deciding"
  BY <1>0, <1>4 DEF PickLocal, Others, CallRec, CallStates
<1>6. CallFits(call[c])'
  BY <1>2, <1>4, <1>5 DEF CallFits, Local
<1>7. SharedType'
  BY <1>1, <1>2, <1>3, <1>5, <1>6, WalkTypes
<1>8. Walks(c)
  BY <1>2, <1>3, <1>5 DEF Walks, Through, Sending
<1> QED
  BY <1>7, <1>8

LEMMA SettleStep ==
  ASSUME SharedType, NEW c \in Calls, Settle(c)
  PROVE  SharedType' /\ Walks(c)
<1>0. call[c] \in CallRec /\ call \in [Calls -> CallRec] /\ call[c].gw \in Gateways
  BY CallFacts
<1>1. Flags'
  BY FlagsOfCalls
<1>2. PICK kind \in {"r", "l"}, cost \in Costs, loop \in {FALSE, PauseOnSuspectedLoop} :
        SettleLocal(c, kind, cost, loop) \/ SettleShared(c, kind, cost, loop)
  BY DEF Settle
<1>3. UNCHANGED <<db, owed, batch, resume, lost, raced, lastWord, fallbacks>> /\ call[c].pc = "out"
  BY <1>2 DEF SettleLocal, SettleShared, storeVars, gatewayVars, deliverVars, history
<1>4. Locals' /\ Grow /\ (Calm => Calm')
  BY <1>3, Unchanging
<1>8. Local(call[c].gw) \in Nat /\ Local(call[c].gw) > 0
  BY CallFacts DEF Local
<1>9. cost \in Nat
  BY SharedAssumption
<1>10. loop \in BOOLEAN
  BY PolicyAssumption
<1>5. Local(call[c].gw) \in Nat /\ Local(call[c].gw) > 0 /\ cost \in Nat /\ loop \in BOOLEAN
  BY <1>8, <1>9, <1>10
<1>6. CASE SettleLocal(c, kind, cost, loop)
  <2>1. /\ call' \in [Calls -> CallRec] /\ Others(c)
        /\ call'[c].gw = call[c].gw /\ call'[c].ptr = Local(call[c].gw) /\ call'[c].pc = "applying"
        /\ call'[c].where = "local"
    BY <1>0, <1>5, <1>6 DEF SettleLocal, Others, CallRec, CallStates
  <2>2. CallFits(call[c])'
    BY <1>3, <1>5, <2>1 DEF CallFits, Local
  <2>3. SharedType'
    BY <1>1, <1>3, <1>4, <2>1, <2>2, WalkTypes
  <2>4. Walks(c)
    BY <1>3, <1>4, <2>1 DEF Walks, Through, Sending
  <2> QED
    BY <2>3, <2>4
<1>7. CASE SettleShared(c, kind, cost, loop)
  <2>1. /\ call' \in [Calls -> CallRec] /\ Others(c)
        /\ call'[c].gw = call[c].gw /\ call'[c].ptr = call[c].ptr /\ call'[c].pc \in {"oweing", "settling"}
        /\ call'[c].where = "shared" /\ call[c].where = "shared"
    BY <1>0, <1>5, <1>7 DEF SettleShared, Others, CallRec, CallStates
  <2>2. CallFits(call[c])'
    BY <1>3, <1>5, <2>1, CallFacts DEF CallFits
  <2>3. SharedType'
    BY <1>1, <1>3, <1>4, <2>1, <2>2, WalkTypes
  <2>4. Walks(c)
    BY <1>3, <1>4, <2>1 DEF Walks, Through, Sending
  <2> QED
    BY <2>3, <2>4
<1> QED
  BY <1>2, <1>6, <1>7

LEMMA HeldFallback ==
  ASSUME SharedType, NEW c \in Calls, call[c].pc \in {"deciding", "dispatching", "applying"}
  PROVE  /\ call[c].gw \in Gateways /\ call[c].ptr \in 1..Len(fallbacks[call[c].gw])
         /\ fallbacks[call[c].gw][call[c].ptr] \in Fallback
         /\ fallbacks \in [Gateways -> Seq(Fallback)]
<1>1. /\ call[c].gw \in Gateways /\ call[c].ptr \in Nat /\ CallFits(call[c])
      /\ fallbacks[call[c].gw] \in Seq(Fallback)
  BY CallFacts
<1>2. call[c].ptr <= Len(fallbacks[call[c].gw]) /\ call[c].ptr > 0
  BY <1>1 DEF CallFits
<1>3. call[c].ptr \in 1..Len(fallbacks[call[c].gw])
  BY <1>1, <1>2
<1> QED
  BY <1>1, <1>3 DEF SharedType, Locals

LEMMA DecideStep ==
  ASSUME SharedType, NEW c \in Calls, Decide(c)
  PROVE  SharedType' /\ Walks(c)
<1> DEFINE g   == call[c].gw
           p   == call[c].ptr
           fb  == fallbacks[g][p]
           st  == SeenRun(fb.st, 1)
           hit == IF st.paused # "no" \/ Mode(c) = "bypass" THEN "no" ELSE RunCap(st)
           new == [st EXCEPT !.paused = IF hit = "no" THEN @ ELSE hit]
           ok  == Mode(c) # "decide" \/ new.paused = "no"
           put == IF ok THEN [new EXCEPT !.inflight = @ + 1] ELSE new
           q   == IF fb.gap /\ hit # "no" THEN Append(fb.pending, hit) ELSE fb.pending
           set == [fb EXCEPT !.st = put, !.pending = q]
<1>0. call[c] \in CallRec /\ call \in [Calls -> CallRec] /\ call[c].pc = "deciding"
  BY CallFacts DEF Decide
<1>1. Flags'
  BY FlagsOfCalls DEF CallMoves
<1>2. /\ UNCHANGED <<db, owed, batch, resume, lost, raced>>
      /\ lastWord' = IF fb.gap /\ hit # "no" THEN "pause" ELSE lastWord
      /\ fallbacks' = [fallbacks EXCEPT ![g][p] = set]
  BY DEF Decide, storeVars, deliverVars
<1>3. g \in Gateways /\ p \in 1..Len(fallbacks[g]) /\ fb \in Fallback /\ fallbacks \in [Gateways -> Seq(Fallback)]
  BY <1>0, HeldFallback
<1>4. fb.st \in RunState /\ fb.pending \in Seq(RunPauses)
  BY <1>3 DEF Fallback
<1>5. st \in RunState
  <2> HIDE DEF fb
  <2> QED
    BY <1>4 DEF SeenRun, RunState
<1>6. hit \in RunPauses
  <2> HIDE DEF st
  <2> QED
    BY CapsNamePauses DEF RunPauses
<1>7. new \in RunState
  <2> HIDE DEF st, hit
  <2> QED
    BY <1>5, <1>6 DEF RunState
<1>8. put \in RunState
  <2> HIDE DEF new, ok
  <2> QED
    BY <1>7 DEF RunState
<1>9. q \in Seq(RunPauses) /\ (q = fb.pending \/ lastWord' = "pause")
  <2> HIDE DEF fb, hit
  <2> QED
    BY <1>2, <1>4, <1>6
<1>10. set \in Fallback /\ set.pending = q
  <2> HIDE DEF fb, put, q
  <2> QED
    BY <1>3, <1>8, <1>9 DEF Fallback
<1>11. Locals' /\ Grow /\ (Calm /\ set.pending = <<>> => Calm')
  <2>1. fallbacks' = [fallbacks EXCEPT ![g] = [fallbacks[g] EXCEPT ![p] = set]]
    <3> HIDE DEF set, g, p
    <3> QED
      BY <1>2, <1>3
  <2> HIDE DEF set, g, p
  <2> QED
    BY <1>3, <1>10, <2>1, Updated
<1>12. /\ call' \in [Calls -> CallRec] /\ Others(c) /\ call'[c].gw = g /\ call'[c].ptr = p
       /\ call'[c].pc = "dispatching" /\ call'[c].where = "local"
  <2>1. PICK to \in {"out", "refused"} :
          call' = [call EXCEPT ![c].pc = "dispatching", ![c].where = "local", ![c].next = to]
    <3> HIDE DEF ok
    <3> QED
      BY DEF Decide, ok, new, hit, st, fb, p, g
  <2> QED
    BY <1>0, <2>1 DEF Others, CallRec, CallStates
<1>13. CallFits(call[c])'
  BY <1>3, <1>11, <1>12 DEF CallFits, Grow
<1>14. SharedType'
  BY <1>1, <1>2, <1>11, <1>12, <1>13, WalkTypes
<1>15. Calm => fb.pending = <<>>
  BY <1>3 DEF Calm
<1>16. lastWord' = "pause" \/ (lastWord' = lastWord /\ (Calm => Calm'))
  <2>1. lastWord' \in {"pause", lastWord}
    <3> HIDE DEF fb, hit
    <3> QED
      BY <1>2
  <2>2. ASSUME q = fb.pending, Calm PROVE Calm'
    <3>1. q = <<>>
      <4> HIDE DEF fb, q
      <4> QED
        BY <2>2, <1>15
    <3>2. set.pending = <<>>
      <4> HIDE DEF set, q
      <4> QED
        BY <3>1, <1>10
    <3> HIDE DEF set
    <3> QED
      BY <2>2, <3>2, <1>11
  <2> HIDE DEF fb, q
  <2> QED
    BY <2>1, <2>2, <1>9
<1>17. Walks(c)
  BY <1>0, <1>2, <1>12, <1>16 DEF Walks, Through, Sending
<1> QED
  BY <1>14, <1>17

LEMMA DispatchTakeStep ==
  ASSUME SharedType, NEW c \in Calls, DispatchTake(c)
  PROVE  SharedType' /\ Walks(c)
<1> DEFINE g   == call[c].gw
           p   == call[c].ptr
           fb  == fallbacks[g][p]
           set == [fb EXCEPT !.pending = <<>>]
<1>0. call[c] \in CallRec /\ call \in [Calls -> CallRec] /\ call[c].pc = "dispatching" /\ call[c].where = "local"
      /\ call[c].next \in {"out", "refused", "done"}
  BY CallFacts DEF DispatchTake, CallFits
<1>1. Flags'
  BY FlagsOfCalls DEF CallMoves
<1>2. /\ UNCHANGED <<db, owed, batch, resume, lost, raced, lastWord>>
      /\ fallbacks' = [fallbacks EXCEPT ![g][p].pending = <<>>]
  BY DEF DispatchTake, storeVars, deliverVars, history
<1>3. g \in Gateways /\ p \in 1..Len(fallbacks[g]) /\ fb \in Fallback /\ fallbacks \in [Gateways -> Seq(Fallback)]
  BY <1>0, HeldFallback
<1>4. set \in Fallback /\ set.pending = <<>>
  <2> HIDE DEF fb
  <2> QED
    BY <1>3, EmptySeq DEF Fallback
<1>5. Locals' /\ Grow /\ (Calm => Calm')
  <2>1. fallbacks' = [fallbacks EXCEPT ![g] = [fallbacks[g] EXCEPT ![p] = set]]
    <3> HIDE DEF g, p
    <3> QED
      BY <1>2, <1>3
  <2> HIDE DEF set, g, p
  <2> QED
    BY <1>3, <1>4, <2>1, Updated
<1>6. fb.pending \in Seq(RunPauses) /\ (Calm => fb.pending = <<>>)
  BY <1>3 DEF Fallback, Calm
<1>7. /\ call' \in [Calls -> CallRec] /\ Others(c) /\ call'[c].gw = g /\ call'[c].ptr = p
      /\ call'[c].where = "local" /\ call'[c].evs = fb.pending
      /\ call'[c].pc = IF fb.pending = <<>> THEN call[c].next ELSE "owing"
  <2>1. call' = [call EXCEPT ![c].pc = IF fb.pending = <<>> THEN call[c].next ELSE "owing",
                             ![c].evs = fb.pending]
    BY DEF DispatchTake
  <2> HIDE DEF fb
  <2> QED
    BY <1>0, <1>6, <2>1 DEF Others, CallRec, CallStates
<1>8. CallFits(call[c])'
  <2>1. call'[c].ptr <= Len(fallbacks'[call'[c].gw]) /\ call'[c].ptr > 0
    BY <1>3, <1>5, <1>7 DEF Grow
  <2>2. call'[c].pc \in {"out", "refused", "done", "owing"} /\ (call'[c].pc = "owing" => call'[c].evs # <<>>)
    <3> HIDE DEF fb
    <3> QED
      BY <1>0, <1>7
  <2> QED
    BY <1>7, <2>1, <2>2 DEF CallFits
<1>9. SharedType'
  BY <1>1, <1>2, <1>5, <1>7, <1>8, WalkTypes
<1>10. Calm => call'[c].pc # "owing"
  <2> HIDE DEF fb
  <2> QED
    BY <1>0, <1>6, <1>7
<1>11. call'[c].pc # "answered"
  <2> HIDE DEF fb
  <2> QED
    BY <1>0, <1>7
<1>12. Walks(c)
  BY <1>0, <1>2, <1>5, <1>7, <1>10, <1>11 DEF Walks, Sending
<1> QED
  BY <1>9, <1>12

LEMMA ApplyStep ==
  ASSUME SharedType, NEW c \in Calls, Apply(c)
  PROVE  SharedType' /\ Walks(c)
<1> DEFINE g   == call[c].gw
           p   == call[c].ptr
           fb  == fallbacks[g][p]
           new == IF call[c].kind = "r" THEN SettleRun(SeenRun(fb.st, 1), call[c].cost, call[c].loop)
                  ELSE Released(fb.st)
           hit == fb.gap /\ Pauses(fb.st, new)
           q   == IF hit THEN Append(fb.pending, new.paused) ELSE fb.pending
           set == [fb EXCEPT !.st = new, !.pending = q]
<1>0. call[c] \in CallRec /\ call \in [Calls -> CallRec] /\ call[c].pc = "applying" /\ call[c].where = "local"
      /\ call[c].cost \in Nat
  BY CallFacts DEF Apply, CallFits
<1>1. Flags'
  BY FlagsOfCalls DEF CallMoves
<1>2. /\ UNCHANGED <<db, owed, batch, resume, lost, raced>>
      /\ lastWord' = IF hit THEN "pause" ELSE lastWord
      /\ fallbacks' = [fallbacks EXCEPT ![g][p] = set]
  BY DEF Apply, storeVars, deliverVars
<1>3. g \in Gateways /\ p \in 1..Len(fallbacks[g]) /\ fb \in Fallback /\ fallbacks \in [Gateways -> Seq(Fallback)]
  BY <1>0, HeldFallback
<1>4. fb.st \in RunState /\ fb.pending \in Seq(RunPauses)
  BY <1>3 DEF Fallback
<1>5. new \in RunState
  <2>1. SeenRun(fb.st, 1) \in RunState
    <3> HIDE DEF fb
    <3> QED
      BY <1>4 DEF SeenRun, RunState
  <2>2. SettleRun(SeenRun(fb.st, 1), call[c].cost, call[c].loop) \in RunState
    BY <1>0, <2>1, SettleRunFields
  <2>3. Released(fb.st) \in RunState
    <3> HIDE DEF fb
    <3> QED
      BY <1>4, DecType DEF Released, RunState
  <2> QED
    BY <2>2, <2>3
<1>6. new.paused \in RunPauses
  <2> HIDE DEF new
  <2> QED
    BY <1>5 DEF RunState
<1>7. q \in Seq(RunPauses) /\ (q = fb.pending \/ lastWord' = "pause")
  <2> HIDE DEF fb, hit, new
  <2> QED
    BY <1>2, <1>4, <1>6
<1>8. set \in Fallback /\ set.pending = q
  <2> HIDE DEF fb, new, q
  <2> QED
    BY <1>3, <1>5, <1>7 DEF Fallback
<1>9. Locals' /\ Grow /\ (Calm /\ set.pending = <<>> => Calm')
  <2>1. fallbacks' = [fallbacks EXCEPT ![g] = [fallbacks[g] EXCEPT ![p] = set]]
    <3> HIDE DEF set, g, p
    <3> QED
      BY <1>2, <1>3
  <2> HIDE DEF set, g, p
  <2> QED
    BY <1>3, <1>8, <2>1, Updated
<1>10. /\ call' \in [Calls -> CallRec] /\ Others(c) /\ call'[c].gw = g /\ call'[c].ptr = p
       /\ call'[c].pc \in {"dispatching", "done"} /\ call'[c].where = "local"
  <2>1. PICK to \in {"dispatching", "done"} :
          call' = [call EXCEPT ![c].pc = to, ![c].next = "done"]
    BY DEF Apply
  <2> QED
    BY <1>0, <2>1 DEF Others, CallRec, CallStates
<1>11. CallFits(call[c])'
  BY <1>3, <1>9, <1>10 DEF CallFits, Grow
<1>12. SharedType'
  BY <1>1, <1>2, <1>9, <1>10, <1>11, WalkTypes
<1>13. Calm => fb.pending = <<>>
  BY <1>3 DEF Calm
<1>14. lastWord' = "pause" \/ (lastWord' = lastWord /\ (Calm => Calm'))
  <2>1. lastWord' \in {"pause", lastWord}
    <3> HIDE DEF fb, hit, new
    <3> QED
      BY <1>2
  <2>2. ASSUME q = fb.pending, Calm PROVE Calm'
    <3>1. q = <<>>
      <4> HIDE DEF fb, q
      <4> QED
        BY <2>2, <1>13
    <3>2. set.pending = <<>>
      <4> HIDE DEF set, q
      <4> QED
        BY <3>1, <1>8
    <3> HIDE DEF set
    <3> QED
      BY <2>2, <3>2, <1>9
  <2> HIDE DEF fb, q
  <2> QED
    BY <2>1, <2>2, <1>7
<1>15. Walks(c)
  BY <1>0, <1>2, <1>10, <1>14 DEF Walks, Sending
<1> QED
  BY <1>12, <1>15

LEMMA CallStepTypes ==
  ASSUME SharedType, NEW c \in Calls, Flags', Queues', Locals', Grow, Histories', db' \in StoreRecord,
         call' \in [Calls -> CallRec], Others(c), CallFits(call[c])', resume' = resume
  PROVE  SharedType'
<1>1. Threads'
  BY CallMoved
<1> QED
  BY <1>1 DEF SharedType

LEMMA WordFacts ==
  ASSUME SharedType, NEW x, NEW y, lastWord' = Word(x, y), lost' \subseteq Owed, raced' = raced
  PROVE  Histories'
BY DEF SharedType, Histories, Word

LEMMA AskStep ==
  ASSUME SharedType, NEW c \in Calls, NEW again \in BOOLEAN, Ask(c, again)
  PROVE  SharedType' /\ Enquires(c)
<1> DEFINE first  == AdmitScript(db, c, Mode(c))
           result == IF again THEN AdmitScript(first.db, c, Mode(c)) ELSE first
<1>0. call[c] \in CallRec /\ call \in [Calls -> CallRec] /\ call[c].pc = "asking"
  BY CallFacts DEF Ask
<1>1. Flags'
  BY FlagsOfCalls DEF CallMoves, CallFails
<1>2. /\ UNCHANGED <<owed, batch, resume, lost, raced, fallbacks>>
      /\ db' = result.db /\ lastWord' = Word(db.tally, result.db.tally)
      /\ call' = [call EXCEPT ![c].pc = "answered", ![c].answer = result.answer]
  BY DEF Ask, gatewayVars, deliverVars
<1>3. AdmitsCall(db, result.db, c, result.answer, Mode(c))
  <2>1. AdmitsCall(db, first.db, c, first.answer, Mode(c))
    BY AdmitFacts DEF SharedType
  <2> HIDE DEF first
  <2>2. CASE again
    <3>1. first.db \in StoreRecord
      BY <2>1 DEF AdmitsCall
    <3> DEFINE second == AdmitScript(first.db, c, Mode(c))
    <3>2. AdmitsCall(first.db, second.db, c, second.answer, Mode(c))
      BY <3>1, AdmitFacts
    <3> HIDE DEF second
    <3>3. AdmitsCall(db, second.db, c, second.answer, Mode(c))
      BY <2>1, <3>2, AdmitTwice
    <3> QED
      BY <2>2, <3>3 DEF second
  <2>3. CASE ~again
    BY <2>1, <2>3
  <2> QED
    BY <2>2, <2>3
<1> HIDE DEF first, result
<1>4. result.answer \in Answers /\ db' \in StoreRecord
  BY <1>2, <1>3 DEF AdmitsCall
<1>5. Locals' /\ Grow /\ (Calm => Calm')
  BY <1>2, Unchanging
<1>6. /\ call' \in [Calls -> CallRec] /\ Others(c)
      /\ call'[c].gw = call[c].gw /\ call'[c].ptr = call[c].ptr
      /\ call'[c].pc = "answered" /\ call'[c].answer = result.answer
  BY <1>0, <1>2, <1>4 DEF Others, CallRec, CallStates
<1>7. CallFits(call[c])'
  BY <1>2, <1>6, CallFacts DEF CallFits
<1>8. Histories'
  <2>1. lost' \subseteq Owed
    BY <1>2 DEF SharedType, Histories
  <2> QED
    BY <1>2, <2>1, WordFacts
<1>9. Queues'
  BY <1>2 DEF SharedType, Queues
<1>10. SharedType'
  BY <1>1, <1>2, <1>4, <1>5, <1>6, <1>7, <1>8, <1>9, CallStepTypes
<1>11. Enquires(c)
  BY <1>0, <1>2, <1>3, <1>5, <1>6 DEF Enquires
<1> QED
  BY <1>10, <1>11

LEMMA AskFailsStep ==
  ASSUME SharedType, NEW c \in Calls, NEW failure \in Failures, NEW ran \in BOOLEAN,
         AskFails(c, failure, ran), Flags'
  PROVE  SharedType' /\ Enquires(c)
<1>0. call[c] \in CallRec /\ call \in [Calls -> CallRec] /\ call[c].pc = "asking" /\ call[c].gw \in Gateways
  BY CallFacts DEF AskFails
<1>2. /\ UNCHANGED <<owed, batch, resume, lost, raced, fallbacks>>
      /\ db' = (IF ran THEN AdmitScript(db, c, Mode(c)).db ELSE db)
      /\ lastWord' = Word(db.tally, db'.tally)
      /\ call' = [call EXCEPT ![c].pc = "askFailed", ![c].failure = failure]
  BY DEF AskFails, gatewayVars, deliverVars
<1>3. \E a : AdmitsCall(db, db', c, a, Mode(c))
  <2>1. db \in StoreRecord
    BY DEF SharedType
  <2> DEFINE r == AdmitScript(db, c, Mode(c))
  <2>2. AdmitsCall(db, r.db, c, r.answer, Mode(c))
    BY <2>1, AdmitFacts
  <2> HIDE DEF r
  <2>3. CASE ran
    <3>1. db' = r.db
      BY <1>2, <2>3 DEF r
    <3> QED
      BY <2>2, <3>1
  <2>4. CASE ~ran
    <3>1. db' = db
      BY <1>2, <2>4
    <3> QED
      BY <2>1, <3>1, AdmitNot
  <2> QED
    BY <2>3, <2>4
<1>4. db' \in StoreRecord
  BY <1>3 DEF AdmitsCall
<1>5. Locals' /\ Grow /\ (Calm => Calm')
  BY <1>2, Unchanging
<1>6. /\ call' \in [Calls -> CallRec] /\ Others(c)
      /\ call'[c].gw = call[c].gw /\ call'[c].ptr = call[c].ptr /\ call'[c].pc = "askFailed"
  BY <1>0, <1>2 DEF Others, CallRec, CallStates
<1>7. CallFits(call[c])'
  <2>1. call[c].ptr <= Len(fallbacks[call[c].gw]) /\ call[c].ptr \in Nat
        /\ Len(fallbacks[call[c].gw]) \in Nat
    BY <1>0, CallFacts DEF CallFits
  <2>2. Len(fallbacks'[call[c].gw]) >= Len(fallbacks[call[c].gw]) /\ Len(fallbacks'[call[c].gw]) \in Nat
    BY <1>0, <1>5 DEF Grow, Locals
  <2> QED
    BY <1>6, <2>1, <2>2 DEF CallFits
<1>8. Histories'
  <2>1. lost' \subseteq Owed
    BY <1>2 DEF SharedType, Histories
  <2> QED
    BY <1>2, <2>1, WordFacts
<1>9. Queues'
  BY <1>2 DEF SharedType, Queues
<1>10. SharedType'
  BY <1>2, <1>4, <1>5, <1>6, <1>7, <1>8, <1>9, CallStepTypes
<1>11. Enquires(c)
  BY <1>0, <1>2, <1>3, <1>5, <1>6 DEF Enquires
<1> QED
  BY <1>10, <1>11

LEMMA DispatchOweStep ==
  ASSUME SharedType, NEW c \in Calls, DispatchOwe(c)
  PROVE  SharedType' /\ OwesPause(c)
<1> DEFINE g == call[c].gw
           q == call[c].evs
           item == OwedPause(Head(q))
<1>0. /\ call[c] \in CallRec /\ call \in [Calls -> CallRec] /\ call[c].pc = "owing" /\ g \in Gateways
      /\ q \in Seq(RunPauses) /\ q # <<>> /\ call[c].where = "local"
      /\ call[c].next \in {"out", "refused", "done"}
  BY CallFacts DEF DispatchOwe, CallFits
<1>1. Flags'
  BY FlagsOfCalls DEF CallMoves
<1>2. /\ UNCHANGED <<db, batch, resume, fallbacks, lastWord, raced>> /\ Owe(g, item)
      /\ call' = [call EXCEPT ![c].pc = IF Tail(q) = <<>> THEN call[c].next ELSE "owing", ![c].evs = Tail(q)]
  BY DEF DispatchOwe, storeVars, deliverVars
<1>3. Head(q) \in RunPauses /\ Tail(q) \in Seq(RunPauses)
  <2> HIDE DEF q
  <2> QED
    BY <1>0, HeadTailProperties
<1>4. item \in Owed /\ item.kind = "p"
  BY <1>3, OwedParts
<1>5. Locals' /\ Grow
  BY <1>2, Unchanging
<1>6. /\ call' \in [Calls -> CallRec] /\ Others(c) /\ call'[c].gw = g /\ call'[c].ptr = call[c].ptr
      /\ call'[c].pc = (IF Tail(q) = <<>> THEN call[c].next ELSE "owing")
      /\ call'[c].evs = Tail(q) /\ call'[c].where = "local"
  <2> DEFINE t == Tail(q)
             to == IF Tail(q) = <<>> THEN call[c].next ELSE "owing"
  <2>1. t \in Seq(RunPauses) /\ to \in {"out", "refused", "done", "owing"}
    BY <1>0, <1>3
  <2>2. call' = [call EXCEPT ![c].pc = to, ![c].evs = t]
    BY <1>2
  <2> HIDE DEF t, to
  <2>3. /\ call' \in [Calls -> CallRec] /\ Others(c) /\ call'[c].gw = call[c].gw /\ call'[c].ptr = call[c].ptr
        /\ call'[c].pc = to /\ call'[c].evs = t /\ call'[c].where = call[c].where
    BY <1>0, <2>1, <2>2 DEF Others, CallRec, CallStates
  <2> QED
    BY <1>0, <2>3 DEF t, to
<1>7. CallFits(call[c])'
  <2>1. call[c].ptr <= Len(fallbacks[call[c].gw])
    BY CallFacts DEF CallFits
  <2>2. call'[c].pc \in {"out", "refused", "done", "owing"} /\ (call'[c].pc = "owing" => call'[c].evs # <<>>)
    BY <1>0, <1>6
  <2> QED
    BY <1>2, <1>6, <2>1, <2>2 DEF CallFits
<1> HIDE DEF item, g, q
<1>8. Queues' /\ OtherQueues(g) /\ lost' \subseteq Owed /\ lost \subseteq lost' /\ Pushed(owed[g], owed'[g], item)
  BY <1>0, <1>2, <1>4, OweFacts
<1>9. Histories'
  BY <1>2, <1>8 DEF SharedType, Histories
<1>10. db' \in StoreRecord
  BY <1>2 DEF SharedType
<1>11. SharedType'
  BY <1>1, <1>2, <1>5, <1>6, <1>7, <1>8, <1>9, <1>10, CallStepTypes
<1>12. call'[c].pc \in {"owing", "out", "refused", "done"}
  BY <1>0, <1>6
<1>13. OwesPause(c)
  BY <1>0, <1>2, <1>4, <1>6, <1>8, <1>12 DEF OwesPause
<1> QED
  BY <1>11, <1>13

LEMMA OweSettlementStep ==
  ASSUME SharedType, NEW c \in Calls, OweSettlement(c)
  PROVE  SharedType' /\ OwesCall(c)
<1> DEFINE g == call[c].gw
           item == Settlement(call[c].kind, c)
<1>0. /\ call[c] \in CallRec /\ call \in [Calls -> CallRec] /\ call[c].pc = "oweing" /\ g \in Gateways
      /\ call[c].where = "shared" /\ call[c].kind \in {"r", "l"}
  BY CallFacts DEF OweSettlement, CallFits
<1>1. Flags'
  BY FlagsOfCalls DEF CallMoves
<1>2. /\ UNCHANGED <<db, batch, resume, fallbacks, lastWord, raced>> /\ Owe(g, item)
      /\ call' = [call EXCEPT ![c].pc = "done"]
  BY DEF OweSettlement, storeVars, deliverVars
<1>4. item \in Owed
  BY <1>0, OwedParts
<1>5. Locals' /\ Grow
  BY <1>2, Unchanging
<1>6. /\ call' \in [Calls -> CallRec] /\ Others(c) /\ SameCall(c) /\ call'[c].ptr = call[c].ptr
      /\ call'[c].pc = "done"
  BY <1>0, <1>2 DEF Others, SameCall, CallRec, CallStates
<1>7. CallFits(call[c])'
  <2>1. call[c].ptr <= Len(fallbacks[call[c].gw])
    BY CallFacts DEF CallFits
  <2> QED
    BY <1>2, <1>6, <2>1 DEF CallFits, SameCall
<1>8. Queues' /\ OtherQueues(g) /\ lost' \subseteq Owed /\ lost \subseteq lost' /\ Pushed(owed[g], owed'[g], item)
  <2> HIDE DEF item, g
  <2> QED
    BY <1>0, <1>2, <1>4, OweFacts
<1>9. Histories'
  BY <1>2, <1>8 DEF SharedType, Histories
<1>10. db' \in StoreRecord
  BY <1>2 DEF SharedType
<1>11. SharedType'
  BY <1>1, <1>2, <1>5, <1>6, <1>7, <1>8, <1>9, <1>10, CallStepTypes
<1>12. OwesCall(c)
  BY <1>0, <1>2, <1>6, <1>8 DEF OwesCall
<1> QED
  BY <1>11, <1>12

LEMMA TakeStep ==
  ASSUME SharedType, NEW c \in Calls, Take(c)
  PROVE  SharedType' /\ Pays(c)
<1> DEFINE g == call[c].gw
           item == Settlement(call[c].kind, c)
<1>0. /\ call[c] \in CallRec /\ call \in [Calls -> CallRec] /\ call[c].pc = "settling" /\ g \in Gateways
      /\ call[c].where = "shared" /\ call[c].kind \in {"r", "l"}
  BY CallFacts DEF Take, CallFits
<1>1. Flags'
  BY FlagsOfCalls DEF CallMoves
<1>2. /\ UNCHANGED <<owed, batch, resume, fallbacks, lost, raced>> /\ Taken(g, item)
      /\ call' = [call EXCEPT ![c].pc = "done"]
  BY DEF Take, deliverVars
<1>3. item \in Owed /\ item.kind = call[c].kind /\ item.call = c
  BY <1>0, OwedParts
<1>4. TakesItem(db, db', call[c].kind, c) /\ Heard(call[c].kind) /\ db' \in StoreRecord
  <2>1. TakesItem(db, db', item.kind, item.call) /\ Heard(item.kind)
    <3> HIDE DEF item, g
    <3> QED
      BY <1>0, <1>2, <1>3, TakenFacts
  <2>2. TakesItem(db, db', call[c].kind, c) /\ Heard(call[c].kind)
    <3> HIDE DEF item, g
    <3> QED
      BY <1>3, <2>1
  <2> QED
    BY <2>2 DEF TakesItem
<1>5. Locals' /\ Grow /\ (Calm => Calm')
  BY <1>2, Unchanging
<1>6. /\ call' \in [Calls -> CallRec] /\ Others(c) /\ SameCall(c) /\ call'[c].ptr = call[c].ptr
      /\ call'[c].pc = "done"
  BY <1>0, <1>2 DEF Others, SameCall, CallRec, CallStates
<1>7. CallFits(call[c])'
  <2>1. call[c].ptr <= Len(fallbacks[call[c].gw])
    BY CallFacts DEF CallFits
  <2> QED
    BY <1>2, <1>6, <2>1 DEF CallFits, SameCall
<1>8. Queues'
  BY <1>2 DEF SharedType, Queues
<1>9. Histories'
  BY <1>2, <1>4 DEF SharedType, Histories, Heard
<1>10. SharedType'
  BY <1>1, <1>2, <1>4, <1>5, <1>6, <1>7, <1>8, <1>9, CallStepTypes
<1>11. Pays(c)
  BY <1>0, <1>2, <1>4, <1>5, <1>6 DEF Pays
<1> QED
  BY <1>10, <1>11

LEMMA TakeFailsStep ==
  ASSUME SharedType, NEW c \in Calls, NEW failure \in Failures, NEW ran \in BOOLEAN,
         TakeFails(c, failure, ran), Flags'
  PROVE  SharedType' /\ Pays(c)
<1> DEFINE g == call[c].gw
           item == Settlement(call[c].kind, c)
<1>0. /\ call[c] \in CallRec /\ call \in [Calls -> CallRec] /\ call[c].pc = "settling" /\ g \in Gateways
      /\ call[c].where = "shared" /\ call[c].kind \in {"r", "l"}
  BY CallFacts DEF TakeFails, CallFits
<1>2. /\ UNCHANGED <<owed, batch, resume, fallbacks, lost, raced>>
      /\ db' = (IF ran THEN TakeScript(item) ELSE db) /\ lastWord' = Word(db.tally, db'.tally)
      /\ call' = [call EXCEPT ![c].pc = "takeFailed", ![c].failure = failure]
  BY DEF TakeFails, gatewayVars, deliverVars
<1>3. item \in Owed /\ item.kind = call[c].kind /\ item.call = c
  BY <1>0, OwedParts
<1>4. /\ db' \in StoreRecord
      /\ \/ TakesItem(db, db', call[c].kind, c) /\ Heard(call[c].kind)
         \/ db' = db /\ lastWord' = lastWord
  <2>1. CASE ran
    <3>1. TakesItem(db, TakeScript(item), item.kind, item.call)
      <4> HIDE DEF item
      <4> QED
        BY <1>3, TakeFacts
    <3>2. TakesItem(db, db', call[c].kind, c)
      <4> HIDE DEF item
      <4> QED
        BY <1>2, <1>3, <2>1, <3>1
    <3>3. Heard(call[c].kind)
      BY <1>2 DEF Heard, Word, Pauses
    <3> QED
      BY <3>2, <3>3 DEF TakesItem
  <2>2. CASE ~ran
    <3>1. db' = db
      BY <1>2, <2>2
    <3>2. db' \in StoreRecord
      BY <3>1 DEF SharedType
    <3>3. lastWord' = lastWord
      BY <1>2, <3>1 DEF Word, Pauses
    <3> QED
      BY <3>1, <3>2, <3>3
  <2> QED
    BY <2>1, <2>2
<1>5. Locals' /\ Grow /\ (Calm => Calm')
  BY <1>2, Unchanging
<1>6. /\ call' \in [Calls -> CallRec] /\ Others(c) /\ SameCall(c) /\ call'[c].ptr = call[c].ptr
      /\ call'[c].pc = "takeFailed"
  BY <1>0, <1>2 DEF Others, SameCall, CallRec, CallStates
<1>7. CallFits(call[c])'
  <2>1. call[c].ptr <= Len(fallbacks[g]) /\ call[c].ptr \in Nat /\ Len(fallbacks[g]) \in Nat
    BY <1>0, CallFacts DEF CallFits
  <2>2. Len(fallbacks'[g]) >= Len(fallbacks[g]) /\ Len(fallbacks'[g]) \in Nat
    BY <1>0, <1>5 DEF Grow, Locals
  <2>3. /\ call'[c].gw = g /\ call'[c].where = "shared" /\ call'[c].pc = "takeFailed"
        /\ call'[c].ptr = call[c].ptr
    BY <1>0, <1>6 DEF SameCall
  <2> QED
    BY <2>1, <2>2, <2>3 DEF CallFits
<1>8. Queues'
  BY <1>2 DEF SharedType, Queues
<1>9. Histories'
  <2>1. lost' \subseteq Owed
    BY <1>2 DEF SharedType, Histories
  <2> QED
    BY <1>2, <2>1, WordFacts
<1>10. SharedType'
  BY <1>2, <1>4, <1>5, <1>6, <1>7, <1>8, <1>9, CallStepTypes
<1>11. Pays(c)
  BY <1>0, <1>2, <1>4, <1>5, <1>6 DEF Pays
<1> QED
  BY <1>10, <1>11

LEMMA AskFailedStep ==
  ASSUME SharedType, NEW c \in Calls, AskFailed(c)
  PROVE  SharedType' /\ Walks(c)
<1>0. call[c] \in CallRec /\ call \in [Calls -> CallRec] /\ call[c].gw \in Gateways
  BY CallFacts
<1>1. Flags'
  BY FlagsOfCalls DEF CallMoves
<1>2. /\ UNCHANGED <<db, owed, batch, resume, lost, raced, lastWord>> /\ call[c].pc = "askFailed"
      /\ Fail(call[c].gw, call[c].failure)
      /\ call' = [call EXCEPT ![c].pc = "failed", ![c].failure = "busy"]
  BY DEF AskFailed, storeVars, deliverVars, history
<1>3. Locals' /\ Grow /\ (Calm => Calm')
  BY <1>0, <1>2, FailFacts
<1>4. /\ call' \in [Calls -> CallRec] /\ Others(c)
      /\ call'[c].gw = call[c].gw /\ call'[c].ptr = call[c].ptr /\ call'[c].pc = "failed"
  BY <1>0, <1>2 DEF Others, CallRec, CallStates, Failures
<1>5. CallFits(call[c])'
  <2>1. call[c].ptr <= Len(fallbacks[call[c].gw]) /\ call[c].ptr \in Nat
        /\ Len(fallbacks[call[c].gw]) \in Nat
    BY <1>0, CallFacts DEF CallFits
  <2>2. Len(fallbacks'[call[c].gw]) >= Len(fallbacks[call[c].gw]) /\ Len(fallbacks'[call[c].gw]) \in Nat
    BY <1>0, <1>3 DEF Grow, Locals
  <2> QED
    BY <1>4, <2>1, <2>2 DEF CallFits
<1>6. SharedType'
  BY <1>1, <1>2, <1>3, <1>4, <1>5, WalkTypes
<1>7. Walks(c)
  BY <1>2, <1>3, <1>4 DEF Walks, Through, Sending
<1> QED
  BY <1>6, <1>7

LEMMA TakeFailedStep ==
  ASSUME SharedType, NEW c \in Calls, TakeFailed(c)
  PROVE  SharedType' /\ Pays(c)
<1> DEFINE g == call[c].gw
           item == Settlement(call[c].kind, c)
           refused == call[c].failure = "refused"
           to == IF refused THEN "done" ELSE "oweing"
<1>0. /\ call[c] \in CallRec /\ call \in [Calls -> CallRec] /\ call[c].pc = "takeFailed" /\ g \in Gateways
      /\ call[c].where = "shared" /\ call[c].kind \in {"r", "l"}
  BY CallFacts DEF TakeFailed, CallFits
<1>1. Flags'
  BY FlagsOfCalls DEF CallMoves
<1>2. /\ UNCHANGED <<db, owed, batch, resume, lastWord, raced>> /\ Fail(g, call[c].failure)
      /\ lost' = (IF refused THEN lost \cup {item} ELSE lost)
      /\ call' = [call EXCEPT ![c].pc = to, ![c].failure = "busy"]
  BY DEF TakeFailed, storeVars, deliverVars
<1>3. item \in Owed
  BY <1>0, OwedParts
<1>4. Locals' /\ Grow /\ (Calm => Calm')
  BY <1>0, <1>2, FailFacts
<1>5. /\ call' \in [Calls -> CallRec] /\ Others(c) /\ SameCall(c) /\ call'[c].ptr = call[c].ptr
      /\ call'[c].pc = to /\ to \in {"oweing", "done"}
  BY <1>0, <1>2 DEF Others, SameCall, CallRec, CallStates, Failures
<1>6. CallFits(call[c])'
  <2>1. call[c].ptr <= Len(fallbacks[g]) /\ call[c].ptr \in Nat /\ Len(fallbacks[g]) \in Nat
    BY <1>0, CallFacts DEF CallFits
  <2>2. Len(fallbacks'[g]) >= Len(fallbacks[g]) /\ Len(fallbacks'[g]) \in Nat
    BY <1>0, <1>4 DEF Grow, Locals
  <2>3. /\ call'[c].gw = g /\ call'[c].where = "shared" /\ call'[c].pc \in {"oweing", "done"}
        /\ call'[c].ptr = call[c].ptr
    BY <1>0, <1>5 DEF SameCall
  <2> QED
    BY <2>1, <2>2, <2>3 DEF CallFits
<1>7. Queues' /\ db' \in StoreRecord
  BY <1>2 DEF SharedType, Queues
<1> HIDE DEF item
<1>8. Histories'
  BY <1>2, <1>3 DEF SharedType, Histories
<1>9. SharedType'
  BY <1>1, <1>2, <1>4, <1>5, <1>6, <1>7, <1>8, CallStepTypes
<1>10. Pays(c)
  BY <1>0, <1>2, <1>4, <1>5 DEF Pays, item
<1> QED
  BY <1>9, <1>10

-----------------------------------------------------------------------------
(* What a step of an ask does. *)

\* The store clears the pause; a pause of the gap still on its way is noted.
ClearsStore(u) ==
  /\ OtherAsks(u) /\ UNCHANGED <<owed, batch, call, fallbacks, lost>>
  /\ resume[u].gw \in Gateways
  /\ TakesItem(db, db', "u", NoCall) /\ lastWord' = "resume"
  /\ raced' \/ (~PauseUnderway(resume[u].gw) /\ ~PauseOwed(resume[u].gw))

\* The fallback is cleared in a gap, and the ask is to be owed.
ClearsLocal(u) ==
  /\ OtherAsks(u) /\ UNCHANGED <<db, owed, batch, call, lost>> /\ (Calm => Calm')
  /\ resume[u].gw \in Gateways /\ resume'[u].pc = "oweing"
  /\ raced' \/ ~PauseUnderway(resume[u].gw)

\* The ask goes on, and the store may clear the pause with its answer lost.
Proceeds(u) ==
  /\ OtherAsks(u) /\ UNCHANGED <<owed, batch, call, lost, lastWord, raced>> /\ (Calm => Calm')
  /\ resume[u].pc # "oweing"
  /\ db' = db \/ TakesItem(db, db', "u", NoCall)

OwesAsk(u) ==
  /\ OtherAsks(u) /\ UNCHANGED <<db, batch, call, fallbacks, lastWord, raced>>
  /\ resume[u].gw \in Gateways /\ lost \subseteq lost' /\ OtherQueues(resume[u].gw)
  /\ Pushed(owed[resume[u].gw], owed'[resume[u].gw], OwedResume)

LEMMA AskFacts ==
  ASSUME SharedType, NEW u \in Resumes
  PROVE  /\ resume[u] \in ResumeRec /\ resume \in [Resumes -> ResumeRec] /\ ResumeFits(resume[u])
         /\ resume[u].gw \in Gateways
         /\ \A g \in Gateways : Len(fallbacks[g]) \in Nat \ {0} /\ fallbacks[g] \in Seq(Fallback)
<1>1. resume[u] \in ResumeRec /\ resume \in [Resumes -> ResumeRec] /\ ResumeFits(resume[u])
  BY DEF SharedType, Threads
<1>2. \A g \in Gateways : Len(fallbacks[g]) \in Nat \ {0} /\ fallbacks[g] \in Seq(Fallback)
  BY EmptySeq DEF SharedType, Locals
<1> QED
  BY <1>1, <1>2 DEF ResumeRec

LEMMA AskStepTypes ==
  ASSUME SharedType, NEW u \in Resumes, Flags', Queues', Locals', Grow, Histories', db' \in StoreRecord,
         resume' \in [Resumes -> ResumeRec], OtherAsks(u), ResumeFits(resume[u])', call' = call
  PROVE  SharedType'
<1>1. Threads'
  BY AskMoved
<1> QED
  BY <1>1 DEF SharedType

\* An ask that moves on keeps its gateway and its fallback.
LEMMA AskFitsOn ==
  ASSUME SharedType, NEW u \in Resumes, Locals', Grow, resume[u].pc # "idle",
         resume'[u].gw = resume[u].gw, resume'[u].ptr = resume[u].ptr
  PROVE  ResumeFits(resume[u])'
<1>1. resume[u].gw \in Gateways /\ resume[u].ptr \in 1..Len(fallbacks[resume[u].gw])
  BY AskFacts DEF ResumeFits
<1>2. /\ Len(fallbacks[resume[u].gw]) \in Nat /\ Len(fallbacks'[resume[u].gw]) \in Nat
      /\ Len(fallbacks'[resume[u].gw]) >= Len(fallbacks[resume[u].gw])
  BY <1>1 DEF SharedType, Locals, Grow
<1> QED
  BY <1>1, <1>2 DEF ResumeFits

LEMMA ResumeBeginStep ==
  ASSUME SharedType, NEW u \in Resumes, NEW g \in Gateways, ResumeBegin(u, g)
  PROVE  SharedType' /\ Proceeds(u)
<1>0. resume[u] \in ResumeRec /\ resume \in [Resumes -> ResumeRec]
  BY AskFacts
<1>1. Flags'
  BY FlagsOfResumes
<1>2. UNCHANGED <<db, owed, batch, call, lost, raced, lastWord, fallbacks>> /\ resume[u].pc = "idle"
  BY DEF ResumeBegin, storeVars, deliverVars, history
<1>3. Locals' /\ Grow /\ (Calm => Calm')
  BY <1>2, Unchanging
<1>4. Local(g) \in 1..Len(fallbacks[g]) /\ Local(g) \in Nat
  BY AskFacts DEF Local
<1>5. /\ resume' \in [Resumes -> ResumeRec] /\ OtherAsks(u)
      /\ resume'[u].gw = g /\ resume'[u].ptr = Local(g)
  BY <1>0, <1>4 DEF ResumeBegin, OtherAsks, ResumeRec, ResumeStates
<1>6. ResumeFits(resume[u])'
  BY <1>2, <1>4, <1>5 DEF ResumeFits
<1>7. Queues' /\ Histories' /\ db' \in StoreRecord
  BY <1>2 DEF SharedType, Queues, Histories
<1>8. SharedType'
  BY <1>1, <1>2, <1>3, <1>5, <1>6, <1>7, AskStepTypes
<1>9. Proceeds(u)
  BY <1>2, <1>3, <1>5 DEF Proceeds
<1> QED
  BY <1>8, <1>9

LEMMA ResumeAskStep ==
  ASSUME SharedType, NEW u \in Resumes, ResumeAsk(u)
  PROVE  SharedType' /\ ClearsStore(u)
<1>0. resume[u] \in ResumeRec /\ resume \in [Resumes -> ResumeRec] /\ resume[u].gw \in Gateways
  BY AskFacts
<1>1. Flags'
  BY FlagsOfResumes DEF ResumeMoves
<1>2. /\ UNCHANGED <<owed, batch, call, lost, fallbacks>> /\ resume[u].pc = "asking"
      /\ db' = ResumeScript(db) /\ lastWord' = "resume"
      /\ raced' = (raced \/ PauseUnderway(resume[u].gw) \/ PauseOwed(resume[u].gw))
      /\ resume' = [resume EXCEPT ![u].pc = "clearing"]
  BY DEF ResumeAsk, deliverVars
<1>3. Locals' /\ Grow
  BY <1>2, Unchanging
<1>4. TakesItem(db, db', "u", NoCall) /\ db' \in StoreRecord
  BY <1>2, ResumeFacts DEF SharedType, TakesItem
<1>5. /\ resume' \in [Resumes -> ResumeRec] /\ OtherAsks(u)
      /\ resume'[u].gw = resume[u].gw /\ resume'[u].ptr = resume[u].ptr
  BY <1>0, <1>2 DEF OtherAsks, ResumeRec, ResumeStates
<1>6. ResumeFits(resume[u])'
  BY <1>2, <1>3, <1>5, AskFitsOn
<1>7. Queues' /\ Histories'
  BY <1>2 DEF SharedType, Queues, Histories
<1>8. SharedType'
  BY <1>1, <1>2, <1>3, <1>4, <1>5, <1>6, <1>7, AskStepTypes
<1>9. ClearsStore(u)
  BY <1>0, <1>2, <1>4, <1>5 DEF ClearsStore
<1> QED
  BY <1>8, <1>9

LEMMA ResumeFailsStep ==
  ASSUME SharedType, NEW u \in Resumes, NEW failure \in Failures, NEW ran \in BOOLEAN,
         ResumeFails(u, failure, ran), Flags'
  PROVE  SharedType' /\ Proceeds(u)
<1>0. resume[u] \in ResumeRec /\ resume \in [Resumes -> ResumeRec] /\ resume[u].gw \in Gateways
  BY AskFacts
<1>2. /\ UNCHANGED <<owed, batch, call, lost, raced, lastWord, fallbacks>> /\ resume[u].pc = "asking"
      /\ db' = (IF ran THEN ResumeScript(db) ELSE db)
      /\ resume' = [resume EXCEPT ![u].pc = "askFailed", ![u].failure = failure]
  BY DEF ResumeFails, gatewayVars, deliverVars, history
<1>3. Locals' /\ Grow /\ (Calm => Calm')
  BY <1>2, Unchanging
<1>4. (db' = db \/ TakesItem(db, db', "u", NoCall)) /\ db' \in StoreRecord
  <2>1. db \in StoreRecord /\ TakesItem(db, ResumeScript(db), "u", NoCall)
    BY ResumeFacts DEF SharedType
  <2> QED
    BY <1>2, <2>1 DEF TakesItem
<1>5. /\ resume' \in [Resumes -> ResumeRec] /\ OtherAsks(u)
      /\ resume'[u].gw = resume[u].gw /\ resume'[u].ptr = resume[u].ptr
  BY <1>0, <1>2 DEF OtherAsks, ResumeRec, ResumeStates
<1>6. ResumeFits(resume[u])'
  BY <1>2, <1>3, <1>5, AskFitsOn
<1>7. Queues' /\ Histories'
  BY <1>2 DEF SharedType, Queues, Histories
<1>8. SharedType'
  BY <1>2, <1>3, <1>4, <1>5, <1>6, <1>7, AskStepTypes
<1>9. Proceeds(u)
  BY <1>2, <1>3, <1>4, <1>5 DEF Proceeds
<1> QED
  BY <1>8, <1>9

LEMMA ResumeFailedStep ==
  ASSUME SharedType, NEW u \in Resumes, ResumeFailed(u)
  PROVE  SharedType' /\ Proceeds(u)
<1>0. resume[u] \in ResumeRec /\ resume \in [Resumes -> ResumeRec] /\ resume[u].gw \in Gateways
  BY AskFacts
<1>1. Flags'
  BY FlagsOfResumes DEF ResumeMoves
<1>2. /\ UNCHANGED <<db, owed, batch, call, lost, raced, lastWord>> /\ resume[u].pc = "askFailed"
      /\ Fail(resume[u].gw, resume[u].failure)
      /\ resume' = [resume EXCEPT ![u].pc = IF resume[u].failure = "refused" THEN "done" ELSE "local",
                                  ![u].failure = "busy"]
  BY DEF ResumeFailed, storeVars, deliverVars, history
<1>3. Locals' /\ Grow /\ (Calm => Calm')
  BY <1>0, <1>2, FailFacts
<1>4. /\ resume' \in [Resumes -> ResumeRec] /\ OtherAsks(u)
      /\ resume'[u].gw = resume[u].gw /\ resume'[u].ptr = resume[u].ptr
  BY <1>0, <1>2 DEF OtherAsks, ResumeRec, ResumeStates, Failures
<1>5. ResumeFits(resume[u])'
  BY <1>2, <1>3, <1>4, AskFitsOn
<1>6. Queues' /\ Histories' /\ db' \in StoreRecord
  BY <1>2 DEF SharedType, Queues, Histories
<1>7. SharedType'
  BY <1>1, <1>2, <1>3, <1>4, <1>5, <1>6, AskStepTypes
<1>8. Proceeds(u)
  BY <1>2, <1>3, <1>4 DEF Proceeds
<1> QED
  BY <1>7, <1>8

LEMMA ResumeLocalStep ==
  ASSUME SharedType, NEW u \in Resumes, ResumeLocal(u)
  PROVE  SharedType' /\ (ClearsLocal(u) \/ Proceeds(u))
<1> DEFINE g   == resume[u].gw
           p   == resume[u].ptr
           fb  == fallbacks[g][p]
           new == IF fb.st.paused = "no" THEN fb.st ELSE ResumedRun(fb.st)
           set == [fb EXCEPT !.st = new]
<1>0. /\ resume[u] \in ResumeRec /\ resume \in [Resumes -> ResumeRec] /\ resume[u].pc \in {"local", "clearing"}
      /\ raced \in BOOLEAN
  BY AskFacts DEF ResumeLocal, SharedType, Histories
<1>1. Flags'
  BY FlagsOfResumes DEF ResumeMoves
<1>2. /\ UNCHANGED <<db, owed, batch, call, lost>>
      /\ lastWord' = (IF resume[u].pc = "local" THEN "resume" ELSE lastWord)
      /\ raced' = (raced \/ (resume[u].pc = "local" /\ PauseUnderway(g)))
      /\ resume' = [resume EXCEPT ![u].pc = IF @ = "local" THEN "oweing" ELSE "done"]
      /\ fallbacks' = [fallbacks EXCEPT ![g][p].st = IF @.paused = "no" THEN @ ELSE ResumedRun(@)]
  BY DEF ResumeLocal, storeVars, deliverVars
<1>3. /\ g \in Gateways /\ p \in 1..Len(fallbacks[g]) /\ fallbacks[g] \in Seq(Fallback)
      /\ fb \in Fallback /\ fallbacks \in [Gateways -> Seq(Fallback)]
  <2>1. g \in Gateways /\ p \in 1..Len(fallbacks[g]) /\ fallbacks[g] \in Seq(Fallback)
    BY <1>0, AskFacts DEF ResumeFits
  <2>2. fallbacks \in [Gateways -> Seq(Fallback)]
    BY DEF SharedType, Locals
  <2> QED
    BY <2>1, <2>2
<1>4. new \in RunState
  <2>1. fb.st \in RunState
    BY <1>3 DEF Fallback
  <2>2. ResumedRun(fb.st) \in RunState
    <3> HIDE DEF fb
    <3> QED
      BY <2>1 DEF ResumedRun, RunState, RunPauses
  <2> QED
    BY <2>1, <2>2
<1>5. set \in Fallback /\ set.pending = fb.pending
  <2> HIDE DEF fb, new
  <2> QED
    BY <1>3, <1>4 DEF Fallback
<1>6. Calm => fb.pending = <<>>
  BY <1>3 DEF Calm
<1>7. Locals' /\ Grow /\ (Calm => Calm')
  <2>1. fallbacks' = [fallbacks EXCEPT ![g] = [fallbacks[g] EXCEPT ![p] = set]]
    <3> HIDE DEF g, p
    <3> QED
      BY <1>2, <1>3
  <2> HIDE DEF set, g, p
  <2>2. Locals' /\ Grow /\ (Calm /\ set.pending = <<>> => Calm')
    BY <1>3, <1>5, <2>1, Updated
  <2> QED
    BY <1>5, <1>6, <2>2
<1> HIDE DEF fb, new, set
<1>8. /\ resume' \in [Resumes -> ResumeRec] /\ OtherAsks(u)
      /\ resume'[u].gw = g /\ resume'[u].ptr = p
      /\ resume'[u].pc = IF resume[u].pc = "local" THEN "oweing" ELSE "done"
  BY <1>0, <1>2 DEF OtherAsks, ResumeRec, ResumeStates
<1>9. ResumeFits(resume[u])'
  BY <1>0, <1>7, <1>8, AskFitsOn
<1>10. Queues' /\ Histories' /\ db' \in StoreRecord
  BY <1>0, <1>2 DEF SharedType, Queues, Histories
<1>11. SharedType'
  BY <1>1, <1>2, <1>7, <1>8, <1>9, <1>10, AskStepTypes
<1>12. resume[u].pc = "local" => ClearsLocal(u)
  BY <1>2, <1>3, <1>7, <1>8 DEF ClearsLocal
<1>13. resume[u].pc = "clearing" => Proceeds(u)
  BY <1>0, <1>2, <1>7, <1>8 DEF Proceeds
<1> QED
  BY <1>0, <1>11, <1>12, <1>13

LEMMA OweResumeStep ==
  ASSUME SharedType, NEW u \in Resumes, OweResume(u)
  PROVE  SharedType' /\ OwesAsk(u)
<1> DEFINE g == resume[u].gw
<1>0. resume[u] \in ResumeRec /\ resume \in [Resumes -> ResumeRec] /\ g \in Gateways /\ resume[u].pc = "oweing"
  BY AskFacts DEF OweResume
<1>1. Flags'
  BY FlagsOfResumes DEF ResumeMoves
<1>2. /\ UNCHANGED <<db, batch, call, raced, lastWord, fallbacks>> /\ Owe(g, OwedResume)
      /\ resume' = [resume EXCEPT ![u].pc = "done"]
  BY DEF OweResume, storeVars, deliverVars
<1>3. Locals' /\ Grow
  BY <1>2, Unchanging
<1>4. OwedResume \in Owed
  BY OwedParts
<1>5. /\ resume' \in [Resumes -> ResumeRec] /\ OtherAsks(u)
      /\ resume'[u].gw = g /\ resume'[u].ptr = resume[u].ptr
  BY <1>0, <1>2 DEF OtherAsks, ResumeRec, ResumeStates
<1>6. ResumeFits(resume[u])'
  BY <1>0, <1>3, <1>5, AskFitsOn
<1>7. /\ Queues' /\ OtherQueues(g) /\ lost' \subseteq Owed /\ lost \subseteq lost'
      /\ Pushed(owed[g], owed'[g], OwedResume)
  <2> HIDE DEF g
  <2> QED
    BY <1>0, <1>2, <1>4, OweFacts
<1>8. Histories' /\ db' \in StoreRecord
  BY <1>2, <1>7 DEF SharedType, Histories
<1>9. SharedType'
  BY <1>1, <1>2, <1>3, <1>5, <1>6, <1>7, <1>8, AskStepTypes
<1>10. OwesAsk(u)
  BY <1>0, <1>2, <1>5, <1>7 DEF OwesAsk
<1> QED
  BY <1>9, <1>10

-----------------------------------------------------------------------------
(* What a step of a delivery does. *)

\* s is q and r, one behind the other.
Splits(s, q, r) ==
  /\ Len(s) = Len(q) + Len(r)
  /\ \A i \in 1..Len(q) : s[i] = q[i]
  /\ \A i \in 1..Len(r) : s[Len(q) + i] = r[i]

\* The deliverer takes items from the head of the queue.
Batches(g) ==
  /\ UNCHANGED <<db, call, resume, fallbacks, lost, lastWord, raced>> /\ OtherQueues(g)
  /\ Len(batch[g]) = 0 /\ Splits(owed[g], batch'[g], owed'[g])

\* The first item lands, or the store refuses it.
Drops(g) ==
  /\ UNCHANGED <<owed, call, resume, fallbacks, raced>> /\ OtherQueues(g)
  /\ Shifts(batch[g], batch'[g]) /\ batch[g][1] \in Owed
  /\ \/ TakesItem(db, db', batch[g][1].kind, batch[g][1].call) /\ Heard(batch[g][1].kind) /\ lost' = lost
     \/ db' = db /\ lastWord' = lastWord /\ lost' = lost \cup {batch[g][1]}

\* The first item is tried and fails: it stays, and may have landed.
Tries(g) ==
  /\ UNCHANGED <<owed, batch, call, resume, fallbacks, lost, raced>>
  /\ Len(batch[g]) > 0 /\ batch[g][1] \in Owed
  /\ \/ TakesItem(db, db', batch[g][1].kind, batch[g][1].call) /\ Heard(batch[g][1].kind)
     \/ db' = db /\ lastWord' = lastWord

\* The items go back ahead of the queue.
PutsBack(g) ==
  /\ UNCHANGED <<db, call, resume, fallbacks, lost, lastWord, raced>> /\ OtherQueues(g)
  /\ Len(batch[g]) > 0 /\ Len(batch'[g]) = 0 /\ Splits(owed'[g], batch[g], owed[g])

Idles ==
  UNCHANGED <<db, owed, batch, call, resume, lost, lastWord, raced>> /\ (Calm => Calm')

LEMMA GatewayStepTypes ==
  ASSUME SharedType, Flags', Queues', Locals', Grow, Histories', db' \in StoreRecord,
         call' = call, resume' = resume
  PROVE  SharedType'
<1>1. Threads'
  BY CallStays
<1> QED
  BY <1>1 DEF SharedType

LEMMA IdlesTypes ==
  ASSUME SharedType, Flags', Locals', Grow, Idles
  PROVE  SharedType'
<1>1. Queues' /\ Histories' /\ db' \in StoreRecord /\ call' = call /\ resume' = resume
  BY DEF SharedType, Idles, Queues, Histories
<1> QED
  BY <1>1, GatewayStepTypes

LEMMA IdleSteps ==
  ASSUME SharedType, NEW g \in Gateways, Flags',
         \/ \E who \in {"flush", "recover"} : DeliverLock(g, who)
         \/ DeliverDone(g) \/ FlushBegin(g) \/ RecoverBegin(g) \/ RecoverCheck(g) \/ RecoverFails(g)
  PROVE  SharedType' /\ Idles
<1>1. UNCHANGED <<db, owed, batch, call, resume, lost, lastWord, raced, fallbacks>>
  <2>1. CASE \E who \in {"flush", "recover"} : DeliverLock(g, who)
    BY <2>1 DEF DeliverLock, storeVars, gatewayVars, threadVars, history
  <2>2. CASE DeliverDone(g)
    BY <2>2 DEF DeliverDone, storeVars, gatewayVars, threadVars, history
  <2>3. CASE FlushBegin(g)
    BY <2>3 DEF FlushBegin, storeVars, gatewayVars, threadVars, history
  <2>4. CASE RecoverBegin(g) \/ RecoverCheck(g)
    BY <2>4 DEF RecoverBegin, RecoverCheck, storeVars, gatewayVars, threadVars, history
  <2>5. CASE RecoverFails(g)
    BY <2>5 DEF RecoverFails, gatewayVars, threadVars, history
  <2> QED
    BY <2>1, <2>2, <2>3, <2>4, <2>5
<1>2. Locals' /\ Grow /\ (Calm => Calm')
  BY <1>1, Unchanging
<1>3. Idles
  BY <1>1, <1>2 DEF Idles
<1> QED
  BY <1>2, <1>3, IdlesTypes

LEMMA RecoverSwapStep ==
  ASSUME SharedType, NEW g \in Gateways, Flags', RecoverSwap(g)
  PROVE  SharedType' /\ Idles
<1>1. /\ UNCHANGED <<db, owed, batch, call, resume, lost, lastWord, raced>>
      /\ fallbacks' = [fallbacks EXCEPT ![g] = Append(@, FreshFallback(pausedSeen[g], FALSE))]
  BY DEF RecoverSwap, storeVars, threadVars, history
<1>2. pausedSeen[g] \in RunPauses
  BY FlagsFacts
<1>3. Locals' /\ Grow /\ (Calm => Calm')
  BY <1>1, <1>2, FreshFacts, Added
<1>4. Idles
  BY <1>1, <1>3 DEF Idles
<1> QED
  BY <1>3, <1>4, IdlesTypes

LEMMA SplitFacts ==
  ASSUME NEW s \in Seq(Owed), NEW n \in 0..Len(s)
  PROVE  /\ SubSeq(s, 1, n) \in Seq(Owed) /\ SubSeq(s, n + 1, Len(s)) \in Seq(Owed)
         /\ Splits(s, SubSeq(s, 1, n), SubSeq(s, n + 1, Len(s)))
<1>0. Len(s) \in Nat /\ n \in Nat /\ n <= Len(s)
  OBVIOUS
<1>1. /\ SubSeq(s, 1, n) \in Seq(Owed) /\ Len(SubSeq(s, 1, n)) = n
      /\ \A i \in 1..n : SubSeq(s, 1, n)[i] = s[i]
  BY <1>0
<1>2. /\ SubSeq(s, n + 1, Len(s)) \in Seq(Owed) /\ Len(SubSeq(s, n + 1, Len(s))) = Len(s) - n
      /\ \A i \in 1..(Len(s) - n) : SubSeq(s, n + 1, Len(s))[i] = s[n + i]
  BY <1>0
<1> DEFINE q == SubSeq(s, 1, n)
           r == SubSeq(s, n + 1, Len(s))
<1> HIDE DEF q, r
<1>3. /\ q \in Seq(Owed) /\ Len(q) = n /\ \A i \in 1..n : q[i] = s[i]
      /\ r \in Seq(Owed) /\ Len(r) = Len(s) - n /\ \A i \in 1..(Len(s) - n) : r[i] = s[n + i]
  BY <1>1, <1>2 DEF q, r
<1>4. Splits(s, q, r)
  BY <1>0, <1>3 DEF Splits
<1> QED
  BY <1>3, <1>4 DEF q, r

LEMMA JoinFacts ==
  ASSUME NEW q \in Seq(Owed), NEW r \in Seq(Owed)
  PROVE  q \o r \in Seq(Owed) /\ Splits(q \o r, q, r)
<1>1. /\ q \o r \in Seq(Owed) /\ Len(q \o r) = Len(q) + Len(r)
      /\ Len(q) \in Nat /\ Len(r) \in Nat
      /\ \A i \in 1..(Len(q) + Len(r)) : (q \o r)[i] = IF i <= Len(q) THEN q[i] ELSE r[i - Len(q)]
  BY ConcatProperties
<1> DEFINE s == q \o r
<1> HIDE DEF s
<1>2. /\ s \in Seq(Owed) /\ Len(s) = Len(q) + Len(r)
      /\ \A i \in 1..(Len(q) + Len(r)) : s[i] = IF i <= Len(q) THEN q[i] ELSE r[i - Len(q)]
  BY <1>1 DEF s
<1>4. \A i \in 1..Len(q) : s[i] = q[i]
  BY <1>1, <1>2
<1>5. ASSUME NEW i \in 1..Len(r) PROVE s[Len(q) + i] = r[i]
  <2>1. Len(q) + i \in 1..(Len(q) + Len(r)) /\ ~(Len(q) + i <= Len(q)) /\ (Len(q) + i) - Len(q) = i
    BY <1>1
  <2> QED
    BY <1>2, <2>1
<1>3. Splits(s, q, r)
  BY <1>2, <1>4, <1>5 DEF Splits
<1> QED
  BY <1>2, <1>3 DEF s

LEMMA DeliverBatchStep ==
  ASSUME SharedType, NEW g \in Gateways, Flags', DeliverBatch(g)
  PROVE  SharedType' /\ Batches(g)
<1> DEFINE n == IF Len(owed[g]) > FlushBatch THEN FlushBatch ELSE Len(owed[g])
           q == SubSeq(owed[g], 1, n)
           r == SubSeq(owed[g], n + 1, Len(owed[g]))
<1>1. /\ owed[g] \in Seq(Owed) /\ Len(owed[g]) \in Nat
      /\ owed \in [Gateways -> Seq(Owed)] /\ batch \in [Gateways -> Seq(Owed)]
  BY QueueFacts
<1>2. n \in 0..Len(owed[g])
  BY <1>1, SharedAssumption
<1>3. /\ UNCHANGED <<db, call, resume, fallbacks, lost, lastWord, raced>> /\ batch[g] = <<>>
      /\ batch' = [batch EXCEPT ![g] = q] /\ owed' = [owed EXCEPT ![g] = r]
  BY <1>1 DEF DeliverBatch, storeVars, threadVars, history
<1> HIDE DEF n
<1>4. q \in Seq(Owed) /\ r \in Seq(Owed) /\ Splits(owed[g], q, r)
  BY <1>1, <1>2, SplitFacts
<1> HIDE DEF q, r
<1>5. Queues' /\ OtherQueues(g) /\ batch'[g] = q /\ owed'[g] = r
  BY <1>1, <1>3, <1>4 DEF Queues, OtherQueues
<1>6. Locals' /\ Grow
  BY <1>3, Unchanging
<1>7. Histories' /\ db' \in StoreRecord
  BY <1>3 DEF SharedType, Histories
<1>8. SharedType'
  BY <1>3, <1>5, <1>6, <1>7, GatewayStepTypes
<1>9. Len(batch[g]) = 0
  BY <1>3
<1>10. Batches(g)
  BY <1>3, <1>4, <1>5, <1>9 DEF Batches
<1> QED
  BY <1>8, <1>10

LEMMA DeliverTakeStep ==
  ASSUME SharedType, NEW g \in Gateways, Flags', DeliverTake(g)
  PROVE  SharedType' /\ Drops(g)
<1> DEFINE s == batch[g]
           t == Tail(s)
<1>1. /\ UNCHANGED <<owed, call, resume, fallbacks, raced, lost>> /\ s # <<>>
      /\ Taken(g, Head(s)) /\ batch' = [batch EXCEPT ![g] = t]
  BY DEF DeliverTake, AtItem, threadVars
<1>2. /\ s \in Seq(Owed) /\ owed \in [Gateways -> Seq(Owed)] /\ batch \in [Gateways -> Seq(Owed)]
  BY QueueFacts
<1> HIDE DEF s
<1>3. t \in Seq(Owed) /\ Shifts(s, t) /\ Head(s) = s[1] /\ s[1] \in Owed
  BY <1>1, <1>2, TailShifts
<1>4. TakesItem(db, db', s[1].kind, s[1].call) /\ Heard(s[1].kind)
  <2> DEFINE item == Head(s)
  <2>1. item \in Owed /\ item = s[1] /\ Taken(g, item)
    BY <1>1, <1>3
  <2> HIDE DEF item
  <2>2. TakesItem(db, db', item.kind, item.call) /\ Heard(item.kind)
    BY <2>1, TakenFacts
  <2> QED
    BY <2>1, <2>2
<1> HIDE DEF t
<1>5. Queues' /\ OtherQueues(g) /\ batch'[g] = t
  BY <1>1, <1>2, <1>3 DEF Queues, OtherQueues
<1>6. Locals' /\ Grow
  BY <1>1, Unchanging
<1>7. db' \in StoreRecord /\ Histories'
  BY <1>1, <1>4 DEF TakesItem, SharedType, Histories, Heard
<1>8. SharedType'
  BY <1>1, <1>5, <1>6, <1>7, GatewayStepTypes
<1>9. Drops(g)
  BY <1>1, <1>3, <1>4, <1>5 DEF Drops, s
<1> QED
  BY <1>8, <1>9

LEMMA DeliverRefusedStep ==
  ASSUME SharedType, NEW g \in Gateways, Flags', DeliverRefused(g)
  PROVE  SharedType' /\ Drops(g)
<1> DEFINE s == batch[g]
           t == Tail(s)
<1>1. /\ UNCHANGED <<db, owed, call, resume, fallbacks, raced, lastWord>> /\ s # <<>>
      /\ lost' = lost \cup {Head(s)} /\ batch' = [batch EXCEPT ![g] = t]
  BY DEF DeliverRefused, AtItem, threadVars, gatewayVars
<1>2. /\ s \in Seq(Owed) /\ owed \in [Gateways -> Seq(Owed)] /\ batch \in [Gateways -> Seq(Owed)]
  BY QueueFacts
<1> HIDE DEF s
<1>3. t \in Seq(Owed) /\ Shifts(s, t) /\ Head(s) = s[1] /\ s[1] \in Owed
  BY <1>1, <1>2, TailShifts
<1> HIDE DEF t
<1>5. Queues' /\ OtherQueues(g) /\ batch'[g] = t
  BY <1>1, <1>2, <1>3 DEF Queues, OtherQueues
<1>6. Locals' /\ Grow
  BY <1>1, Unchanging
<1>7. db' \in StoreRecord /\ Histories'
  BY <1>1, <1>3 DEF SharedType, Histories
<1>8. SharedType'
  BY <1>1, <1>5, <1>6, <1>7, GatewayStepTypes
<1>9. Drops(g)
  BY <1>1, <1>3, <1>5 DEF Drops, s
<1> QED
  BY <1>8, <1>9

LEMMA DeliverFailsStep ==
  ASSUME SharedType, NEW g \in Gateways, NEW failure, NEW ran \in BOOLEAN, Flags', DeliverFails(g, failure, ran)
  PROVE  SharedType' /\ Tries(g)
<1> DEFINE s == batch[g]
           item == Head(s)
<1>1. /\ UNCHANGED <<owed, batch, call, resume, fallbacks, raced, lost>> /\ s # <<>>
      /\ db' = (IF ran THEN TakeScript(item) ELSE db)
      /\ lastWord' = (IF item.kind = "r" THEN Word(db.tally, db'.tally) ELSE lastWord)
  BY DEF DeliverFails, AtItem, gatewayVars, threadVars
<1>2. s \in Seq(Owed) /\ Len(s) \in Nat
  BY QueueFacts
<1>3. Locals' /\ Grow
  BY <1>1, Unchanging
<1> HIDE DEF s
<1>4. item = s[1] /\ item \in Owed /\ Len(s) > 0
  BY <1>1, <1>2
<1> HIDE DEF item
<1>5. /\ db' \in StoreRecord /\ lastWord' \in {"pause", lastWord}
      /\ \/ TakesItem(db, db', item.kind, item.call) /\ Heard(item.kind)
         \/ db' = db /\ lastWord' = lastWord
  <2>1. CASE ran
    <3>1. TakesItem(db, db', item.kind, item.call)
      BY <1>1, <1>4, <2>1, TakeFacts
    <3>2. item.kind \in {"r", "l", "p", "u"}
      BY <1>4, OwedParts
    <3>3. Heard(item.kind)
      BY <1>1, <3>1, <3>2 DEF Heard, Word, Pauses, TakesItem
    <3> QED
      BY <3>1, <3>3 DEF Heard, TakesItem
  <2>2. CASE ~ran
    <3>1. db' = db /\ lastWord' = lastWord
      BY <1>1, <2>2 DEF Word, Pauses
    <3> QED
      BY <3>1 DEF SharedType
  <2> QED
    BY <2>1, <2>2
<1>6. Queues' /\ Histories'
  BY <1>1, <1>5 DEF SharedType, Queues, Histories
<1>7. SharedType'
  BY <1>1, <1>3, <1>5, <1>6, GatewayStepTypes
<1>8. Tries(g)
  BY <1>1, <1>4, <1>5 DEF Tries, s
<1> QED
  BY <1>7, <1>8

LEMMA DeliverStopsStep ==
  ASSUME SharedType, NEW g \in Gateways, Flags', DeliverStops(g)
  PROVE  SharedType' /\ PutsBack(g)
<1> DEFINE s == batch[g]
           q == owed[g]
<1>1. /\ UNCHANGED <<db, call, resume, fallbacks, lost, lastWord, raced>> /\ s # <<>>
      /\ batch' = [batch EXCEPT ![g] = <<>>] /\ owed' = [owed EXCEPT ![g] = s \o q]
  BY QueueFacts DEF DeliverStops, PutBack, storeVars, threadVars, history
<1>2. /\ s \in Seq(Owed) /\ q \in Seq(Owed) /\ Len(s) \in Nat
      /\ owed \in [Gateways -> Seq(Owed)] /\ batch \in [Gateways -> Seq(Owed)]
  BY QueueFacts
<1>3. Locals' /\ Grow
  BY <1>1, Unchanging
<1> HIDE DEF s, q
<1>4. Len(s) > 0
  BY <1>1, <1>2
<1>5. s \o q \in Seq(Owed) /\ Splits(s \o q, s, q)
  BY <1>2, JoinFacts
<1>6. Queues' /\ OtherQueues(g) /\ batch'[g] = <<>> /\ owed'[g] = s \o q
  <2> DEFINE t == s \o q
  <2>1. t \in Seq(Owed) /\ owed' = [owed EXCEPT ![g] = t]
    BY <1>1, <1>5
  <2> HIDE DEF t
  <2>2. owed' \in [Gateways -> Seq(Owed)] /\ owed'[g] = t /\ \A h \in Gateways \ {g} : owed'[h] = owed[h]
    BY <1>2, <2>1
  <2>3. batch' \in [Gateways -> Seq(Owed)] /\ batch'[g] = <<>> /\ \A h \in Gateways \ {g} : batch'[h] = batch[h]
    BY <1>1, <1>2, EmptySeq
  <2> QED
    BY <2>2, <2>3 DEF Queues, OtherQueues, t
<1>7. Histories' /\ db' \in StoreRecord
  BY <1>1 DEF SharedType, Histories
<1>8. SharedType'
  BY <1>1, <1>3, <1>6, <1>7, GatewayStepTypes
<1>9. PutsBack(g)
  BY <1>1, <1>4, <1>5, <1>6 DEF PutsBack, s, q
<1> QED
  BY <1>8, <1>9

LEMMA EndStep ==
  ASSUME SharedType, NEW g \in Gateways, Flags', FlushFailed(g) \/ RecoverReopens(g)
  PROVE  SharedType' /\ Idles
<1>1. UNCHANGED <<db, owed, batch, call, resume, lost, lastWord, raced>>
  BY DEF FlushFailed, RecoverReopens, storeVars, threadVars, history
<1>2. Locals' /\ Grow /\ (Calm => Calm')
  BY EndFacts
<1>3. Idles
  BY <1>1, <1>2 DEF Idles
<1> QED
  BY <1>2, <1>3, IdlesTypes

\* Every step is of one of these kinds.
SharedStep ==
  \/ \E c \in Calls : Walks(c) \/ Enquires(c) \/ OwesPause(c) \/ OwesCall(c) \/ Pays(c)
  \/ \E u \in Resumes : ClearsStore(u) \/ ClearsLocal(u) \/ Proceeds(u) \/ OwesAsk(u)
  \/ \E g \in Gateways : Batches(g) \/ Drops(g) \/ Tries(g) \/ PutsBack(g)
  \/ Idles

LEMMA StepIs ==
  ASSUME SharedType, [Next]_vars
  PROVE  SharedType' /\ SharedStep
<1>1. ASSUME NEW c \in Calls, CallMoves(c) \/ CallFails(c) \/ Settle(c) \/ \E g \in Gateways : Begin(c, g)
      PROVE  SharedType' /\ (Walks(c) \/ Enquires(c) \/ OwesPause(c) \/ OwesCall(c) \/ Pays(c))
  <2>1. Flags'
    BY <1>1, FlagsOfCalls
  <2>2. ASSUME NEW failure \in Failures, NEW ran \in BOOLEAN, AskFails(c, failure, ran) \/ TakeFails(c, failure, ran)
        PROVE  SharedType' /\ (Enquires(c) \/ Pays(c))
    BY <2>1, <2>2, AskFailsStep, TakeFailsStep
  <2>3. ASSUME CallMoves(c)
        PROVE  SharedType' /\ (Walks(c) \/ Enquires(c) \/ OwesPause(c) \/ OwesCall(c) \/ Pays(c))
    BY <2>3, AskStep, ProcessStep, AskFailedStep, PickLocalStep, DecideStep, DispatchTakeStep, DispatchOweStep,
       ApplyStep, TakeStep, TakeFailedStep, OweSettlementStep DEF CallMoves
  <2>4. ASSUME CallFails(c)
        PROVE  SharedType' /\ (Enquires(c) \/ Pays(c))
    BY <2>2, <2>4, AskStep DEF CallFails
  <2> QED
    BY <1>1, <2>3, <2>4, SettleStep, BeginStep
<1>2. ASSUME NEW u \in Resumes,
             \/ ResumeMoves(u) \/ \E g \in Gateways : ResumeBegin(u, g)
             \/ \E failure \in Failures, ran \in BOOLEAN : ResumeFails(u, failure, ran)
      PROVE  SharedType' /\ (ClearsStore(u) \/ ClearsLocal(u) \/ Proceeds(u) \/ OwesAsk(u))
  <2>1. Flags'
    BY <1>2, FlagsOfResumes
  <2> QED
    BY <1>2, <2>1, ResumeAskStep, ResumeFailedStep, ResumeLocalStep, OweResumeStep, ResumeBeginStep,
       ResumeFailsStep DEF ResumeMoves
<1>3. ASSUME NEW g \in Gateways, GatewayMoves(g) \/ GatewayFails(g)
      PROVE  SharedType' /\ (Batches(g) \/ Drops(g) \/ Tries(g) \/ PutsBack(g) \/ Idles)
  <2>1. Flags'
    BY <1>3, FlagsOfGateways
  <2>2. ASSUME GatewayMoves(g)
        PROVE  SharedType' /\ (Batches(g) \/ Drops(g) \/ Tries(g) \/ PutsBack(g) \/ Idles)
    BY <2>1, <2>2, IdleSteps, RecoverSwapStep, EndStep, DeliverBatchStep, DeliverTakeStep, DeliverStopsStep
       DEF GatewayMoves
  <2>3. ASSUME GatewayFails(g)
        PROVE  SharedType' /\ (Batches(g) \/ Drops(g) \/ Tries(g) \/ PutsBack(g) \/ Idles)
    BY <2>1, <2>3, IdleSteps, DeliverRefusedStep, DeliverFailsStep DEF GatewayFails
  <2> QED
    BY <1>3, <2>2, <2>3
<1>4. ASSUME UNCHANGED vars PROVE SharedType' /\ Idles
  <2>1. /\ UNCHANGED <<db, owed, batch, call, resume, lost, lastWord, raced, fallbacks>>
        /\ UNCHANGED <<degraded, streak, pausedSeen, deliverer, flush, recover, faults>>
    BY <1>4 DEF vars
  <2>2. Locals' /\ Grow /\ (Calm => Calm')
    BY <2>1, Unchanging
  <2>3. Flags'
    BY <2>1 DEF SharedType, Flags
  <2>4. Idles
    BY <2>1, <2>2 DEF Idles
  <2> QED
    BY <2>2, <2>3, <2>4, IdlesTypes
<1>5. CASE Next
  BY <1>1, <1>2, <1>3, <1>4, <1>5 DEF Next, Finished, SharedStep
<1> QED
  BY <1>4, <1>5 DEF SharedStep

-----------------------------------------------------------------------------
(* The initial states. *)

LEMMA SharedInitType == Init => SharedType
<1> SUFFICES ASSUME Init PROVE SharedType
  OBVIOUS
<1>1. db \in StoreRecord
  BY NewFields DEF Init, EmptyStore, StoreRecord, RunState, RunPauses
<1>2. Flags
  BY SharedAssumption DEF Init, Flags, RunPauses, RecoverRec, RecoverStates, FlushStates
<1>3. Queues
  BY EmptySeq DEF Init, Queues
<1>4. FreshFallback("no", FALSE) \in Fallback
  BY FreshFacts DEF RunPauses
<1>5. /\ fallbacks \in [Gateways -> Seq(Fallback)]
      /\ \A g \in Gateways : fallbacks[g] # <<>> /\ Len(fallbacks[g]) = 1
  <2> DEFINE fb == FreshFallback("no", FALSE)
             s  == <<fb>>
  <2>3. fb \in Fallback
    BY <1>4
  <2> HIDE DEF fb
  <2>1. s \in Seq(Fallback) /\ s # <<>> /\ Len(s) = 1
    BY <2>3
  <2>2. fallbacks = [g \in Gateways |-> s]
    BY DEF Init, fb
  <2> HIDE DEF s
  <2> QED
    BY <2>1, <2>2
<1>6. (CHOOSE g \in Gateways : TRUE) \in Gateways
  BY SharedAssumption
<1>7. NewCall \in CallRec /\ NewCall.pc = "idle" /\ NewCall.ptr = 0
  <2>1. Answer(FALSE, "no") \in Answers
    BY DEF Answer, Answers, RunPauses
  <2>2. <<>> \in Seq(RunPauses)
    BY EmptySeq
  <2> DEFINE g == CHOOSE h \in Gateways : TRUE
             a == Answer(FALSE, "no")
             e == <<>>
  <2>3. g \in Gateways /\ a \in Answers /\ e \in Seq(RunPauses)
    BY <1>6, <2>1, <2>2
  <2>4. NewCall = [pc |-> "idle", gw |-> g, ptr |-> 0, where |-> "", answer |-> a, evs |-> e,
                   next |-> "done", kind |-> "r", cost |-> 0, loop |-> FALSE, failure |-> "busy"]
    BY DEF NewCall
  <2> HIDE DEF g, a, e
  <2> QED
    BY <2>3, <2>4 DEF CallRec, CallStates, Failures
<1>8. Threads
  <2>1. call \in [Calls -> CallRec] /\ \A c \in Calls : call[c].pc = "idle" /\ call[c].ptr = 0
    <3> HIDE DEF NewCall
    <3> QED
      BY <1>7 DEF Init
  <2>2. \A c \in Calls : CallFits(call[c])
    <3>1. \A c \in Calls : call[c].gw \in Gateways
      BY <2>1 DEF CallRec
    <3> QED
      BY <1>5, <2>1, <3>1 DEF CallFits
  <2>3. resume \in [Resumes -> ResumeRec] /\ \A u \in Resumes : resume[u].pc = "idle"
    BY <1>6 DEF Init, ResumeRec, ResumeStates, Failures
  <2> QED
    BY <2>1, <2>2, <2>3 DEF Threads, ResumeFits
<1>9. Histories
  BY DEF Init, Histories
<1> QED
  BY <1>1, <1>2, <1>3, <1>5, <1>8, <1>9 DEF SharedType, Locals

LEMMA SharedInit == Init => SharedInv
<1> SUFFICES ASSUME Init PROVE SharedInv
  OBVIOUS
<1>1. SharedType
  BY SharedInitType
<1>2. /\ db.settled = {} /\ db.tally.inflight = 0 /\ db.tally.calls = 0
      /\ \A c \in Calls : db.admits[c] = "none"
  BY NewFields DEF Init, EmptyStore
<1>3. \A g \in Gateways : Len(owed[g]) = 0 /\ Len(batch[g]) = 0
  BY DEF Init
<1>4. \A c \in Calls : call[c].pc = "idle" /\ call[c].where = ""
  BY DEF Init, NewCall
<1>5. Sent
  <2>1. \A g \in Gateways : 1..Len(owed[g]) = {} /\ 1..Len(batch[g]) = {}
    BY <1>3
  <2>2. \A c \in Calls : ~(call[c].where = "shared" /\ call[c].pc \in Through) /\ call[c].pc # "answered"
    BY <1>4
  <2> QED
    BY <1>2, <2>1, <2>2 DEF Sent
<1>6. NoSettlementLost
  BY <1>4 DEF NoSettlementLost
<1>7. Counted
  <2>1. Held = {} /\ Recorded = {}
    BY <1>2 DEF Held, Recorded
  <2>2. Cardinality(Held) = 0 /\ Cardinality(Recorded) = 0
    BY <2>1, FS_EmptySet
  <2> QED
    BY <1>2, <2>2, PolicyAssumption DEF Counted
<1>8. Ordered
  BY DEF Init, Ordered
<1> QED
  BY <1>1, <1>5, <1>6, <1>7, <1>8 DEF SharedInv

LEMMA TypeImplies == SharedType => TypeOK
<1> SUFFICES ASSUME SharedType PROVE TypeOK
  OBVIOUS
<1>1. /\ db \in StoreRecord /\ degraded \in [Gateways -> BOOLEAN] /\ pausedSeen \in [Gateways -> RunPauses]
      /\ streak \in [Gateways -> 0..FailStreakToDegrade]
      /\ deliverer \in [Gateways -> {"none", "flush", "recover"}]
      /\ flush \in [Gateways -> {"idle", "deliver"} \cup Failures] /\ faults \in 0..MaxFaults
      /\ lost \subseteq Owed /\ lastWord \in {"none", "pause", "resume"} /\ raced \in BOOLEAN
  BY DEF SharedType, Flags, FlushStates, Histories
<1>2. recover \in [Gateways -> [pc: RecoverStates, pass: 0..WriteBackPasses]]
  BY DEF SharedType, Flags, RecoverRec
<1>3. \A g \in Gateways : /\ fallbacks[g] \in Seq(Fallback) /\ fallbacks[g] # <<>>
                          /\ owed[g] \in Seq(Owed) /\ batch[g] \in Seq(Owed)
  BY DEF SharedType, Locals, Queues
<1>4. \A c \in Calls : call[c].pc \in CallStates /\ call[c].ptr \in 0..Len(fallbacks[call[c].gw])
  <2> TAKE c \in Calls
  <2>1. /\ call[c].ptr \in Nat /\ call[c].pc \in CallStates /\ call[c].ptr <= Len(fallbacks[call[c].gw])
        /\ Len(fallbacks[call[c].gw]) \in Nat
    BY CallFacts DEF CallFits
  <2> QED
    BY <2>1
<1>5. \A u \in Resumes : resume[u].pc \in ResumeStates
  BY DEF SharedType, Threads, ResumeRec
<1> QED
  BY <1>1, <1>2, <1>3, <1>4, <1>5 DEF TypeOK

-----------------------------------------------------------------------------
(* What every step keeps. *)

LEMMA PushedItems ==
  ASSUME NEW s \in Seq(Owed), NEW t \in Seq(Owed), NEW item, Pushed(s, t, item)
  PROVE  Items(t) \subseteq Items(s) \cup {item} /\ Items(s) \subseteq Items(t) \cup lost' /\ item \in Items(t)
<1>1. Len(s) \in Nat /\ Len(t) \in Nat /\ Len(t) > 0 /\ t[Len(t)] = item
  BY DEF Pushed
<1>2. CASE Len(t) = Len(s) + 1 /\ \A i \in 1..Len(s) : t[i] = s[i]
  <2>1. ASSUME NEW i \in 1..Len(t) PROVE t[i] \in Items(s) \cup {item}
    <3>1. i = Len(t) \/ i \in 1..Len(s)
      BY <1>1, <1>2
    <3> QED
      BY <1>1, <1>2, <3>1 DEF Items
  <2>2. ASSUME NEW i \in 1..Len(s) PROVE s[i] \in Items(t)
    <3>1. i \in 1..Len(t) /\ t[i] = s[i]
      BY <1>1, <1>2
    <3> QED
      BY <3>1 DEF Items
  <2>3. Items(t) \subseteq Items(s) \cup {item}
    BY <2>1 DEF Items
  <2>4. Items(s) \subseteq Items(t)
    BY <2>2 DEF Items
  <2>5. item \in Items(t)
    BY <1>1 DEF Items
  <2> QED
    BY <2>3, <2>4, <2>5
<1>3. CASE /\ Len(s) > 0 /\ Len(t) = Len(s) /\ \A i \in 1..(Len(s) - 1) : t[i] = s[i + 1]
           /\ s[1] \in lost'
  <2>1. ASSUME NEW i \in 1..Len(t) PROVE t[i] \in Items(s) \cup {item}
    <3>1. i = Len(t) \/ (i \in 1..(Len(s) - 1) /\ i + 1 \in 1..Len(s))
      BY <1>1, <1>3
    <3> QED
      BY <1>1, <1>3, <3>1 DEF Items
  <2>2. ASSUME NEW i \in 1..Len(s) PROVE s[i] \in Items(t) \cup lost'
    <3>1. i = 1 \/ (i - 1 \in 1..(Len(s) - 1) /\ i - 1 \in 1..Len(t) /\ (i - 1) + 1 = i)
      BY <1>1, <1>3
    <3> QED
      BY <1>3, <3>1 DEF Items
  <2> QED
    BY <1>1, <2>1, <2>2 DEF Items
<1> QED
  BY <1>2, <1>3 DEF Pushed

LEMMA ShiftsItems ==
  ASSUME NEW s \in Seq(Owed), NEW t \in Seq(Owed), Shifts(s, t)
  PROVE  Items(t) \subseteq Items(s) /\ Items(s) \subseteq Items(t) \cup {s[1]} /\ s[1] \in Items(s)
<1>1. Len(s) \in Nat /\ Len(t) \in Nat /\ Len(s) > 0 /\ Len(t) = Len(s) - 1
      /\ \A i \in 1..Len(t) : t[i] = s[i + 1]
  BY DEF Shifts
<1>2. ASSUME NEW i \in 1..Len(t) PROVE t[i] \in Items(s)
  <2>1. i + 1 \in 1..Len(s)
    BY <1>1
  <2> QED
    BY <1>1, <2>1 DEF Items
<1>3. ASSUME NEW i \in 1..Len(s) PROVE s[i] \in Items(t) \cup {s[1]}
  <2>1. i = 1 \/ (i - 1 \in 1..Len(t) /\ (i - 1) + 1 = i)
    BY <1>1
  <2> QED
    BY <1>1, <2>1 DEF Items
<1>4. 1 \in 1..Len(s)
  BY <1>1
<1> QED
  BY <1>2, <1>3, <1>4 DEF Items

LEMMA SplitsItems ==
  ASSUME NEW s \in Seq(Owed), NEW q \in Seq(Owed), NEW r \in Seq(Owed), Splits(s, q, r)
  PROVE  Items(s) = Items(q) \cup Items(r)
<1>1. /\ Len(s) \in Nat /\ Len(q) \in Nat /\ Len(r) \in Nat /\ Len(s) = Len(q) + Len(r)
      /\ \A i \in 1..Len(q) : s[i] = q[i]
      /\ \A i \in 1..Len(r) : s[Len(q) + i] = r[i]
  BY DEF Splits
<1>2. ASSUME NEW i \in 1..Len(s) PROVE s[i] \in Items(q) \cup Items(r)
  <2>1. i \in 1..Len(q) \/ (i - Len(q) \in 1..Len(r) /\ Len(q) + (i - Len(q)) = i)
    BY <1>1
  <2> QED
    BY <2>1 DEF Items, Splits
<1>3. ASSUME NEW i \in 1..Len(q) PROVE q[i] \in Items(s)
  <2>1. i \in 1..Len(s)
    BY <1>1
  <2> QED
    BY <2>1 DEF Items, Splits
<1>4. ASSUME NEW i \in 1..Len(r) PROVE r[i] \in Items(s)
  <2>1. Len(q) + i \in 1..Len(s)
    BY <1>1
  <2> QED
    BY <2>1 DEF Items, Splits
<1> QED
  BY <1>2, <1>3, <1>4 DEF Items

\* A call that is over stays as it is; the store forgets nothing.
LEMMA StoreStays ==
  ASSUME NEW x \in StoreRecord, NEW y, NEW kind, NEW c, NEW a, NEW mode,
         \/ kind \in {"r", "l", "p", "u"} /\ TakesItem(x, y, kind, c)
         \/ c \in Calls /\ AdmitsCall(x, y, c, a, mode)
  PROVE  x.settled \subseteq y.settled /\ \A d \in Calls : x.admits[d] = "served" => y.admits[d] = "served"
BY DEF TakesItem, AdmitsCall

LEMMA StepStays ==
  ASSUME SharedType, SharedStep
  PROVE  /\ \A c \in Calls : call[c].pc = "done" => call'[c] = call[c]
         /\ db.settled \subseteq db'.settled /\ lost \subseteq lost'
         /\ \A d \in Calls : db.admits[d] = "served" => db'.admits[d] = "served"
<1>0. db \in StoreRecord
  BY DEF SharedType
<1>1. ASSUME NEW c \in Calls, Walks(c) \/ Enquires(c) \/ OwesPause(c) \/ OwesCall(c) \/ Pays(c)
      PROVE  /\ \A d \in Calls : call[d].pc = "done" => call'[d] = call[d]
             /\ db.settled \subseteq db'.settled /\ lost \subseteq lost'
             /\ \A d \in Calls : db.admits[d] = "served" => db'.admits[d] = "served"
  <2>1. \A d \in Calls : call[d].pc = "done" => call'[d] = call[d]
    BY <1>1 DEF Walks, Enquires, OwesPause, OwesCall, Pays, Others, Sending
  <2>2. lost \subseteq lost'
    BY <1>1 DEF Walks, Enquires, OwesPause, OwesCall, Pays
  <2>3. CASE Walks(c) \/ OwesPause(c) \/ OwesCall(c)
    BY <2>1, <2>2, <2>3 DEF Walks, OwesPause, OwesCall
  <2>4. CASE Enquires(c)
    <3>1. PICK a : AdmitsCall(db, db', c, a, Mode(c))
      BY <2>4 DEF Enquires
    <3> QED
      BY <1>0, <2>1, <2>2, <3>1, StoreStays
  <2>5. CASE Pays(c)
    <3>1. db' = db \/ (call[c].kind \in {"r", "l", "p", "u"} /\ TakesItem(db, db', call[c].kind, c))
      BY <2>5 DEF Pays
    <3> QED
      BY <1>0, <2>1, <2>2, <3>1, StoreStays
  <2> QED
    BY <1>1, <2>3, <2>4, <2>5
<1>2. ASSUME NEW u \in Resumes, ClearsStore(u) \/ ClearsLocal(u) \/ Proceeds(u) \/ OwesAsk(u)
      PROVE  /\ call' = call /\ lost \subseteq lost' /\ db.settled \subseteq db'.settled
             /\ \A d \in Calls : db.admits[d] = "served" => db'.admits[d] = "served"
  <2>1. call' = call /\ lost \subseteq lost' /\ (db' = db \/ TakesItem(db, db', "u", NoCall))
    BY <1>2 DEF ClearsStore, ClearsLocal, Proceeds, OwesAsk
  <2> QED
    BY <1>0, <2>1, StoreStays
<1>3. ASSUME NEW g \in Gateways, Batches(g) \/ Drops(g) \/ Tries(g) \/ PutsBack(g)
      PROVE  /\ call' = call /\ lost \subseteq lost' /\ db.settled \subseteq db'.settled
             /\ \A d \in Calls : db.admits[d] = "served" => db'.admits[d] = "served"
  <2>1. call' = call /\ lost \subseteq lost'
    BY <1>3 DEF Batches, Drops, Tries, PutsBack
  <2>2. db' = db \/ (batch[g][1] \in Owed /\ TakesItem(db, db', batch[g][1].kind, batch[g][1].call))
    BY <1>3 DEF Batches, Drops, Tries, PutsBack
  <2>3. batch[g][1] \in Owed => batch[g][1].kind \in {"r", "l", "p", "u"}
    BY OwedParts
  <2> QED
    BY <1>0, <2>1, <2>2, <2>3, StoreStays
<1> QED
  BY <1>1, <1>2, <1>3 DEF SharedStep, Idles

\* What gateway g has yet to hand to the store.
Waiting(g) == Items(owed[g]) \cup Items(batch[g])

LEMMA WaitingFacts ==
  ASSUME SharedType, NEW g \in Gateways
  PROVE  /\ Awaits(g) = Waiting(g) /\ Waiting(g) \subseteq Owed
         /\ owed[g] \in Seq(Owed) /\ batch[g] \in Seq(Owed)
<1>1. owed[g] \in Seq(Owed) /\ batch[g] \in Seq(Owed)
  BY QueueFacts
<1>2. /\ DOMAIN owed[g] = 1..Len(owed[g]) /\ DOMAIN batch[g] = 1..Len(batch[g])
      /\ \A i \in 1..Len(owed[g]) : owed[g][i] \in Owed
      /\ \A i \in 1..Len(batch[g]) : batch[g][i] \in Owed
  BY <1>1
<1> QED
  BY <1>1, <1>2 DEF Awaits, Waiting, Items

\* An item that came into a queue is a pause, or is the sender's own.
LEMMA PutsFacts ==
  ASSUME SharedType, SharedType', NEW g \in Gateways, NEW h \in Gateways, NEW item,
         OtherQueues(g), Pushed(owed[g], owed'[g], item), batch' = batch
  PROVE  Waiting(h)' \subseteq Waiting(h) \cup {item} /\ Waiting(h) \subseteq Waiting(h)' \cup lost'
<1>1. owed[g] \in Seq(Owed) /\ owed'[g] \in Seq(Owed)
  BY DEF SharedType, Queues
<1>2. Items(owed'[g]) \subseteq Items(owed[g]) \cup {item} /\ Items(owed[g]) \subseteq Items(owed'[g]) \cup lost'
  BY <1>1, PushedItems
<1>3. h # g => owed'[h] = owed[h]
  BY DEF OtherQueues
<1>4. CASE h = g
  BY <1>2, <1>4 DEF Waiting
<1>5. CASE h # g
  BY <1>3, <1>5 DEF Waiting
<1> QED
  BY <1>4, <1>5

LEMMA NewItems ==
  ASSUME SharedType, SharedType', SharedStep, NEW h \in Gateways, NEW item \in Waiting(h)'
  PROVE  item \in Waiting(h) \/ OwnItem(item)'
<1>1. ASSUME NEW c \in Calls, OwesPause(c) PROVE item \in Waiting(h) \/ OwnItem(item)'
  <2>1. PICK g \in Gateways, push \in Owed : push.kind = "p" /\ OtherQueues(g) /\ Pushed(owed[g], owed'[g], push)
    BY <1>1 DEF OwesPause
  <2>2. Waiting(h)' \subseteq Waiting(h) \cup {push}
    BY <1>1, <2>1, PutsFacts DEF OwesPause
  <2> QED
    BY <2>1, <2>2 DEF OwnItem
<1>2. ASSUME NEW c \in Calls, OwesCall(c) PROVE item \in Waiting(h) \/ OwnItem(item)'
  <2> DEFINE push == Settlement(call[c].kind, c)
  <2>1. /\ call[c].gw \in Gateways /\ OtherQueues(call[c].gw)
        /\ Pushed(owed[call[c].gw], owed'[call[c].gw], push) /\ batch' = batch
        /\ call'[c].pc = "done" /\ call'[c].where = "shared" /\ call'[c].kind = call[c].kind
        /\ call[c].kind \in {"r", "l"}
    BY <1>2 DEF OwesCall, SameCall
  <2>2. push.kind = call[c].kind /\ push.call = c
    BY <2>1, OwedParts
  <2> HIDE DEF push
  <2>3. Waiting(h)' \subseteq Waiting(h) \cup {push}
    BY <2>1, PutsFacts
  <2>4. ASSUME item = push PROVE OwnItem(item)'
    BY <2>1, <2>2, <2>4 DEF OwnItem
  <2> QED
    BY <2>3, <2>4
<1>3. ASSUME NEW u \in Resumes, OwesAsk(u) PROVE item \in Waiting(h) \/ OwnItem(item)'
  <2>1. /\ resume[u].gw \in Gateways /\ OtherQueues(resume[u].gw) /\ batch' = batch
        /\ Pushed(owed[resume[u].gw], owed'[resume[u].gw], OwedResume)
    BY <1>3 DEF OwesAsk
  <2>2. Waiting(h)' \subseteq Waiting(h) \cup {OwedResume}
    BY <2>1, PutsFacts
  <2>3. OwedResume.kind = "u"
    BY OwedParts
  <2> QED
    BY <2>2, <2>3 DEF OwnItem
<1>4. ASSUME NEW g \in Gateways, Batches(g) \/ Drops(g) \/ Tries(g) \/ PutsBack(g) PROVE item \in Waiting(h)
  <2>1. CASE h # g
    BY <1>4, <2>1 DEF Batches, Drops, Tries, PutsBack, OtherQueues, Waiting
  <2>2. CASE h = g
    <3>1. /\ owed[g] \in Seq(Owed) /\ owed'[g] \in Seq(Owed)
          /\ batch[g] \in Seq(Owed) /\ batch'[g] \in Seq(Owed)
      BY DEF SharedType, Queues
    <3>2. CASE Batches(g)
      <4>1. Items(owed[g]) = Items(batch'[g]) \cup Items(owed'[g])
        BY <3>1, <3>2, SplitsItems DEF Batches
      <4> QED
        BY <2>2, <4>1 DEF Waiting
    <3>3. CASE Drops(g)
      <4>1. Items(batch'[g]) \subseteq Items(batch[g]) /\ owed' = owed
        BY <3>1, <3>3, ShiftsItems DEF Drops
      <4> QED
        BY <2>2, <4>1 DEF Waiting
    <3>4. CASE PutsBack(g)
      <4>1. Items(owed'[g]) = Items(batch[g]) \cup Items(owed[g]) /\ Items(batch'[g]) = {}
        <5>1. 1..Len(batch'[g]) = {}
          BY <3>4 DEF PutsBack
        <5>2. Items(batch'[g]) = {}
          BY <5>1 DEF Items
        <5> QED
          BY <3>1, <3>4, <5>2, SplitsItems DEF PutsBack
      <4> QED
        BY <2>2, <4>1 DEF Waiting
    <3>5. CASE Tries(g)
      BY <3>5 DEF Tries, Waiting
    <3> QED
      BY <1>4, <3>2, <3>3, <3>4, <3>5
  <2> QED
    BY <2>1, <2>2
<1>5. ASSUME UNCHANGED <<owed, batch>> PROVE item \in Waiting(h)
  BY <1>5 DEF Waiting
<1>6. ASSUME NEW c \in Calls, Walks(c) \/ Enquires(c) \/ Pays(c) PROVE UNCHANGED <<owed, batch>>
  BY <1>6 DEF Walks, Enquires, Pays
<1>7. ASSUME NEW u \in Resumes, ClearsStore(u) \/ ClearsLocal(u) \/ Proceeds(u) PROVE UNCHANGED <<owed, batch>>
  BY <1>7 DEF ClearsStore, ClearsLocal, Proceeds
<1>8. Idles => UNCHANGED <<owed, batch>>
  BY DEF Idles
<1> QED
  BY <1>1, <1>2, <1>3, <1>4, <1>5, <1>6, <1>7, <1>8 DEF SharedStep

LEMMA OldItems ==
  ASSUME SharedType, SharedType', SharedStep, NEW h \in Gateways, NEW item \in Waiting(h)
  PROVE  \/ item \in Waiting(h)' \/ item \in lost'
         \/ item.kind \in {"r", "l"} => item.call \in db'.settled
<1>1. ASSUME NEW c \in Calls, OwesPause(c) PROVE item \in Waiting(h)' \cup lost'
  <2>1. PICK g \in Gateways, push \in Owed : push.kind = "p" /\ OtherQueues(g) /\ Pushed(owed[g], owed'[g], push)
    BY <1>1 DEF OwesPause
  <2> QED
    BY <1>1, <2>1, PutsFacts DEF OwesPause
<1>2. ASSUME NEW c \in Calls, OwesCall(c) PROVE item \in Waiting(h)' \cup lost'
  <2> DEFINE push == Settlement(call[c].kind, c)
  <2>1. /\ call[c].gw \in Gateways /\ OtherQueues(call[c].gw)
        /\ Pushed(owed[call[c].gw], owed'[call[c].gw], push) /\ batch' = batch
    BY <1>2 DEF OwesCall
  <2> HIDE DEF push
  <2> QED
    BY <2>1, PutsFacts
<1>3. ASSUME NEW u \in Resumes, OwesAsk(u) PROVE item \in Waiting(h)' \cup lost'
  <2>1. /\ resume[u].gw \in Gateways /\ OtherQueues(resume[u].gw) /\ batch' = batch
        /\ Pushed(owed[resume[u].gw], owed'[resume[u].gw], OwedResume)
    BY <1>3 DEF OwesAsk
  <2> QED
    BY <2>1, PutsFacts
<1>4. ASSUME NEW g \in Gateways, Batches(g) \/ Drops(g) \/ Tries(g) \/ PutsBack(g)
      PROVE  \/ item \in Waiting(h)' \/ item \in lost'
             \/ item.kind \in {"r", "l"} => item.call \in db'.settled
  <2>1. CASE h # g
    BY <1>4, <2>1 DEF Batches, Drops, Tries, PutsBack, OtherQueues, Waiting
  <2>2. CASE h = g
    <3>1. /\ owed[g] \in Seq(Owed) /\ owed'[g] \in Seq(Owed)
          /\ batch[g] \in Seq(Owed) /\ batch'[g] \in Seq(Owed)
      BY DEF SharedType, Queues
    <3>2. CASE Batches(g)
      <4>1. Items(owed[g]) = Items(batch'[g]) \cup Items(owed'[g]) /\ Items(batch[g]) = {}
        <5>1. 1..Len(batch[g]) = {}
          BY <3>2 DEF Batches
        <5>2. Items(batch[g]) = {}
          BY <5>1 DEF Items
        <5> QED
          BY <3>1, <3>2, <5>2, SplitsItems DEF Batches
      <4> QED
        BY <2>2, <4>1 DEF Waiting
    <3>3. CASE Drops(g)
      <4>1. Items(batch[g]) \subseteq Items(batch'[g]) \cup {batch[g][1]} /\ owed' = owed
        BY <3>1, <3>3, ShiftsItems DEF Drops
      <4>2. \/ batch[g][1] \in lost'
            \/ batch[g][1].kind \in {"r", "l"} => batch[g][1].call \in db'.settled
        BY <3>3 DEF Drops, TakesItem
      <4> QED
        BY <2>2, <4>1, <4>2 DEF Waiting
    <3>4. CASE PutsBack(g)
      <4>1. Items(owed'[g]) = Items(batch[g]) \cup Items(owed[g])
        BY <3>1, <3>4, SplitsItems DEF PutsBack
      <4> QED
        BY <2>2, <4>1 DEF Waiting
    <3>5. CASE Tries(g)
      BY <3>5 DEF Tries, Waiting
    <3> QED
      BY <1>4, <3>2, <3>3, <3>4, <3>5
  <2> QED
    BY <2>1, <2>2
<1>5. ASSUME UNCHANGED <<owed, batch>> PROVE item \in Waiting(h)'
  BY <1>5 DEF Waiting
<1>6. ASSUME NEW c \in Calls, Walks(c) \/ Enquires(c) \/ Pays(c) PROVE UNCHANGED <<owed, batch>>
  BY <1>6 DEF Walks, Enquires, Pays
<1>7. ASSUME NEW u \in Resumes, ClearsStore(u) \/ ClearsLocal(u) \/ Proceeds(u) PROVE UNCHANGED <<owed, batch>>
  BY <1>7 DEF ClearsStore, ClearsLocal, Proceeds
<1>8. Idles => UNCHANGED <<owed, batch>>
  BY DEF Idles
<1> QED
  BY <1>1, <1>2, <1>3, <1>4, <1>5, <1>6, <1>7, <1>8 DEF SharedStep

-----------------------------------------------------------------------------
(* Sent: what is settled was sent, what is sent was let through. *)

LEMMA SentParts ==
  Sent <=> /\ \A g \in Gateways : \A item \in Waiting(g) : OwnItem(item)
           /\ \A c \in db.settled : call[c].pc \in Sending /\ call[c].where = "shared"
           /\ \A c \in Calls : call[c].where = "shared" /\ call[c].pc \in Through => db.admits[c] = "served"
           /\ \A c \in Calls : call[c].pc = "answered" /\ call[c].answer.ok => db.admits[c] = "served"
BY DEF Sent, Waiting, Items

\* What a step makes of the store's record.
Settles(c, kind) ==
  /\ kind \in {"r", "l"} /\ TakesItem(db, db', kind, c) /\ call'[c].kind = kind
  /\ call[c].pc \in {"settling", "done"} /\ call[c].where = "shared"
Marks ==
  /\ db'.admits = db.admits /\ db'.settled = db.settled
  /\ \/ db'.tally.inflight = db.tally.inflight /\ db'.tally.calls = db.tally.calls
     \/ Resumes # {} /\ db'.tally.inflight = 0 /\ db'.tally.calls = 0

LEMMA StoreMoves ==
  ASSUME SharedType, Sent, SharedStep
  PROVE  \/ Marks
         \/ \E c \in Calls : Enquires(c)
         \/ \E c \in Calls, kind \in {"r", "l"} : Settles(c, kind)
<1>1. db' = db => Marks
  BY DEF Marks
<1>2. ASSUME NEW c \in Calls, Walks(c) \/ OwesPause(c) \/ OwesCall(c) PROVE Marks
  BY <1>1, <1>2 DEF Walks, OwesPause, OwesCall
<1>3. ASSUME NEW c \in Calls, Pays(c) PROVE Marks \/ \E kind \in {"r", "l"} : Settles(c, kind)
  <2>1. CASE db' = db
    BY <1>1, <2>1
  <2>2. CASE call[c].pc = "settling" /\ TakesItem(db, db', call[c].kind, c)
    <3>1. Settles(c, call[c].kind) /\ call[c].kind \in {"r", "l"}
      BY <1>3, <2>2 DEF Pays, SameCall, Settles
    <3> QED
      BY <3>1
  <2> QED
    BY <1>3, <2>1, <2>2 DEF Pays
<1>4. ASSUME NEW u \in Resumes, ClearsStore(u) \/ ClearsLocal(u) \/ Proceeds(u) \/ OwesAsk(u) PROVE Marks
  <2>1. db' = db \/ TakesItem(db, db', "u", NoCall)
    BY <1>4 DEF ClearsStore, ClearsLocal, Proceeds, OwesAsk
  <2> QED
    BY <1>1, <2>1 DEF TakesItem, Marks
<1>5. ASSUME NEW g \in Gateways, Batches(g) \/ Drops(g) \/ Tries(g) \/ PutsBack(g)
      PROVE  Marks \/ \E c \in Calls, kind \in {"r", "l"} : Settles(c, kind)
  <2> DEFINE item == batch[g][1]
  <2>1. db' = db \/ (item \in Owed /\ TakesItem(db, db', item.kind, item.call) /\ Len(batch[g]) > 0 /\ call' = call)
    BY <1>5 DEF Batches, Drops, Tries, PutsBack, Shifts
  <2>2. CASE db' = db
    BY <1>1, <2>2
  <2>3. CASE item \in Owed /\ TakesItem(db, db', item.kind, item.call) /\ Len(batch[g]) > 0 /\ call' = call
    <3>1. OwnItem(item)
      <4>1. 1 \in 1..Len(batch[g])
        BY <2>3, QueueFacts
      <4> QED
        BY <4>1 DEF Sent
    <3>2. item.kind \in {"r", "l", "p", "u"} /\ (item.kind \in {"r", "l"} => item.call \in Calls)
      BY <2>3, OwedParts
    <3> HIDE DEF item
    <3>3. CASE item.kind \in {"r", "l"}
      <4>1. Settles(item.call, item.kind)
        BY <2>3, <3>1, <3>3 DEF OwnItem, Settles
      <4> QED
        BY <3>2, <3>3, <4>1
    <3>4. CASE item.kind \in {"p", "u"}
      BY <2>3, <3>1, <3>4 DEF OwnItem, TakesItem, Marks
    <3> QED
      BY <3>2, <3>3, <3>4
  <2> QED
    BY <2>1, <2>2, <2>3
<1>6. Idles => Marks
  BY <1>1 DEF Idles
<1> QED
  BY <1>2, <1>3, <1>4, <1>5, <1>6 DEF SharedStep

LEMMA SentKept ==
  ASSUME SharedType, SharedType', SharedStep, Sent
  PROVE  Sent'
<1>0. /\ \A g \in Gateways : \A item \in Waiting(g) : OwnItem(item)
      /\ \A c \in db.settled : call[c].pc \in Sending /\ call[c].where = "shared"
      /\ \A c \in Calls : call[c].where = "shared" /\ call[c].pc \in Through => db.admits[c] = "served"
      /\ \A c \in Calls : call[c].pc = "answered" /\ call[c].answer.ok => db.admits[c] = "served"
  BY SentParts
<1>1. ASSUME NEW g \in Gateways, NEW item \in Waiting(g)' PROVE OwnItem(item)'
  <2>1. CASE item \in Waiting(g)
    <3>1. OwnItem(item) /\ item \in Owed
      BY <1>0, <2>1, WaitingFacts
    <3>2. item.kind \in {"r", "l"} => item.call \in Calls
      BY <3>1, OwedParts
    <3>3. item.kind \in {"r", "l"} => call'[item.call] = call[item.call]
      BY <3>1, <3>2, StepStays DEF OwnItem
    <3> QED
      BY <3>1, <3>3 DEF OwnItem
  <2> QED
    BY <2>1, NewItems
\* A call on its way to the store stays on it.
<1>2. ASSUME NEW c \in Calls, call[c].pc \in Sending, call[c].where = "shared"
      PROVE  call'[c].pc \in Sending /\ call'[c].where = "shared"
  <2>1. ASSUME NEW d \in Calls, Walks(d) \/ Enquires(d) \/ OwesPause(d) \/ OwesCall(d) \/ Pays(d)
        PROVE  call'[c].pc \in Sending /\ call'[c].where = "shared"
    BY <1>2, <2>1 DEF Walks, Enquires, OwesPause, OwesCall, Pays, Others, SameCall, Sending
  <2>2. call' = call => call'[c].pc \in Sending /\ call'[c].where = "shared"
    BY <1>2
  <2> QED
    BY <2>1, <2>2 DEF SharedStep, ClearsStore, ClearsLocal, Proceeds, OwesAsk, Batches, Drops, Tries, PutsBack, Idles
<1>3. ASSUME NEW c \in db'.settled
      PROVE  call'[c].pc \in Sending /\ call'[c].where = "shared"
  <2>1. c \in Calls
    BY RecordParts DEF SharedType
  <2>2. c \in db.settled \/ (call[c].pc \in {"settling", "done"} /\ call[c].where = "shared")
    <3>1. CASE Marks
      BY <3>1 DEF Marks
    <3>2. CASE \E d \in Calls : Enquires(d)
      BY <3>2 DEF Enquires, AdmitsCall
    <3>3. CASE \E d \in Calls, kind \in {"r", "l"} : Settles(d, kind)
      BY <3>3 DEF Settles, TakesItem
    <3> QED
      BY <3>1, <3>2, <3>3, StoreMoves
  <2> QED
    BY <1>0, <1>2, <2>1, <2>2 DEF Sending
<1>4. ASSUME NEW c \in Calls, call'[c].where = "shared", call'[c].pc \in Through
      PROVE  db'.admits[c] = "served"
  <2>1. call'[c] = call[c] => db'.admits[c] = "served"
    BY <1>0, <1>4, StepStays
  <2>2. CASE Walks(c)
    BY <1>0, <1>4, <2>2, StepStays DEF Walks, Through, Sending
  <2>3. CASE OwesCall(c) \/ Pays(c)
    BY <1>0, <1>4, <2>3, StepStays DEF OwesCall, Pays, Through
  <2>4. ~Enquires(c) /\ ~OwesPause(c)
    BY <1>4 DEF Enquires, OwesPause, Through
  <2>5. \A d \in Calls \ {c} : Walks(d) \/ Enquires(d) \/ OwesPause(d) \/ OwesCall(d) \/ Pays(d) => call'[c] = call[c]
    BY DEF Walks, Enquires, OwesPause, OwesCall, Pays, Others
  <2>6. (\E d \in Calls : Walks(d) \/ Enquires(d) \/ OwesPause(d) \/ OwesCall(d) \/ Pays(d)) \/ call' = call
    BY DEF SharedStep, ClearsStore, ClearsLocal, Proceeds, OwesAsk, Batches, Drops, Tries, PutsBack, Idles
  <2> QED
    BY <2>1, <2>2, <2>3, <2>4, <2>5, <2>6
<1>5. ASSUME NEW c \in Calls, call'[c].pc = "answered", call'[c].answer.ok
      PROVE  db'.admits[c] = "served"
  <2>1. call'[c] = call[c] => db'.admits[c] = "served"
    BY <1>0, <1>5, StepStays
  <2>2. CASE Enquires(c)
    BY <1>5, <2>2 DEF Enquires, AdmitsCall
  <2>3. ~Walks(c) /\ ~OwesPause(c) /\ ~OwesCall(c) /\ ~Pays(c)
    BY <1>5 DEF Walks, OwesPause, OwesCall, Pays
  <2>4. \A d \in Calls \ {c} : Walks(d) \/ Enquires(d) \/ OwesPause(d) \/ OwesCall(d) \/ Pays(d) => call'[c] = call[c]
    BY DEF Walks, Enquires, OwesPause, OwesCall, Pays, Others
  <2>5. (\E d \in Calls : Walks(d) \/ Enquires(d) \/ OwesPause(d) \/ OwesCall(d) \/ Pays(d)) \/ call' = call
    BY DEF SharedStep, ClearsStore, ClearsLocal, Proceeds, OwesAsk, Batches, Drops, Tries, PutsBack, Idles
  <2> QED
    BY <2>1, <2>2, <2>3, <2>4, <2>5
<1> QED
  BY <1>1, <1>3, <1>4, <1>5 DEF Sent, Waiting, Items

-----------------------------------------------------------------------------
(* NoSettlementLost. *)

LEMMA NoSettlementLostKept ==
  ASSUME SharedType, SharedType', SharedStep, NoSettlementLost
  PROVE  NoSettlementLost'
<1> SUFFICES ASSUME NEW c \in Calls, NEW g \in Gateways, NEW kind \in {"r", "l"},
                    call'[c].pc = "done", call'[c].where = "shared", call'[c].gw = g, call'[c].kind = kind
             PROVE  \/ c \in db'.settled \/ Settlement(kind, c) \in lost'
                    \/ Settlement(kind, c) \in Waiting(g)'
  <2>1. \A c \in Calls : call'[c].gw \in Gateways /\ call'[c].kind \in {"r", "l"}
    BY DEF SharedType, Threads, CallRec
  <2>2. \A g \in Gateways : Awaits(g)' = Waiting(g)'
    <3> TAKE g \in Gateways
    <3>1. owed'[g] \in Seq(Owed) /\ batch'[g] \in Seq(Owed)
      BY DEF SharedType, Queues
    <3>2. DOMAIN owed'[g] = 1..Len(owed'[g]) /\ DOMAIN batch'[g] = 1..Len(batch'[g])
      BY <3>1
    <3> QED
      BY <3>2 DEF Awaits, Waiting, Items
  <2>3. \A c \in Calls : call'[c].pc = "done" /\ call'[c].where = "shared" =>
          \/ c \in db'.settled \/ Settlement(call'[c].kind, c) \in lost'
          \/ \E g \in Gateways : g = call'[c].gw /\ Settlement(call'[c].kind, c) \in Awaits(g)'
    BY <2>1, <2>2
  <2> QED
    BY <2>3 DEF NoSettlementLost, Awaits
<1> DEFINE item == Settlement(kind, c)
<1>0. item.kind \in {"r", "l"} /\ item.call = c
  BY OwedParts
<1>1. CASE call[c].pc = "done"
  <2>1. /\ call[c].gw = g /\ call[c].kind = kind /\ call[c].where = "shared"
        /\ db.settled \subseteq db'.settled /\ lost \subseteq lost'
    BY <1>1, StepStays
  <2>2. c \in db.settled \/ item \in lost \/ item \in Waiting(g)
    BY <1>1, <2>1, WaitingFacts DEF NoSettlementLost
  <2>3. \A it \in Waiting(g) : it \in Waiting(g)' \/ it \in lost' \/ (it.kind \in {"r", "l"} => it.call \in db'.settled)
    BY OldItems
  <2> HIDE DEF item
  <2>4. c \in db'.settled \/ item \in lost' \/ item \in Waiting(g)'
    BY <1>0, <2>1, <2>2, <2>3
  <2> QED
    BY <2>4 DEF item
<1>2. CASE call[c].pc # "done"
  <2>1. call'[c] # call[c]
    BY <1>2
  <2>2. OwesCall(c) \/ Pays(c)
    <3>1. \A d \in Calls \ {c} : Walks(d) \/ Enquires(d) \/ OwesPause(d) \/ OwesCall(d) \/ Pays(d) => call'[c] = call[c]
      BY DEF Walks, Enquires, OwesPause, OwesCall, Pays, Others
    <3>2. (\E d \in Calls : Walks(d) \/ Enquires(d) \/ OwesPause(d) \/ OwesCall(d) \/ Pays(d)) \/ call' = call
      BY DEF SharedStep, ClearsStore, ClearsLocal, Proceeds, OwesAsk, Batches, Drops, Tries, PutsBack, Idles
    <3>3. ~Walks(c) /\ ~Enquires(c) /\ ~OwesPause(c)
      BY DEF Walks, Enquires, OwesPause
    <3> QED
      BY <2>1, <3>1, <3>2, <3>3
  <2>3. CASE OwesCall(c)
    <3>1. Pushed(owed[g], owed'[g], item)
      BY <2>3 DEF OwesCall, SameCall
    <3>2. owed[g] \in Seq(Owed) /\ owed'[g] \in Seq(Owed)
      BY DEF SharedType, Queues
    <3> HIDE DEF item
    <3>3. item \in Items(owed'[g])
      BY <3>1, <3>2, PushedItems
    <3>4. item \in Waiting(g)'
      BY <3>3 DEF Waiting
    <3> QED
      BY <3>4 DEF item
  <2>4. CASE Pays(c)
    BY <2>4 DEF Pays, SameCall, TakesItem
  <2> QED
    BY <2>2, <2>3, <2>4
<1> QED
  BY <1>1, <1>2

-----------------------------------------------------------------------------
(* Counted. *)

LEMMA CountsFacts ==
  ASSUME SharedType
  PROVE  /\ IsFiniteSet(Held) /\ IsFiniteSet(Recorded) /\ Held \cap Recorded = {}
         /\ Cardinality(Held) \in Nat /\ Cardinality(Recorded) \in Nat
         /\ db.tally.inflight \in Nat /\ db.tally.calls \in Nat /\ MaxCallsPerRun \in Nat
<1>1. db.settled \subseteq Calls /\ db.tally.inflight \in Nat /\ db.tally.calls \in Nat
  BY RecordParts DEF SharedType
<1>2. Held \in SUBSET Calls /\ Recorded \in SUBSET Calls /\ Held \cap Recorded = {}
  BY <1>1 DEF Held, Recorded
<1>3. IsFiniteSet(Held) /\ IsFiniteSet(Recorded)
  BY <1>2, SharedAssumption, FS_Subset
<1> QED
  BY <1>1, <1>2, <1>3, FS_CardinalityType, PolicyAssumption

\* A call the store has settled keeps its kind.
LEMMA KindStays ==
  ASSUME SharedType, Sent, SharedStep, NEW c \in db.settled
  PROVE  call'[c].kind = call[c].kind /\ c \in Calls
<1>1. call[c].pc \in Sending /\ c \in Calls
  BY RecordParts DEF Sent, SharedType
<1>2. ASSUME NEW d \in Calls, Walks(d) \/ Enquires(d) \/ OwesPause(d) \/ OwesCall(d) \/ Pays(d)
      PROVE  call'[c].kind = call[c].kind
  BY <1>1, <1>2 DEF Walks, Enquires, OwesPause, OwesCall, Pays, Others, SameCall, Sending
<1>3. (\E d \in Calls : Walks(d) \/ Enquires(d) \/ OwesPause(d) \/ OwesCall(d) \/ Pays(d)) \/ call' = call
  BY DEF SharedStep, ClearsStore, ClearsLocal, Proceeds, OwesAsk, Batches, Drops, Tries, PutsBack, Idles
<1> QED
  BY <1>1, <1>2, <1>3

LEMMA CountedKept ==
  ASSUME SharedType, SharedType', SharedStep, Sent, Counted
  PROVE  Counted'
<1>1. /\ IsFiniteSet(Held) /\ IsFiniteSet(Recorded)
      /\ Cardinality(Held) \in Nat /\ Cardinality(Recorded) \in Nat
      /\ db.tally.inflight \in Nat /\ db.tally.calls \in Nat /\ MaxCallsPerRun \in Nat
  BY CountsFacts
<1>2. db'.settled \subseteq Calls /\ db'.tally.inflight \in Nat /\ db'.tally.calls \in Nat
  <2>1. db' \in StoreRecord
    BY DEF SharedType
  <2> QED
    BY <2>1, RecordParts
<1>3. \A c \in db.settled : call'[c].kind = call[c].kind /\ c \in Calls
  BY KindStays
<1>4. /\ db.tally.inflight <= Cardinality(Held) /\ db.tally.calls <= Cardinality(Recorded)
      /\ Resumes = {} => db.tally.inflight = Cardinality(Held) /\ db.tally.calls = Cardinality(Recorded)
      /\ MaxCallsPerRun > 0 /\ Resumes = {} /\ BypassCalls = {} /\ ~Shadow =>
           Cardinality(Held) + Cardinality(Recorded) <= MaxCallsPerRun
  BY DEF Counted
\* The counts of the record after the step, whatever the step is.
<1>5. SUFFICES /\ db'.tally.inflight <= Cardinality(Held') /\ db'.tally.calls <= Cardinality(Recorded')
               /\ Resumes = {} => db'.tally.inflight = Cardinality(Held') /\ db'.tally.calls = Cardinality(Recorded')
               /\ MaxCallsPerRun > 0 /\ Resumes = {} /\ BypassCalls = {} /\ ~Shadow =>
                    Cardinality(Held') + Cardinality(Recorded') <= MaxCallsPerRun
  BY DEF Counted
<1>6. CASE Marks
  <2>1. Held' = Held /\ Recorded' = Recorded
    BY <1>3, <1>6 DEF Marks, Held, Recorded
  <2> QED
    BY <1>1, <1>4, <1>6, <2>1 DEF Marks
<1>7. ASSUME NEW c \in Calls, Enquires(c)
      PROVE  /\ db'.tally.inflight <= Cardinality(Held') /\ db'.tally.calls <= Cardinality(Recorded')
             /\ Resumes = {} => db'.tally.inflight = Cardinality(Held') /\ db'.tally.calls = Cardinality(Recorded')
             /\ MaxCallsPerRun > 0 /\ Resumes = {} /\ BypassCalls = {} /\ ~Shadow =>
                  Cardinality(Held') + Cardinality(Recorded') <= MaxCallsPerRun
  <2>1. PICK a : AdmitsCall(db, db', c, a, Mode(c))
    BY <1>7 DEF Enquires
  <2>2. db'.settled = db.settled /\ db'.tally.calls = db.tally.calls
    BY <2>1 DEF AdmitsCall
  <2>3. Recorded' = Recorded
    BY <1>3, <2>2 DEF Recorded
  <2>4. c \notin db.settled
    BY <1>7 DEF Enquires, Sent, Sending
  <2>5. CASE db'.tally.inflight = db.tally.inflight /\ (db'.admits[c] = "served" <=> db.admits[c] = "served")
    <3>1. Held' = Held
      BY <2>1, <2>2, <2>5 DEF AdmitsCall, Held
    <3> QED
      BY <1>4, <2>2, <2>3, <2>5, <3>1
  <2>6. CASE /\ db'.tally.inflight = db.tally.inflight + 1
             /\ db.admits[c] # "served" /\ db'.admits[c] = "served"
             /\ Mode(c) = "decide" /\ MaxCallsPerRun > 0 =>
                  db.tally.calls + db.tally.inflight < MaxCallsPerRun
    <3>1. Held' = Held \cup {c} /\ c \notin Held
      BY <2>1, <2>2, <2>4, <2>6 DEF AdmitsCall, Held
    <3>2. Cardinality(Held') = Cardinality(Held) + 1
      BY <1>1, <3>1, FS_AddElement
    <3>3. BypassCalls = {} /\ ~Shadow => Mode(c) = "decide"
      BY DEF Mode
    <3> QED
      BY <1>1, <1>4, <2>2, <2>3, <2>6, <3>2, <3>3
  <2> QED
    BY <2>1, <2>5, <2>6 DEF AdmitsCall
<1>8. ASSUME NEW c \in Calls, NEW kind \in {"r", "l"}, Settles(c, kind)
      PROVE  /\ db'.tally.inflight <= Cardinality(Held') /\ db'.tally.calls <= Cardinality(Recorded')
             /\ Resumes = {} => db'.tally.inflight = Cardinality(Held') /\ db'.tally.calls = Cardinality(Recorded')
             /\ MaxCallsPerRun > 0 /\ Resumes = {} /\ BypassCalls = {} /\ ~Shadow =>
                  Cardinality(Held') + Cardinality(Recorded') <= MaxCallsPerRun
  <2>1. TakesItem(db, db', kind, c) /\ call'[c].kind = kind
    BY <1>8 DEF Settles
  <2>2. db.admits[c] = "served"
    BY <1>8 DEF Settles, Sent, Through
  <2>3. CASE c \in db.settled
    <3>1. db' = db
      BY <2>1, <2>3 DEF TakesItem
    <3>2. Held' = Held /\ Recorded' = Recorded
      BY <1>3, <3>1 DEF Held, Recorded
    <3> QED
      BY <1>4, <3>1, <3>2
  <2>4. CASE c \notin db.settled
    <3>1. /\ db'.admits = db.admits /\ db'.settled = db.settled \cup {c}
          /\ db'.tally.inflight = Dec(db.tally.inflight)
          /\ db'.tally.calls = IF kind = "r" THEN db.tally.calls + 1 ELSE db.tally.calls
      BY <2>1, <2>4 DEF TakesItem
    <3>2. Held' = Held \ {c} /\ c \in Held
      BY <2>2, <2>4, <3>1 DEF Held
    <3>3. Cardinality(Held') = Cardinality(Held) - 1 /\ Cardinality(Held') \in Nat
      <4>1. Cardinality(Held') = Cardinality(Held) - 1 /\ IsFiniteSet(Held')
        BY <1>1, <3>2, FS_RemoveElement
      <4> QED
        BY <4>1, FS_CardinalityType
    <3>4. /\ Dec(db.tally.inflight) <= Cardinality(Held) - 1
          /\ db.tally.inflight = Cardinality(Held) => Dec(db.tally.inflight) = Cardinality(Held) - 1
      BY <1>1, <1>4, <3>3 DEF Dec
    <3>5. CASE kind = "r"
      <4>1. Recorded' = Recorded \cup {c} /\ c \notin Recorded
        BY <1>3, <2>1, <2>4, <3>1, <3>5 DEF Recorded
      <4>2. Cardinality(Recorded') = Cardinality(Recorded) + 1
        BY <1>1, <4>1, FS_AddElement
      <4> QED
        BY <1>1, <1>4, <3>1, <3>3, <3>4, <3>5, <4>2
    <3>6. CASE kind = "l"
      <4>1. Recorded' = Recorded
        BY <1>3, <2>1, <3>1, <3>6 DEF Recorded
      <4> QED
        BY <1>1, <1>4, <3>1, <3>3, <3>4, <3>6, <4>1
    <3> QED
      BY <3>5, <3>6
  <2> QED
    BY <2>3, <2>4
<1> QED
  BY <1>6, <1>7, <1>8, StoreMoves

-----------------------------------------------------------------------------
(* Ordered. *)

\* What Ordered says of the one gateway g.
Settled(g) ==
  \/ \E u \in Resumes : resume[u].pc = "oweing"
  \/ ResumeLast(owed[g])
  \/ ResumeLast(batch[g]) /\ NoPause(owed[g])
  \/ db.tally.paused = "no" /\ NoPause(batch[g]) /\ NoPause(owed[g])

LEMMA PushedOrder ==
  ASSUME NEW s \in Seq(Owed), NEW t \in Seq(Owed), NEW item, Pushed(s, t, item), item.kind # "p"
  PROVE  /\ NoPause(s) => NoPause(t)
         /\ ResumeLast(s) /\ OwedResume \notin lost' => ResumeLast(t)
<1>1. Len(s) \in Nat /\ Len(t) \in Nat /\ Len(t) > 0 /\ t[Len(t)] = item
  BY DEF Pushed
<1>2. CASE Len(t) = Len(s) + 1 /\ \A i \in 1..Len(s) : t[i] = s[i]
  <2>1. ASSUME NEW j \in 1..Len(t) PROVE j = Len(t) \/ (j \in 1..Len(s) /\ t[j] = s[j])
    BY <1>1, <1>2
  <2>2. NoPause(s) => NoPause(t)
    BY <1>1, <2>1 DEF NoPause
  <2>3. ASSUME ResumeLast(s) PROVE ResumeLast(t)
    <3>1. PICK i \in 1..Len(s) : s[i] = OwedResume /\ \A j \in 1..Len(s) : j > i => s[j].kind # "p"
      BY <2>3 DEF ResumeLast
    <3>2. i \in 1..Len(t) /\ t[i] = OwedResume
      BY <1>1, <1>2, <3>1
    <3>3. \A j \in 1..Len(t) : j > i => t[j].kind # "p"
      BY <1>1, <2>1, <3>1
    <3> QED
      BY <3>2, <3>3 DEF ResumeLast
  <2> QED
    BY <2>2, <2>3
<1>3. CASE /\ Len(s) > 0 /\ Len(t) = Len(s) /\ \A i \in 1..(Len(s) - 1) : t[i] = s[i + 1]
           /\ s[1] \in lost'
  <2>1. ASSUME NEW j \in 1..Len(t) PROVE j = Len(t) \/ (j + 1 \in 1..Len(s) /\ t[j] = s[j + 1])
    BY <1>1, <1>3
  <2>2. NoPause(s) => NoPause(t)
    BY <1>1, <2>1 DEF NoPause
  <2>3. ASSUME ResumeLast(s), OwedResume \notin lost' PROVE ResumeLast(t)
    <3>1. PICK i \in 1..Len(s) : s[i] = OwedResume /\ \A j \in 1..Len(s) : j > i => s[j].kind # "p"
      BY <2>3 DEF ResumeLast
    <3>2. i # 1
      BY <1>3, <2>3, <3>1
    <3>3. i - 1 \in 1..Len(t) /\ i - 1 \in 1..(Len(s) - 1) /\ (i - 1) + 1 = i
      BY <1>1, <1>3, <3>2
    <3>4. t[i - 1] = OwedResume
      BY <1>3, <3>1, <3>3
    <3>5. ASSUME NEW j \in 1..Len(t), j > i - 1 PROVE t[j].kind # "p"
      <4>1. j + 1 > i
        BY <3>5
      <4> QED
        BY <1>1, <2>1, <3>1, <4>1
    <3> QED
      BY <3>3, <3>4, <3>5 DEF ResumeLast
  <2> QED
    BY <2>2, <2>3
<1> QED
  BY <1>2, <1>3 DEF Pushed

LEMMA PushedResume ==
  ASSUME NEW s \in Seq(Owed), NEW t \in Seq(Owed), Pushed(s, t, OwedResume)
  PROVE  ResumeLast(t)
<1>1. Len(t) \in Nat /\ Len(t) > 0 /\ t[Len(t)] = OwedResume
  BY DEF Pushed
<1>2. Len(t) \in 1..Len(t) /\ \A j \in 1..Len(t) : ~(j > Len(t))
  BY <1>1
<1> QED
  BY <1>1, <1>2 DEF ResumeLast

LEMMA ShiftsOrder ==
  ASSUME NEW s \in Seq(Owed), NEW t \in Seq(Owed), Shifts(s, t)
  PROVE  /\ NoPause(s) => NoPause(t) /\ s[1].kind # "p"
         /\ ResumeLast(s) => ResumeLast(t) \/ (s[1] = OwedResume /\ NoPause(t))
<1>1. /\ Len(s) \in Nat /\ Len(t) \in Nat /\ Len(s) > 0 /\ Len(t) = Len(s) - 1
      /\ \A i \in 1..Len(t) : t[i] = s[i + 1] /\ i + 1 \in 1..Len(s)
  BY DEF Shifts
<1>2. NoPause(s) => NoPause(t) /\ s[1].kind # "p"
  BY <1>1 DEF NoPause
<1>3. ASSUME ResumeLast(s) PROVE ResumeLast(t) \/ (s[1] = OwedResume /\ NoPause(t))
  <2>1. PICK i \in 1..Len(s) : s[i] = OwedResume /\ \A j \in 1..Len(s) : j > i => s[j].kind # "p"
    BY <1>3 DEF ResumeLast
  <2>2. CASE i = 1
    <3>1. \A j \in 1..Len(t) : j + 1 > i
      BY <2>2
    <3> QED
      BY <1>1, <2>1, <2>2, <3>1 DEF NoPause
  <2>3. CASE i # 1
    <3>1. i - 1 \in 1..Len(t) /\ (i - 1) + 1 = i
      BY <1>1, <2>3
    <3>2. t[i - 1] = OwedResume
      BY <1>1, <2>1, <3>1
    <3>3. ASSUME NEW j \in 1..Len(t), j > i - 1 PROVE t[j].kind # "p"
      <4>1. j + 1 > i
        BY <3>3
      <4> QED
        BY <1>1, <2>1, <4>1
    <3> QED
      BY <3>1, <3>2, <3>3 DEF ResumeLast
  <2> QED
    BY <2>2, <2>3
<1> QED
  BY <1>2, <1>3

LEMMA SplitsOrder ==
  ASSUME NEW s \in Seq(Owed), NEW q \in Seq(Owed), NEW r \in Seq(Owed), Splits(s, q, r)
  PROVE  /\ NoPause(s) <=> NoPause(q) /\ NoPause(r)
         /\ ResumeLast(s) <=> ResumeLast(r) \/ (ResumeLast(q) /\ NoPause(r))
<1>1. /\ Len(s) \in Nat /\ Len(q) \in Nat /\ Len(r) \in Nat /\ Len(s) = Len(q) + Len(r)
      /\ \A i \in 1..Len(q) : s[i] = q[i]
      /\ \A i \in 1..Len(r) : s[Len(q) + i] = r[i]
  BY DEF Splits
<1>2. \A i \in 1..Len(q) : i \in 1..Len(s)
  BY <1>1
<1>3. \A i \in 1..Len(r) : Len(q) + i \in 1..Len(s)
  BY <1>1
<1>4. ASSUME NEW i \in 1..Len(s)
      PROVE  i \in 1..Len(q) \/ (i - Len(q) \in 1..Len(r) /\ Len(q) + (i - Len(q)) = i /\ s[i] = r[i - Len(q)])
  <2>1. i \in 1..Len(q) \/ (i - Len(q) \in 1..Len(r) /\ Len(q) + (i - Len(q)) = i)
    BY <1>1
  <2>2. CASE i - Len(q) \in 1..Len(r) /\ Len(q) + (i - Len(q)) = i
    <3> DEFINE k == i - Len(q)
    <3>1. k \in 1..Len(r) /\ Len(q) + k = i
      BY <2>2
    <3> HIDE DEF k
    <3>2. s[i] = r[k]
      BY <1>1, <3>1
    <3> QED
      BY <2>2, <3>2 DEF k
  <2> QED
    BY <2>1, <2>2
<1>5. NoPause(s) => NoPause(q)
  BY <1>1, <1>2 DEF NoPause
<1>6. NoPause(s) => NoPause(r)
  <2> SUFFICES ASSUME NoPause(s), NEW i \in 1..Len(r) PROVE r[i].kind # "p"
    BY DEF NoPause
  <2>1. s[Len(q) + i].kind # "p"
    BY <1>3 DEF NoPause
  <2> QED
    BY <1>1, <2>1
<1>7. NoPause(q) /\ NoPause(r) => NoPause(s)
  BY <1>1, <1>4 DEF NoPause
<1>8. ASSUME ResumeLast(s) PROVE ResumeLast(r) \/ (ResumeLast(q) /\ NoPause(r))
  <2>1. PICK i \in 1..Len(s) : s[i] = OwedResume /\ \A j \in 1..Len(s) : j > i => s[j].kind # "p"
    BY <1>8 DEF ResumeLast
  <2>2. ASSUME NEW j \in 1..Len(r), Len(q) + j > i PROVE r[j].kind # "p"
    <3>1. s[Len(q) + j].kind # "p"
      BY <1>3, <2>1, <2>2
    <3> QED
      BY <1>1, <3>1
  <2>3. CASE i \in 1..Len(q)
    <3>1. q[i] = OwedResume /\ \A j \in 1..Len(q) : j > i => q[j].kind # "p"
      BY <1>1, <1>2, <2>1, <2>3
    <3>2. \A j \in 1..Len(r) : Len(q) + j > i
      BY <1>1, <2>3
    <3> QED
      BY <2>2, <2>3, <3>1, <3>2 DEF ResumeLast, NoPause
  <2>4. CASE i - Len(q) \in 1..Len(r) /\ s[i] = r[i - Len(q)]
    <3>1. \A j \in 1..Len(r) : j > i - Len(q) => Len(q) + j > i
      BY <1>1
    <3>2. r[i - Len(q)] = OwedResume
      BY <2>1, <2>4
    <3> QED
      BY <2>2, <2>4, <3>1, <3>2 DEF ResumeLast
  <2> QED
    BY <1>4, <2>3, <2>4
<1>9. ASSUME ResumeLast(r) PROVE ResumeLast(s)
  <2>1. PICK i \in 1..Len(r) : r[i] = OwedResume /\ \A j \in 1..Len(r) : j > i => r[j].kind # "p"
    BY <1>9 DEF ResumeLast
  <2>2. Len(q) + i \in 1..Len(s) /\ s[Len(q) + i] = OwedResume
    BY <1>1, <1>3, <2>1
  <2>3. ASSUME NEW j \in 1..Len(s), j > Len(q) + i PROVE s[j].kind # "p"
    <3>1. j \notin 1..Len(q) /\ j - Len(q) > i
      BY <1>1, <2>3
    <3> QED
      BY <1>4, <2>1, <3>1
  <2> QED
    BY <2>2, <2>3 DEF ResumeLast
<1>10. ASSUME ResumeLast(q), NoPause(r) PROVE ResumeLast(s)
  <2>1. PICK i \in 1..Len(q) : q[i] = OwedResume /\ \A j \in 1..Len(q) : j > i => q[j].kind # "p"
    BY <1>10 DEF ResumeLast
  <2>2. i \in 1..Len(s) /\ s[i] = OwedResume
    BY <1>1, <1>2, <2>1
  <2>3. ASSUME NEW j \in 1..Len(s), j > i PROVE s[j].kind # "p"
    BY <1>1, <1>4, <1>10, <2>1, <2>3 DEF NoPause
  <2> QED
    BY <2>2, <2>3 DEF ResumeLast
<1> QED
  BY <1>5, <1>6, <1>7, <1>8, <1>9, <1>10

LEMMA EmptyOrder ==
  ASSUME NEW s, Len(s) = 0
  PROVE  NoPause(s) /\ ~ResumeLast(s)
BY DEF NoPause, ResumeLast

\* No pause is underway in a gateway alone: none waits, and no call owes one.
LEMMA UnderwayFacts ==
  ASSUME SharedType, NEW g \in Gateways, Gateways = {g}
  PROVE  /\ ~PauseUnderway(g) <=> Calm /\ \A c \in Calls : call[c].pc # "owing"
         /\ ~PauseOwed(g) => NoPause(owed[g]) /\ NoPause(batch[g])
<1>1. /\ owed[g] \in Seq(Owed) /\ batch[g] \in Seq(Owed) /\ fallbacks[g] \in Seq(Fallback)
  BY DEF SharedType, Queues, Locals
<1>2. /\ DOMAIN owed[g] = 1..Len(owed[g]) /\ DOMAIN batch[g] = 1..Len(batch[g])
      /\ DOMAIN fallbacks[g] = 1..Len(fallbacks[g])
  BY <1>1
<1>3. \A c \in Calls : call[c].gw = g
  BY DEF SharedType, Threads, CallRec
<1>4. ~PauseUnderway(g) <=> Calm /\ \A c \in Calls : call[c].pc # "owing"
  BY <1>2, <1>3 DEF PauseUnderway, Calm
<1>5. ~PauseOwed(g) => NoPause(owed[g]) /\ NoPause(batch[g])
  BY <1>2 DEF PauseOwed, Awaits, NoPause
<1> QED
  BY <1>4, <1>5

LEMMA OrderedParts ==
  Ordered <=> \A g \in Gateways :
    Gateways = {g} /\ lastWord = "resume" /\ ~raced /\ OwedResume \notin lost =>
      Calm /\ (\A c \in Calls : call[c].pc # "owing") /\ Settled(g)
BY DEF Ordered, Settled, Calm

LEMMA OrderedKept ==
  ASSUME SharedType, SharedType', SharedStep, Sent, Ordered
  PROVE  Ordered'
<1> SUFFICES ASSUME NEW g \in Gateways, Gateways = {g}, lastWord' = "resume", ~raced', OwedResume \notin lost'
             PROVE  Calm' /\ (\A c \in Calls : call'[c].pc # "owing") /\ Settled(g)'
  BY DEF Ordered, Settled, Calm
<1>0. lost \subseteq lost'
  BY StepStays
<1>1. lastWord = "resume" /\ ~raced => Calm /\ (\A c \in Calls : call[c].pc # "owing") /\ Settled(g)
  BY <1>0, OrderedParts
<1>2. /\ owed[g] \in Seq(Owed) /\ owed'[g] \in Seq(Owed)
      /\ batch[g] \in Seq(Owed) /\ batch'[g] \in Seq(Owed)
  BY DEF SharedType, Queues
<1>3. ASSUME NEW c \in Calls, Walks(c)
      PROVE  Calm' /\ (\A d \in Calls : call'[d].pc # "owing") /\ Settled(g)'
  <2>1. /\ UNCHANGED <<db, owed, batch, resume, lastWord, raced>>
        /\ (Calm => Calm' /\ call'[c].pc # "owing")
    BY <1>3 DEF Walks
  <2>2. Calm /\ (\A d \in Calls : call[d].pc # "owing") /\ Settled(g)
    BY <1>1, <2>1
  <2>3. \A d \in Calls : call'[d].pc # "owing"
    BY <1>3, <2>1, <2>2 DEF Walks, Others
  <2> QED
    BY <2>1, <2>2, <2>3 DEF Settled
<1>4. ASSUME NEW c \in Calls, Enquires(c) \/ Pays(c)
      PROVE  Calm' /\ (\A d \in Calls : call'[d].pc # "owing") /\ Settled(g)'
  <2>1. /\ UNCHANGED <<owed, batch, resume, lastWord, raced>> /\ (Calm => Calm')
        /\ (db.tally.paused = "no" => db'.tally.paused = "no")
    <3>1. CASE Enquires(c)
      BY <3>1 DEF Enquires, Word, Pauses
    <3>2. CASE Pays(c)
      BY <3>2 DEF Pays, Heard
    <3> QED
      BY <1>4, <3>1, <3>2
  <2>2. Calm /\ (\A d \in Calls : call[d].pc # "owing") /\ Settled(g)
    BY <1>1, <2>1
  <2>3. \A d \in Calls : call'[d].pc # "owing"
    BY <1>4, <2>2 DEF Enquires, Pays, Others
  <2> QED
    BY <2>1, <2>2, <2>3 DEF Settled
<1>5. ASSUME NEW c \in Calls, OwesPause(c) PROVE FALSE
  BY <1>1, <1>5 DEF OwesPause
<1>6. ASSUME NEW c \in Calls, OwesCall(c)
      PROVE  Calm' /\ (\A d \in Calls : call'[d].pc # "owing") /\ Settled(g)'
  <2> DEFINE item == Settlement(call[c].kind, c)
  <2>1. /\ UNCHANGED <<db, batch, resume, fallbacks, lastWord, raced>> /\ call'[c].pc = "done"
        /\ call[c].gw = g /\ call[c].kind \in {"r", "l"} /\ Pushed(owed[g], owed'[g], item)
    BY <1>6 DEF OwesCall
  <2>2. Calm /\ (\A d \in Calls : call[d].pc # "owing") /\ Settled(g)
    BY <1>1, <2>1
  <2>3. \A d \in Calls : call'[d].pc # "owing"
    BY <1>6, <2>1, <2>2 DEF OwesCall, Others
  <2>4. item.kind # "p"
    BY <2>1, OwedParts
  <2> HIDE DEF item
  <2>5. (NoPause(owed[g]) => NoPause(owed'[g])) /\ (ResumeLast(owed[g]) => ResumeLast(owed'[g]))
    BY <1>2, <2>1, <2>4, PushedOrder
  <2>6. Settled(g)'
    BY <2>1, <2>2, <2>5 DEF Settled
  <2>7. Calm'
    BY <2>1, <2>2, Unchanging
  <2> QED
    BY <2>3, <2>6, <2>7
<1>7. ASSUME NEW u \in Resumes, ClearsStore(u)
      PROVE  Calm' /\ (\A d \in Calls : call'[d].pc # "owing") /\ Settled(g)'
  <2>1. /\ UNCHANGED <<owed, batch, call, fallbacks>> /\ TakesItem(db, db', "u", NoCall)
        /\ ~PauseUnderway(g) /\ ~PauseOwed(g)
    BY <1>7 DEF ClearsStore
  <2>2. Calm /\ (\A d \in Calls : call[d].pc # "owing") /\ NoPause(owed[g]) /\ NoPause(batch[g])
    BY <2>1, UnderwayFacts
  <2>3. db'.tally.paused = "no"
    BY <2>1 DEF TakesItem
  <2>4. Calm'
    BY <2>1, <2>2, Unchanging
  <2> QED
    BY <2>1, <2>2, <2>3, <2>4 DEF Settled
<1>8. ASSUME NEW u \in Resumes, ClearsLocal(u)
      PROVE  Calm' /\ (\A d \in Calls : call'[d].pc # "owing") /\ Settled(g)'
  <2>1. ~PauseUnderway(g) /\ (Calm => Calm') /\ call' = call /\ resume'[u].pc = "oweing"
    BY <1>8 DEF ClearsLocal
  <2>2. Calm /\ \A d \in Calls : call[d].pc # "owing"
    BY <2>1, UnderwayFacts
  <2> QED
    BY <2>1, <2>2 DEF Settled
<1>9. ASSUME NEW u \in Resumes, Proceeds(u)
      PROVE  Calm' /\ (\A d \in Calls : call'[d].pc # "owing") /\ Settled(g)'
  <2>1. /\ UNCHANGED <<owed, batch, call, lastWord, raced>> /\ (Calm => Calm')
        /\ (db.tally.paused = "no" => db'.tally.paused = "no")
    BY <1>9 DEF Proceeds, TakesItem
  <2>2. Calm /\ (\A d \in Calls : call[d].pc # "owing") /\ Settled(g)
    BY <1>1, <2>1
  <2>3. ASSUME NEW v \in Resumes, resume[v].pc = "oweing" PROVE resume'[v].pc = "oweing"
    BY <1>9, <2>3 DEF Proceeds, OtherAsks
  <2>4. Settled(g)'
    BY <2>1, <2>2, <2>3 DEF Settled
  <2> QED
    BY <2>1, <2>2, <2>4
<1>10. ASSUME NEW u \in Resumes, OwesAsk(u)
       PROVE  Calm' /\ (\A d \in Calls : call'[d].pc # "owing") /\ Settled(g)'
  <2>1. /\ UNCHANGED <<call, fallbacks, lastWord, raced>> /\ Pushed(owed[g], owed'[g], OwedResume)
    BY <1>10 DEF OwesAsk
  <2>2. Calm /\ (\A d \in Calls : call[d].pc # "owing")
    BY <1>1, <2>1
  <2>3. ResumeLast(owed'[g])
    BY <1>2, <2>1, PushedResume
  <2>4. Calm'
    BY <2>1, <2>2, Unchanging
  <2> QED
    BY <2>1, <2>2, <2>3, <2>4 DEF Settled
<1>11. ASSUME Batches(g)
       PROVE  Calm' /\ (\A d \in Calls : call'[d].pc # "owing") /\ Settled(g)'
  <2>1. /\ UNCHANGED <<db, call, resume, fallbacks, lastWord, raced>>
        /\ Len(batch[g]) = 0 /\ Splits(owed[g], batch'[g], owed'[g])
    BY <1>11 DEF Batches
  <2>2. Calm /\ (\A d \in Calls : call[d].pc # "owing") /\ Settled(g)
    BY <1>1, <2>1
  <2>3. /\ NoPause(owed[g]) => NoPause(batch'[g]) /\ NoPause(owed'[g])
        /\ ResumeLast(owed[g]) => ResumeLast(owed'[g]) \/ (ResumeLast(batch'[g]) /\ NoPause(owed'[g]))
    BY <1>2, <2>1, SplitsOrder
  <2>4. ~ResumeLast(batch[g])
    BY <2>1, EmptyOrder
  <2>5. Settled(g)'
    BY <2>1, <2>2, <2>3, <2>4 DEF Settled
  <2>6. Calm'
    BY <2>1, <2>2, Unchanging
  <2> QED
    BY <2>1, <2>2, <2>5, <2>6
<1>12. ASSUME Drops(g)
       PROVE  Calm' /\ (\A d \in Calls : call'[d].pc # "owing") /\ Settled(g)'
  <2> DEFINE item == batch[g][1]
  <2>1. /\ UNCHANGED <<owed, call, resume, fallbacks, raced>> /\ Shifts(batch[g], batch'[g]) /\ item \in Owed
        /\ lastWord' = lastWord
        /\ \/ TakesItem(db, db', item.kind, item.call) /\ (item.kind # "p" /\ db.tally.paused = "no" => db'.tally.paused = "no")
           \/ db' = db /\ item \in lost'
    BY <1>12 DEF Drops, Heard
  <2>2. Calm /\ (\A d \in Calls : call[d].pc # "owing") /\ Settled(g)
    BY <1>1, <2>1
  <2>3. /\ NoPause(batch[g]) => NoPause(batch'[g]) /\ item.kind # "p"
        /\ ResumeLast(batch[g]) => ResumeLast(batch'[g]) \/ (item = OwedResume /\ NoPause(batch'[g]))
    BY <1>2, <2>1, ShiftsOrder
  <2> HIDE DEF item
  <2>4. item = OwedResume => db'.tally.paused = "no"
    BY <2>1, OwedParts DEF TakesItem
  <2>5. item.kind # "p" /\ db.tally.paused = "no" => db'.tally.paused = "no"
    BY <2>1
  <2>6. Settled(g)'
    BY <2>1, <2>2, <2>3, <2>4, <2>5 DEF Settled
  <2>7. Calm'
    BY <2>1, <2>2, Unchanging
  <2> QED
    BY <2>1, <2>2, <2>6, <2>7
<1>13. ASSUME PutsBack(g)
       PROVE  Calm' /\ (\A d \in Calls : call'[d].pc # "owing") /\ Settled(g)'
  <2>1. /\ UNCHANGED <<db, call, resume, fallbacks, raced, lastWord>>
        /\ Len(batch'[g]) = 0 /\ Splits(owed'[g], batch[g], owed[g])
    BY <1>13 DEF PutsBack
  <2>2. Calm /\ (\A d \in Calls : call[d].pc # "owing") /\ Settled(g)
    BY <1>1, <2>1
  <2>3. /\ NoPause(owed'[g]) <=> NoPause(batch[g]) /\ NoPause(owed[g])
        /\ ResumeLast(owed'[g]) <=> ResumeLast(owed[g]) \/ (ResumeLast(batch[g]) /\ NoPause(owed[g]))
    BY <1>2, <2>1, SplitsOrder
  <2>4. NoPause(batch'[g])
    BY <2>1, EmptyOrder
  <2>5. Settled(g)'
    BY <2>1, <2>2, <2>3, <2>4 DEF Settled
  <2>6. Calm'
    BY <2>1, <2>2, Unchanging
  <2> QED
    BY <2>1, <2>2, <2>5, <2>6
<1>15. ASSUME Tries(g)
       PROVE  Calm' /\ (\A d \in Calls : call'[d].pc # "owing") /\ Settled(g)'
  <2> DEFINE item == batch[g][1]
  <2>1. /\ UNCHANGED <<owed, batch, call, resume, fallbacks, raced, lastWord>> /\ Len(batch[g]) > 0
        /\ (item.kind # "p" /\ db.tally.paused = "no" => db'.tally.paused = "no")
    BY <1>15 DEF Tries, Heard
  <2>2. Calm /\ (\A d \in Calls : call[d].pc # "owing") /\ Settled(g)
    BY <1>1, <2>1
  <2>3. NoPause(batch[g]) => item.kind # "p"
    <3>1. 1 \in 1..Len(batch[g])
      BY <1>2, <2>1
    <3> QED
      BY <3>1 DEF NoPause
  <2> HIDE DEF item
  <2>4. Settled(g)'
    BY <2>1, <2>2, <2>3 DEF Settled
  <2>5. Calm'
    BY <2>1, <2>2, Unchanging
  <2> QED
    BY <2>1, <2>2, <2>4, <2>5
<1>14. ASSUME Idles
       PROVE  Calm' /\ (\A d \in Calls : call'[d].pc # "owing") /\ Settled(g)'
  BY <1>1, <1>14 DEF Idles, Settled
<1> QED
  BY <1>3, <1>4, <1>5, <1>6, <1>7, <1>8, <1>9, <1>10, <1>11, <1>12, <1>13, <1>14, <1>15 DEF SharedStep

-----------------------------------------------------------------------------
(* The invariant, and what it gives. *)

LEMMA SharedNext == SharedInv /\ [Next]_vars => SharedInv'
<1> SUFFICES ASSUME SharedInv, [Next]_vars PROVE SharedInv'
  OBVIOUS
<1>1. SharedType /\ Sent /\ NoSettlementLost /\ Counted /\ Ordered
  BY DEF SharedInv
<1>2. SharedType' /\ SharedStep
  BY <1>1, StepIs
<1>3. Sent' /\ NoSettlementLost' /\ Counted' /\ Ordered'
  BY <1>1, <1>2, SentKept, NoSettlementLostKept, CountedKept, OrderedKept
<1> QED
  BY <1>2, <1>3 DEF SharedInv

\* What every property below rests on, at every step of every replica: the
\* types, what was sent, what was counted, and the order of pauses and resumes.
THEOREM SharedInvariant == Spec => []SharedInv
  BY SharedInit, SharedNext, PTL DEF Spec

\* Every queue, fallback, thread and program counter of every replica, and the
\* record in the store, is one its declaration allows; a thread's fallback is
\* one its gateway has built.
THEOREM SharedTypeCorrect == Spec => []TypeOK
<1>1. SharedInv => TypeOK
  BY TypeImplies DEF SharedInv
<1> QED
  BY <1>1, SharedInvariant, PTL

\* The scripts luaAdmit, luaRecord and luaRelease act once per token: the
\* store holds no reservation of a call that it did not admit or has settled,
\* and tallies no call more than once, whatever is lost, sent again or late.
THEOREM OncePerTokenCorrect == Spec => []OncePerToken
<1>1. SharedInv => OncePerToken
  BY DEF SharedInv, Counted, OncePerToken, Held, Recorded
<1> QED
  BY <1>1, SharedInvariant, PTL

\* settle, owe, deliver and putBack lose no settlement untold: that of a call
\* which the store let through is in the store, or owed to it, or counted as
\* dropped or refused.
THEOREM NoSettlementLostCorrect == Spec => []NoSettlementLost
<1>1. SharedInv => NoSettlementLost
  BY DEF SharedInv
<1> QED
  BY <1>1, SharedInvariant, PTL

\* One MaxCallsPerRun holds for every replica together: what the store let
\* through, less what was given back, stays within it through gaps and lost
\* answers.
THEOREM SharedCapCorrect == Spec => []SharedCapHolds
<1>1. SharedInv => SharedCapHolds
  <2> SUFFICES ASSUME SharedInv, MaxCallsPerRun > 0, Resumes = {}, BypassCalls = {}, ~Shadow
               PROVE  Cardinality({c \in Calls : /\ call[c].where = "shared" /\ call[c].pc \in Through
                                                 /\ ~(c \in db.settled /\ call[c].kind = "l")}) <= MaxCallsPerRun
    BY DEF SharedCapHolds
  <2> DEFINE let == {c \in Calls : /\ call[c].where = "shared" /\ call[c].pc \in Through
                                   /\ ~(c \in db.settled /\ call[c].kind = "l")}
  <2>1. SharedType /\ Sent /\ Counted
    BY DEF SharedInv
  <2>2. \A c \in Calls : call[c].kind \in {"r", "l"}
    BY <2>1, CallFacts
  <2>3. let \in SUBSET (Held \cup Recorded)
    BY <2>1, <2>2 DEF Held, Recorded, Sent
  <2>4. /\ IsFiniteSet(Held) /\ IsFiniteSet(Recorded) /\ Held \cap Recorded = {}
        /\ Cardinality(Held) \in Nat /\ Cardinality(Recorded) \in Nat /\ MaxCallsPerRun \in Nat
    BY <2>1, CountsFacts
  <2>5. IsFiniteSet(Held \cup Recorded) /\ Cardinality(Held \cup Recorded) = Cardinality(Held) + Cardinality(Recorded)
    BY <2>4, FS_Union, FS_EmptySet
  <2>6. Cardinality(Held) + Cardinality(Recorded) <= MaxCallsPerRun
    BY <2>1 DEF Counted
  <2> HIDE DEF let
  <2>7. IsFiniteSet(let) /\ Cardinality(let) <= Cardinality(Held \cup Recorded)
    BY <2>3, <2>5, FS_Subset
  <2>8. Cardinality(let) \in Nat
    BY <2>7, FS_CardinalityType
  <2>9. Cardinality(let) <= MaxCallsPerRun
    BY <2>4, <2>5, <2>6, <2>7, <2>8
  <2> QED
    BY <2>9 DEF let
<1> QED
  BY <1>1, SharedInvariant, PTL

\* An operator's resume is the last word with one gateway: when all that was
\* owed has landed, the store does not hold the run paused, however the gap's
\* pauses and the resume were queued, put back and delivered again.
THEOREM ResumeLandsLastCorrect == Spec => []ResumeLandsLast
<1>1. SharedInv => ResumeLandsLast
  <2> SUFFICES ASSUME SharedInv, NEW g \in Gateways, Gateways = {g}, Quiet(g), lastWord = "resume", ~raced,
                      OwedResume \notin lost
               PROVE  db.tally.paused = "no"
    BY DEF ResumeLandsLast
  <2>1. SharedType /\ Ordered
    BY DEF SharedInv
  <2>2. Settled(g)
    BY <2>1, OrderedParts
  <2>3. Waiting(g) = {} /\ owed[g] \in Seq(Owed) /\ batch[g] \in Seq(Owed)
    BY <2>1, WaitingFacts DEF Quiet
  <2>4. ~ResumeLast(owed[g]) /\ ~ResumeLast(batch[g])
    BY <2>3 DEF Waiting, Items, ResumeLast
  <2>5. ~\E u \in Resumes : resume[u].pc = "oweing"
    BY DEF Quiet
  <2> QED
    BY <2>2, <2>4, <2>5 DEF Settled
<1> QED
  BY <1>1, SharedInvariant, PTL

=============================================================================
