--------------------------- MODULE SharedCounter ---------------------------
(***************************************************************************)
(* The shared counter of internal/gateway/counter_redis.go for one run:    *)
(* gateway replicas that decide in one store, fall back to a per-process   *)
(* controller while the store does not answer (a gap), owe the store what  *)
(* it missed and write it back.                                            *)
(*                                                                         *)
(* A run's record is touched by no other run's calls, so one run and the   *)
(* replicas' queues are the whole protocol; the kill switch is the subject *)
(* of KillSwitch.tla, keys are the subject of StoreKeys.tla, and inline    *)
(* caps are off (see StoreRules).                                          *)
(*                                                                         *)
(* Every section under sharedCounter.mu, every method of the fallback and  *)
(* every command to the store is a step of its own, with two exceptions:   *)
(* fail() and the degrade() it calls are one step, and so are a settlement *)
(* or a resume the store takes and the note of its answer (failStreak,     *)
(* pausedSeen).  What a thread read under the lock and uses after it (which*)
(* fallback, whether there is a gap, an answer of the store, how a command *)
(* failed) is in its own record until then.                                *)
(*                                                                         *)
(* A command may fail in any of the ways fail() tells apart:               *)
(*   "busy"     no free connection, nothing was sent;                      *)
(*   "refused"  the store answers that it will not take this one thing;    *)
(*   "dead"     the dial is refused or the store cannot serve;             *)
(*   "drop"     the answer is lost, whether or not the store ran it.       *)
(* Failures are bounded by MaxFaults.  A command whose connection failed   *)
(* has been run or never will be.                                          *)
(***************************************************************************)
EXTENDS StoreRules, Sequences

CONSTANTS
  Gateways,             \* replicas
  NoCall,               \* in an owed item that settles no call
  BypassCalls,          \* the calls that carry the bypass credential
  Resumes,              \* an operator's asks to resume the run, each made once
  Costs,                \* what a served call may cost
  MaxOwed,              \* bound on what a gateway owes
  FlushBatch,           \* owed items taken from the queue at a time
  WriteBackPasses,      \* deliveries tried before the swap back to the store
  FailStreakToDegrade,  \* dropped answers in a row that start a gap
  MaxFaults             \* bound on failures of the store

ASSUME SharedAssumption ==
  /\ IsFiniteSet(Calls) /\ BypassCalls \subseteq Calls
  /\ IsFiniteSet(Gateways) /\ Gateways # {}
  /\ Costs \subseteq Nat /\ NoCall \notin Calls
  /\ MaxOwed \in Nat \ {0} /\ FlushBatch \in Nat \ {0} /\ WriteBackPasses \in Nat \ {0}
  /\ FailStreakToDegrade \in Nat \ {0} /\ MaxFaults \in Nat

VARIABLES
  db,          \* the run's record in the store
  degraded,    \* per gateway: in a gap
  streak,      \* per gateway: failStreak
  fallbacks,   \* per gateway: every fallback controller built so far
  pausedSeen,  \* per gateway: why the store last reported the run paused
  owed,        \* per gateway: what the store still has to take, in order
  batch,       \* per gateway: items the deliverer has taken from owed
  deliverer,   \* per gateway: who holds deliverMu
  flush,       \* per gateway: the flusher's program counter, or the failure it met
  recover,     \* per gateway: the recovery's program counter and pass
  call,        \* per call: its thread
  resume,      \* per operator ask: its thread
  faults,      \* failures so far
  lost,        \* history: owed items the full queue dropped or the store refused
  lastWord,    \* history: whether a pause or a resume was decided last
  raced        \* history: a resume met a pause that had not reached the store

storeVars   == <<db, faults>>
gatewayVars == <<degraded, streak, fallbacks, pausedSeen, owed>>
deliverVars == <<batch, deliverer, flush, recover>>
threadVars  == <<call, resume>>
history     == <<lost, lastWord, raced>>
vars        == <<db, degraded, streak, fallbacks, pausedSeen, owed, batch, deliverer, flush,
                 recover, call, resume, faults, lost, lastWord, raced>>

\* An owed item: a settlement of a call, a pause with its reason, a resume.
Owed == [kind: {"r", "l"}, call: Calls, why: {"no"}] \cup
        [kind: {"p"}, call: {NoCall}, why: RunPauses] \cup
        [kind: {"u"}, call: {NoCall}, why: {"no"}]
Settlement(kind, c) == [kind |-> kind, call |-> c, why |-> "no"]
OwedPause(why)      == [kind |-> "p", call |-> NoCall, why |-> why]
OwedResume          == [kind |-> "u", call |-> NoCall, why |-> "no"]

\* A fallback: the controller's entry of the run, whether it was built for a
\* gap (only then has it the onPauseSync hook), and its undispatched events.
Fallback == [st: RunState, gap: BOOLEAN, pending: Seq(RunPauses)]

CallStates == {"idle", "asking", "answered", "askFailed", "failed", "deciding", "dispatching",
               "owing", "out", "applying", "settling", "takeFailed", "oweing", "refused", "done"}

Failures == {"busy", "refused", "dead", "drop"}

NewCall == [pc |-> "idle", gw |-> CHOOSE g \in Gateways : TRUE, ptr |-> 0, where |-> "",
            answer |-> Answer(FALSE, "no"), evs |-> <<>>, next |-> "done",
            kind |-> "r", cost |-> 0, loop |-> FALSE, failure |-> "busy"]

ResumeStates == {"idle", "asking", "askFailed", "clearing", "local", "oweing", "done"}
RecoverStates == {"idle", "deliver", "stop", "check", "swap", "last", "reopen"}

TypeOK ==
  /\ db \in StoreRecord
  /\ degraded \in [Gateways -> BOOLEAN] /\ pausedSeen \in [Gateways -> RunPauses]
  /\ streak \in [Gateways -> 0..FailStreakToDegrade]
  /\ \A g \in Gateways :
       /\ fallbacks[g] \in Seq(Fallback) /\ fallbacks[g] # <<>>
       /\ owed[g] \in Seq(Owed) /\ batch[g] \in Seq(Owed)
  /\ deliverer \in [Gateways -> {"none", "flush", "recover"}]
  /\ flush \in [Gateways -> {"idle", "deliver"} \cup Failures]
  /\ recover \in [Gateways -> [pc: RecoverStates, pass: 0..WriteBackPasses]]
  /\ \A c \in Calls : call[c].pc \in CallStates /\ call[c].ptr \in 0..Len(fallbacks[call[c].gw])
  /\ \A u \in Resumes : resume[u].pc \in ResumeStates
  /\ faults \in 0..MaxFaults /\ lost \subseteq Owed
  /\ lastWord \in {"none", "pause", "resume"} /\ raced \in BOOLEAN

FreshFallback(seen, gap) ==
  [st |-> [NewRun EXCEPT !.paused = seen], gap |-> gap, pending |-> <<>>]

\* The fallback the gateway uses now; the earlier ones live on in the threads
\* that hold them.
Local(g) == Len(fallbacks[g])

Init ==
  /\ db = EmptyStore
  /\ degraded = [g \in Gateways |-> FALSE] /\ streak = [g \in Gateways |-> 0]
  /\ fallbacks = [g \in Gateways |-> <<FreshFallback("no", FALSE)>>]
  /\ pausedSeen = [g \in Gateways |-> "no"]
  /\ owed = [g \in Gateways |-> <<>>] /\ batch = [g \in Gateways |-> <<>>]
  /\ deliverer = [g \in Gateways |-> "none"]
  /\ flush = [g \in Gateways |-> "idle"]
  /\ recover = [g \in Gateways |-> [pc |-> "idle", pass |-> 0]]
  /\ call = [c \in Calls |-> NewCall]
  /\ resume = [u \in Resumes |-> [pc |-> "idle", gw |-> CHOOSE g \in Gateways : TRUE, ptr |-> 0,
                                 failure |-> "busy"]]
  /\ faults = 0 /\ lost = {} /\ lastWord = "none" /\ raced = FALSE

-----------------------------------------------------------------------------
(* What several handlers share. *)

\* owe: the queue with one more item; a full one drops its oldest.
Push(q, item) == Append(IF Len(q) >= MaxOwed THEN Tail(q) ELSE q, item)

Owe(g, item) ==
  /\ owed' = [owed EXCEPT ![g] = Push(@, item)]
  /\ lost' = IF Len(owed[g]) >= MaxOwed THEN lost \cup {Head(owed[g])} ELSE lost

\* degrade: a gap starts, with a fallback built for it.
Degrade(g) ==
  /\ degraded' = [degraded EXCEPT ![g] = TRUE]
  /\ streak' = [streak EXCEPT ![g] = 0]
  /\ fallbacks' = [fallbacks EXCEPT ![g] = Append(@, FreshFallback(pausedSeen[g], TRUE))]

\* fail: which failures start a gap.
Fail(g, failure) ==
  IF degraded[g] \/ failure \in {"busy", "refused"}
    THEN UNCHANGED <<degraded, streak, fallbacks>>
  ELSE IF failure = "dead" \/ streak[g] + 1 >= FailStreakToDegrade
    THEN Degrade(g)
  ELSE /\ streak' = [streak EXCEPT ![g] = @ + 1]
       /\ UNCHANGED <<degraded, fallbacks>>

\* A command fails; ran says whether the store had run it.
Fault(failure, ran) ==
  /\ faults < MaxFaults /\ faults' = faults + 1
  /\ ran => failure = "drop"

\* answered: the store is talking.
Answered(g) == streak' = [streak EXCEPT ![g] = 0]

Pauses(old, new) == old.paused = "no" /\ new.paused # "no"
Word(old, new)   == IF Pauses(old, new) THEN "pause" ELSE lastWord

\* take: what an owed item or a settlement does in the store.
TakeScript(item) ==
  CASE item.kind = "r" -> RecordScript(db, item.call, call[item.call].cost, call[item.call].loop)
    [] item.kind = "l" -> ReleaseScript(db, item.call)
    [] item.kind = "p" -> PauseScript(db, item.why)
    [] item.kind = "u" -> ResumeScript(db)

\* take succeeds at gateway g: the answer resets the streak, and a record that
\* paused the run is remembered.
Taken(g, item) ==
  /\ db' = TakeScript(item)
  /\ Answered(g)
  /\ LET pausedBy == item.kind = "r" /\ Pauses(db.tally, TakeScript(item).tally)
     IN /\ pausedSeen' = IF pausedBy THEN [pausedSeen EXCEPT ![g] = TakeScript(item).tally.paused]
                         ELSE pausedSeen
        /\ lastWord' = IF pausedBy THEN "pause" ELSE lastWord

-----------------------------------------------------------------------------
(* A call.  admitWhere: a gap sends it to the fallback, else the store.     *)

Mode(c) == IF c \in BypassCalls THEN "bypass" ELSE IF Shadow THEN "shadow" ELSE "decide"

Begin(c, g) ==
  /\ call[c].pc = "idle"
  /\ call' = [call EXCEPT ![c].gw = g,
                          ![c].ptr = Local(g),
                          ![c].pc = IF degraded[g] THEN "deciding" ELSE "asking"]
  /\ UNCHANGED <<storeVars, gatewayVars, deliverVars, resume, history>>

\* The store runs the admit script, or runs it twice: do() sends a command
\* again when a pooled connection ends before it answered.
Ask(c, again) ==
  LET first  == AdmitScript(db, c, Mode(c))
      result == IF again THEN AdmitScript(first.db, c, Mode(c)) ELSE first
  IN
  /\ call[c].pc = "asking"
  /\ again => faults < MaxFaults
  /\ faults' = IF again THEN faults + 1 ELSE faults
  /\ db' = result.db
  /\ call' = [call EXCEPT ![c].pc = "answered", ![c].answer = result.answer]
  /\ lastWord' = Word(db.tally, result.db.tally)
  /\ UNCHANGED <<gatewayVars, deliverVars, resume, lost, raced>>

AskFails(c, failure, ran) ==
  /\ call[c].pc = "asking"
  /\ Fault(failure, ran)
  /\ db' = IF ran THEN AdmitScript(db, c, Mode(c)).db ELSE db
  /\ lastWord' = Word(db.tally, db'.tally)
  /\ call' = [call EXCEPT ![c].pc = "askFailed", ![c].failure = failure]
  /\ UNCHANGED <<gatewayVars, deliverVars, resume, lost, raced>>

\* admitLocally tells fail() of it.
AskFailed(c) ==
  /\ call[c].pc = "askFailed"
  /\ Fail(call[c].gw, call[c].failure)
  /\ call' = [call EXCEPT ![c].pc = "failed", ![c].failure = "busy"]
  /\ UNCHANGED <<storeVars, pausedSeen, owed, deliverVars, resume, history>>

\* The answer is processed: the pause it reports is remembered, or forgotten
\* when the call was let through on its merits.
Process(c) ==
  LET g == call[c].gw
      a == call[c].answer
  IN
  /\ call[c].pc = "answered"
  /\ Answered(g)
  /\ pausedSeen' = [pausedSeen EXCEPT ![g] =
       IF a.code \notin {"no", "dup"} THEN a.code
       ELSE IF a.ok /\ a.code = "no" /\ Mode(c) # "bypass" THEN "no" ELSE @]
  /\ call' = [call EXCEPT ![c].pc = IF a.ok THEN "out" ELSE "refused", ![c].where = "shared"]
  /\ UNCHANGED <<storeVars, degraded, fallbacks, owed, deliverVars, resume, history>>

\* admitLocally reads which fallback is in use after fail() had its say.
PickLocal(c) ==
  /\ call[c].pc = "failed"
  /\ call' = [call EXCEPT ![c].pc = "deciding", ![c].ptr = Local(call[c].gw)]
  /\ UNCHANGED <<storeVars, gatewayVars, deliverVars, resume, history>>

\* admitKeyed on the fallback the thread holds, current or not.
Decide(c) ==
  LET g   == call[c].gw
      p   == call[c].ptr
      fb  == fallbacks[g][p]
      st  == SeenRun(fb.st, 1)
      hit == IF st.paused # "no" \/ Mode(c) = "bypass" THEN "no" ELSE RunCap(st)
      new == [st EXCEPT !.paused = IF hit = "no" THEN @ ELSE hit]
      ok  == Mode(c) # "decide" \/ new.paused = "no"
  IN
  /\ call[c].pc = "deciding"
  /\ fallbacks' = [fallbacks EXCEPT ![g][p] =
       [fb EXCEPT !.st = IF ok THEN [new EXCEPT !.inflight = @ + 1] ELSE new,
                  !.pending = IF fb.gap /\ hit # "no" THEN Append(@, hit) ELSE @]]
  /\ lastWord' = IF fb.gap /\ hit # "no" THEN "pause" ELSE lastWord
  /\ call' = [call EXCEPT ![c].pc = "dispatching",
                          ![c].where = "local",
                          ![c].next = IF ok THEN "out" ELSE "refused"]
  /\ UNCHANGED <<storeVars, degraded, streak, pausedSeen, owed, deliverVars, resume, lost, raced>>

\* dispatch, after the fallback's lock was released: every event queued by
\* then is taken, another thread's too, and each is owed to the store.
DispatchTake(c) ==
  LET g == call[c].gw
      p == call[c].ptr
      q == fallbacks[g][p].pending
  IN
  /\ call[c].pc = "dispatching"
  /\ fallbacks' = [fallbacks EXCEPT ![g][p].pending = <<>>]
  /\ call' = [call EXCEPT ![c].pc = IF q = <<>> THEN call[c].next ELSE "owing", ![c].evs = q]
  /\ UNCHANGED <<storeVars, degraded, streak, pausedSeen, owed, deliverVars, resume, history>>

DispatchOwe(c) ==
  LET q == call[c].evs
  IN
  /\ call[c].pc = "owing"
  /\ Owe(call[c].gw, OwedPause(Head(q)))
  /\ call' = [call EXCEPT ![c].pc = IF Tail(q) = <<>> THEN call[c].next ELSE "owing",
                          ![c].evs = Tail(q)]
  /\ UNCHANGED <<storeVars, degraded, streak, fallbacks, pausedSeen, deliverVars, resume, lastWord, raced>>

-----------------------------------------------------------------------------
(* settle: a local decision goes back to the fallback, whichever it is by   *)
(* then; a decision of the store to the store, or to the queue in a gap.    *)

SettleLocal(c, kind, cost, loop) ==
  /\ call[c].pc = "out" /\ call[c].where = "local"
  /\ call' = [call EXCEPT ![c].pc = "applying",
                          ![c].ptr = Local(call[c].gw),
                          ![c].kind = kind,
                          ![c].cost = cost,
                          ![c].loop = loop]
  /\ UNCHANGED <<storeVars, gatewayVars, deliverVars, resume, history>>

SettleShared(c, kind, cost, loop) ==
  LET g == call[c].gw
  IN
  /\ call[c].pc = "out" /\ call[c].where = "shared"
  /\ call' = [call EXCEPT ![c].pc = IF degraded[g] THEN "oweing" ELSE "settling",
                          ![c].kind = kind,
                          ![c].cost = cost,
                          ![c].loop = loop]
  /\ UNCHANGED <<storeVars, gatewayVars, deliverVars, resume, history>>

Apply(c) ==
  LET g   == call[c].gw
      p   == call[c].ptr
      fb  == fallbacks[g][p]
      new == IF call[c].kind = "r" THEN SettleRun(SeenRun(fb.st, 1), call[c].cost, call[c].loop)
             ELSE Released(fb.st)
      hit == fb.gap /\ Pauses(fb.st, new)
  IN
  /\ call[c].pc = "applying"
  /\ fallbacks' = [fallbacks EXCEPT ![g][p] =
       [fb EXCEPT !.st = new, !.pending = IF hit THEN Append(@, new.paused) ELSE @]]
  /\ lastWord' = IF hit THEN "pause" ELSE lastWord
  /\ call' = [call EXCEPT ![c].pc = IF call[c].kind = "r" THEN "dispatching" ELSE "done",
                          ![c].next = "done"]
  /\ UNCHANGED <<storeVars, degraded, streak, pausedSeen, owed, deliverVars, resume, lost, raced>>

Take(c) ==
  /\ call[c].pc = "settling"
  /\ Taken(call[c].gw, Settlement(call[c].kind, c))
  /\ call' = [call EXCEPT ![c].pc = "done"]
  /\ UNCHANGED <<faults, degraded, fallbacks, owed, deliverVars, resume, lost, raced>>

TakeFails(c, failure, ran) ==
  LET item == Settlement(call[c].kind, c)
  IN
  /\ call[c].pc = "settling"
  /\ Fault(failure, ran)
  /\ db' = IF ran THEN TakeScript(item) ELSE db
  /\ lastWord' = Word(db.tally, db'.tally)
  /\ call' = [call EXCEPT ![c].pc = "takeFailed", ![c].failure = failure]
  /\ UNCHANGED <<gatewayVars, deliverVars, resume, lost, raced>>

\* settle tells fail() of it: a refused settlement is counted, any other is owed.
TakeFailed(c) ==
  LET failure == call[c].failure
  IN
  /\ call[c].pc = "takeFailed"
  /\ Fail(call[c].gw, failure)
  /\ lost' = IF failure = "refused" THEN lost \cup {Settlement(call[c].kind, c)} ELSE lost
  /\ call' = [call EXCEPT ![c].pc = IF failure = "refused" THEN "done" ELSE "oweing",
                          ![c].failure = "busy"]
  /\ UNCHANGED <<storeVars, pausedSeen, owed, deliverVars, resume, lastWord, raced>>

OweSettlement(c) ==
  /\ call[c].pc = "oweing"
  /\ Owe(call[c].gw, Settlement(call[c].kind, c))
  /\ call' = [call EXCEPT ![c].pc = "done"]
  /\ UNCHANGED <<storeVars, degraded, streak, fallbacks, pausedSeen, deliverVars, resume, lastWord, raced>>

-----------------------------------------------------------------------------
(* resumeRun, asked by an operator at gateway g. *)

\* A pause of a gap's fallback that is not in the queue yet, or is in it.
PauseUnderway(g) ==
  \/ \E i \in DOMAIN fallbacks[g] : fallbacks[g][i].pending # <<>>
  \/ \E c \in Calls : call[c].gw = g /\ call[c].pc = "owing"
Awaits(g) == {owed[g][i] : i \in DOMAIN owed[g]} \cup {batch[g][i] : i \in DOMAIN batch[g]}
PauseOwed(g) == \E item \in Awaits(g) : item.kind = "p"

ResumeBegin(u, g) ==
  /\ resume[u].pc = "idle"
  /\ pausedSeen' = [pausedSeen EXCEPT ![g] = "no"]
  /\ resume' = [resume EXCEPT ![u].pc = IF degraded[g] THEN "local" ELSE "asking",
                              ![u].gw = g, ![u].ptr = Local(g)]
  /\ UNCHANGED <<storeVars, degraded, streak, fallbacks, owed, deliverVars, call, history>>

ResumeAsk(u) ==
  /\ resume[u].pc = "asking"
  /\ db' = ResumeScript(db)
  /\ lastWord' = "resume"
  /\ raced' = (raced \/ PauseUnderway(resume[u].gw) \/ PauseOwed(resume[u].gw))
  /\ Answered(resume[u].gw)
  /\ resume' = [resume EXCEPT ![u].pc = "clearing"]
  /\ UNCHANGED <<faults, degraded, fallbacks, pausedSeen, owed, deliverVars, call, lost>>

ResumeFails(u, failure, ran) ==
  /\ resume[u].pc = "asking"
  /\ Fault(failure, ran)
  /\ db' = IF ran THEN ResumeScript(db) ELSE db
  /\ resume' = [resume EXCEPT ![u].pc = "askFailed", ![u].failure = failure]
  /\ UNCHANGED <<gatewayVars, deliverVars, call, history>>

\* resumeRun tells fail() of it.
ResumeFailed(u) ==
  LET failure == resume[u].failure
  IN
  /\ resume[u].pc = "askFailed"
  /\ Fail(resume[u].gw, failure)
  /\ resume' = [resume EXCEPT ![u].pc = IF failure = "refused" THEN "done" ELSE "local",
                              ![u].failure = "busy"]
  /\ UNCHANGED <<storeVars, pausedSeen, owed, deliverVars, call, history>>

\* The fallback's own copy is cleared; the store's is cleared already, or the
\* ask is owed.
ResumeLocal(u) ==
  LET g  == resume[u].gw
      p  == resume[u].ptr
  IN
  /\ resume[u].pc \in {"local", "clearing"}
  /\ fallbacks' = [fallbacks EXCEPT ![g][p].st = IF @.paused = "no" THEN @ ELSE ResumedRun(@)]
  /\ resume' = [resume EXCEPT ![u].pc = IF @ = "local" THEN "oweing" ELSE "done"]
  /\ lastWord' = IF resume[u].pc = "local" THEN "resume" ELSE lastWord
  /\ raced' = (raced \/ (resume[u].pc = "local" /\ PauseUnderway(g)))
  /\ UNCHANGED <<storeVars, degraded, streak, pausedSeen, owed, deliverVars, call, lost>>

OweResume(u) ==
  /\ resume[u].pc = "oweing"
  /\ Owe(resume[u].gw, OwedResume)
  /\ resume' = [resume EXCEPT ![u].pc = "done"]
  /\ UNCHANGED <<storeVars, degraded, streak, fallbacks, pausedSeen, deliverVars, call, lastWord, raced>>

-----------------------------------------------------------------------------
(* deliver, called by flush while healthy and by recovered in a gap.  It    *)
(* holds deliverMu throughout; owed grows meanwhile.                        *)

Delivering(g, who) ==
  IF who = "flush" THEN flush[g] = "deliver" ELSE recover[g].pc \in {"deliver", "last"}

DeliverLock(g, who) ==
  /\ Delivering(g, who) /\ deliverer[g] = "none"
  /\ deliverer' = [deliverer EXCEPT ![g] = who]
  /\ UNCHANGED <<storeVars, gatewayVars, batch, flush, recover, threadVars, history>>

DeliverBatch(g) ==
  LET n == IF Len(owed[g]) > FlushBatch THEN FlushBatch ELSE Len(owed[g])
  IN
  /\ deliverer[g] # "none" /\ batch[g] = <<>> /\ owed[g] # <<>>
  /\ batch' = [batch EXCEPT ![g] = SubSeq(owed[g], 1, n)]
  /\ owed' = [owed EXCEPT ![g] = SubSeq(@, n + 1, Len(@))]
  /\ UNCHANGED <<storeVars, degraded, streak, fallbacks, pausedSeen, deliverer, flush, recover,
                 threadVars, history>>

\* A delivery that no command has failed yet is at the first of its batch.
AtItem(g) == batch[g] # <<>> /\ Delivering(g, deliverer[g])

DeliverTake(g) ==
  /\ AtItem(g)
  /\ Taken(g, Head(batch[g]))
  /\ batch' = [batch EXCEPT ![g] = Tail(@)]
  /\ UNCHANGED <<faults, degraded, fallbacks, owed, deliverer, flush, recover, threadVars, lost, raced>>

\* The store refuses one item: it is dropped and the delivery goes on.
DeliverRefused(g) ==
  /\ AtItem(g)
  /\ Fault("refused", FALSE)
  /\ lost' = lost \cup {Head(batch[g])}
  /\ batch' = [batch EXCEPT ![g] = Tail(@)]
  /\ UNCHANGED <<db, gatewayVars, deliverer, flush, recover, threadVars, lastWord, raced>>

\* Slips: what arrived meanwhile goes first; the item that failed is skipped.
PutBack_Behind(items, q) == q \o items
PutBack_Skips(items, q) == Tail(items) \o q

\* putBack: what a delivery could not complete, ahead of anything newer.
PutBack(items, q) == items \o q

\* Any other failure of the command for an item ends the delivery.
DeliverFails(g, failure, ran) ==
  LET item == Head(batch[g])
      who  == deliverer[g]
  IN
  /\ AtItem(g) /\ failure # "refused"
  /\ Fault(failure, ran)
  /\ db' = IF ran THEN TakeScript(item) ELSE db
  /\ lastWord' = IF item.kind = "r" THEN Word(db.tally, db'.tally) ELSE lastWord
  /\ flush' = IF who = "flush" THEN [flush EXCEPT ![g] = failure] ELSE flush
  /\ recover' = IF who = "flush" THEN recover
                ELSE [recover EXCEPT ![g].pc = IF @ = "last" THEN "reopen" ELSE "stop"]
  /\ UNCHANGED <<gatewayVars, batch, deliverer, threadVars, lost, raced>>

\* What is left of the batch goes back, and deliverMu is free.  recovered keeps
\* the gap when a pass fails: the next probe retries.
DeliverStops(g) ==
  LET who == deliverer[g]
  IN
  /\ who # "none" /\ batch[g] # <<>> /\ ~Delivering(g, who)
  /\ owed' = [owed EXCEPT ![g] = PutBack(batch[g], @)]
  /\ batch' = [batch EXCEPT ![g] = <<>>]
  /\ deliverer' = [deliverer EXCEPT ![g] = "none"]
  /\ recover' = IF who = "recover" /\ recover[g].pc = "stop"
                THEN [recover EXCEPT ![g].pc = "idle"] ELSE recover
  /\ UNCHANGED <<storeVars, degraded, streak, fallbacks, pausedSeen, flush, threadVars, history>>

\* flush tells fail() how its delivery failed.
FlushFailed(g) ==
  /\ flush[g] \in Failures /\ deliverer[g] # "flush"
  /\ Fail(g, flush[g])
  /\ flush' = [flush EXCEPT ![g] = "idle"]
  /\ UNCHANGED <<storeVars, pausedSeen, owed, batch, deliverer, recover, threadVars, history>>

\* The delivery after the swap failed: the gap goes on.
RecoverReopens(g) ==
  /\ recover[g].pc = "reopen" /\ deliverer[g] # "recover"
  /\ IF degraded[g] THEN UNCHANGED <<degraded, streak, fallbacks>> ELSE Degrade(g)
  /\ recover' = [recover EXCEPT ![g].pc = "idle"]
  /\ UNCHANGED <<storeVars, pausedSeen, owed, batch, deliverer, flush, threadVars, history>>

DeliverDone(g) ==
  LET who == deliverer[g]
  IN
  /\ who # "none" /\ batch[g] = <<>> /\ owed[g] = <<>>
  /\ deliverer' = [deliverer EXCEPT ![g] = "none"]
  /\ flush' = IF who = "flush" THEN [flush EXCEPT ![g] = "idle"] ELSE flush
  /\ recover' = IF who = "flush" THEN recover
                ELSE [recover EXCEPT ![g].pc = IF @ = "last" THEN "idle" ELSE "check"]
  /\ UNCHANGED <<storeVars, gatewayVars, batch, threadVars, history>>

\* flush: by the probe, or behind a call the store answered.
FlushBegin(g) ==
  /\ flush[g] = "idle" /\ recover[g].pc = "idle" /\ ~degraded[g] /\ owed[g] # <<>>
  /\ flush' = [flush EXCEPT ![g] = "deliver"]
  /\ UNCHANGED <<storeVars, gatewayVars, batch, deliverer, recover, threadVars, history>>

-----------------------------------------------------------------------------
(* recovered: the probe's PING was answered in a gap. *)

RecoverBegin(g) ==
  /\ degraded[g] /\ recover[g].pc = "idle"
  /\ recover' = [recover EXCEPT ![g] = [pc |-> "deliver", pass |-> 1]]
  /\ UNCHANGED <<storeVars, gatewayVars, batch, deliverer, flush, threadVars, history>>

\* Slip: the test is inverted, a quiet queue asks for another pass.
RecoverCheck_Inverted(g) ==
  /\ recover[g].pc = "check"
  /\ recover' = [recover EXCEPT ![g].pc = IF owed[g] # <<>> THEN "swap" ELSE "deliver"]
  /\ UNCHANGED <<storeVars, gatewayVars, batch, deliverer, flush, threadVars, history>>

\* Another pass while the gap keeps producing, up to the bound.
RecoverCheck(g) ==
  /\ recover[g].pc = "check"
  /\ recover' = [recover EXCEPT ![g] =
       IF owed[g] = <<>> \/ @.pass >= WriteBackPasses THEN [@ EXCEPT !.pc = "swap"]
       ELSE [pc |-> "deliver", pass |-> @.pass + 1]]
  /\ UNCHANGED <<storeVars, gatewayVars, batch, deliverer, flush, threadVars, history>>

\* The store's kill switch is read; then decisions go back to the store, with
\* a fresh fallback, and what slipped in is delivered.
RecoverSwap(g) ==
  /\ recover[g].pc = "swap"
  /\ fallbacks' = [fallbacks EXCEPT ![g] = Append(@, FreshFallback(pausedSeen[g], FALSE))]
  /\ degraded' = [degraded EXCEPT ![g] = FALSE]
  /\ streak' = [streak EXCEPT ![g] = 0]
  /\ recover' = [recover EXCEPT ![g].pc = "last"]
  /\ UNCHANGED <<storeVars, pausedSeen, owed, batch, deliverer, flush, threadVars, history>>

\* That read fails: still in the gap.
RecoverFails(g) ==
  /\ recover[g].pc = "swap"
  /\ Fault("drop", FALSE)
  /\ recover' = [recover EXCEPT ![g].pc = "idle"]
  /\ UNCHANGED <<db, gatewayVars, batch, deliverer, flush, threadVars, history>>

-----------------------------------------------------------------------------
CallMoves(c) ==
  \/ Ask(c, FALSE) \/ Process(c) \/ AskFailed(c) \/ PickLocal(c)
  \/ Decide(c) \/ DispatchTake(c) \/ DispatchOwe(c)
  \/ Apply(c) \/ Take(c) \/ TakeFailed(c) \/ OweSettlement(c)

CallFails(c) ==
  \/ Ask(c, TRUE)
  \/ \E failure \in Failures, ran \in BOOLEAN : AskFails(c, failure, ran) \/ TakeFails(c, failure, ran)

Settle(c) ==
  \E kind \in {"r", "l"}, cost \in Costs, loop \in {FALSE, PauseOnSuspectedLoop} :
    SettleLocal(c, kind, cost, loop) \/ SettleShared(c, kind, cost, loop)

ResumeMoves(u) == ResumeAsk(u) \/ ResumeFailed(u) \/ ResumeLocal(u) \/ OweResume(u)

GatewayMoves(g) ==
  \/ \E who \in {"flush", "recover"} : DeliverLock(g, who)
  \/ DeliverBatch(g) \/ DeliverTake(g) \/ DeliverDone(g) \/ DeliverStops(g)
  \/ FlushBegin(g) \/ FlushFailed(g)
  \/ RecoverBegin(g) \/ RecoverCheck(g) \/ RecoverSwap(g) \/ RecoverReopens(g)

GatewayFails(g) ==
  \/ DeliverRefused(g) \/ RecoverFails(g)
  \/ \E failure \in Failures, ran \in BOOLEAN : DeliverFails(g, failure, ran)

\* Nothing is left to do: every call and ask is over, nothing is owed.
Finished ==
  /\ \A c \in Calls : call[c].pc \in {"refused", "done"}
  /\ \A u \in Resumes : resume[u].pc = "done"
  /\ \A g \in Gateways :
       ~degraded[g] /\ owed[g] = <<>> /\ flush[g] = "idle" /\ recover[g].pc = "idle"
  /\ UNCHANGED vars

Next ==
  \/ \E c \in Calls : CallMoves(c) \/ CallFails(c) \/ Settle(c) \/ \E g \in Gateways : Begin(c, g)
  \/ \E u \in Resumes :
       \/ ResumeMoves(u) \/ \E g \in Gateways : ResumeBegin(u, g)
       \/ \E failure \in Failures, ran \in BOOLEAN : ResumeFails(u, failure, ran)
  \/ \E g \in Gateways : GatewayMoves(g) \/ GatewayFails(g)
  \/ Finished

\* The Go scheduler runs a thread that can move, the probe's ticker keeps
\* firing, and the failures end (MaxFaults).  A call in flight ends when the
\* provider and the caller let it, so Settle is not fair.
Fairness ==
  /\ \A c \in Calls : WF_vars(CallMoves(c))
  /\ \A u \in Resumes : WF_vars(ResumeMoves(u))
  /\ \A g \in Gateways : WF_vars(GatewayMoves(g))

Spec     == Init /\ [][Next]_vars
FairSpec == Spec /\ Fairness

-----------------------------------------------------------------------------
(* Safety. *)

\* Once per token: whatever is lost, sent again or delivered late, the store
\* tallies no more calls than were recorded with it, and every reservation it
\* holds is of a call it admitted and has not settled (luaAdmit, luaRecord and
\* luaRelease look up the token first).
OncePerToken ==
  LET admitted == {c \in Calls : db.admits[c] = "served"}
  IN  /\ db.tally.inflight <= Cardinality(admitted \ db.settled)
      /\ db.tally.calls <= Cardinality({c \in db.settled : call[c].kind = "r"})

\* One cap for every replica: without resumes or a bypass, the calls the store
\* let through, over all gateways, gaps and lost answers, less the ones given
\* back, stay within MaxCallsPerRun.
Through == {"out", "settling", "takeFailed", "oweing", "done"}
SharedCapHolds ==
  MaxCallsPerRun > 0 /\ Resumes = {} /\ BypassCalls = {} /\ ~Shadow =>
    Cardinality({c \in Calls : /\ call[c].where = "shared" /\ call[c].pc \in Through
                               /\ ~(c \in db.settled /\ call[c].kind = "l")}) <= MaxCallsPerRun

\* No settlement disappears: a call the store admitted and the gateway has
\* settled is settled in the store, or still owed to it, or counted as dropped
\* from a full queue or refused (settle, owe, deliver, putBack).
NoSettlementLost ==
  \A c \in Calls :
    call[c].pc = "done" /\ call[c].where = "shared" =>
      LET item == Settlement(call[c].kind, c)
      IN  c \in db.settled \/ item \in lost \/ item \in Awaits(call[c].gw)

\* Gateway g has nothing underway that could still reach the store.
Quiet(g) ==
  /\ Awaits(g) = {} /\ ~PauseUnderway(g)
  /\ \A u \in Resumes : resume[u].pc \in {"idle", "done"}

\* The operator's decision is the last word: with one gateway, when all that
\* was owed has landed and the run was resumed after it was last paused, it is
\* not paused in the store, unless the resume met a pause still on its way.
ResumeLandsLast ==
  \A g \in Gateways :
    Gateways = {g} /\ Quiet(g) /\ lastWord = "resume" /\ ~raced /\ OwedResume \notin lost =>
      db.tally.paused = "no"

-----------------------------------------------------------------------------
(* Liveness, under FairSpec: the failures end, the probe goes on. *)

\* A gap ends.
GapEnds == \A g \in Gateways : degraded[g] ~> ~degraded[g]

\* What is owed lands: a settled call of the store is settled there, or is
\* counted as lost; and the queue drains.
OwedLands ==
  /\ \A c \in Calls : call[c].pc = "done" /\ call[c].where = "shared" ~>
                        c \in db.settled \/ Settlement(call[c].kind, c) \in lost
  /\ \A g \in Gateways : owed[g] # <<>> ~> owed[g] = <<>>
=============================================================================
