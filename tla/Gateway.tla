-------------------------------- MODULE Gateway --------------------------------
(***************************************************************************)
(* The request handler of internal/gateway/gateway.go, with loop detection *)
(* and loop control on: one call is read, shown to the detector, noted,    *)
(* decided by the budget, forwarded, relayed, settled and recorded, and    *)
(* every early return on that way.  The budget is the promise Budget.tla   *)
(* states, so the same handler stands over the in-memory controller and    *)
(* over the shared counter; the detector is LoopDetector.tla.              *)
(*                                                                         *)
(* Bodies, headers and prices are left out: a call names a run, a key and  *)
(* a signature.  The provider's status code is assumed to be one that      *)
(* net/http can relay.                                                     *)
(***************************************************************************)
EXTENDS Budget, LoopDetector, Sequences

CONSTANTS
  Sigs,         \* signatures of request bodies
  MaxTime       \* bound on the clock

ASSUME GatewayAssumption == MaxTime \in Nat /\ NoKey \notin Runs \cup Keys

VARIABLES
  now,          \* the clock
  req,          \* where each call is in ServeHTTP
  win,          \* detector.runs
  ledger        \* how often the recorder has written each row

(***************************************************************************)
(* History: the calls the detector has observed, the newest time among     *)
(* them, the largest time by which an observed call came later than one    *)
(* observed before it, and the calls it forgot to stay within MaxWindows.  *)
(***************************************************************************)
VARIABLES observed, newest, lag, crowded

vars == <<killed, stopped, out, decided, now, req, win, ledger, observed, newest, lag, crowded>>
detection == <<win, observed, newest, lag, crowded>>

Places  == {"read", "observe", "note", "admit", "forward", "relay",
            "row", "blocked", "done"}
NewReq  == [at |-> "read", run |-> NoRun, key |-> NoKey, sig |-> 0, t |-> 0,
            dec |-> NoDecision, end |-> "none", row |-> "none"]
Ends    == {"none", "too_large", "refused", "released", "served"}
Fates   == {"written", "lost"}   \* of a row handed to the recorder
Row     == [call: Calls, is: {"served", "blocked"}]

TypeOK ==
  /\ now \in 0..MaxTime
  /\ \A c \in Calls : req[c].at \in Places /\ req[c].end \in Ends /\ req[c].t \in 0..MaxTime
                   /\ req[c].row \in Fates \cup {"none"}
  /\ killed \in BOOLEAN /\ stopped \subseteq Runs \cup Keys /\ decided \subseteq Calls
  /\ \A r \in Runs : win[r].lastSeen \in 0..MaxTime
  /\ ledger \in [Row -> Nat]
  /\ lag \in 0..MaxTime /\ newest \in 0..MaxTime

Init ==
  /\ BudgetInit
  /\ now = 0
  /\ req = [c \in Calls |-> NewReq]
  /\ win = [r \in Runs |-> NoWindow]
  /\ ledger = [row \in Row |-> 0]
  /\ observed = {} /\ newest = 0 /\ lag = 0 /\ crowded = {}

At(c, where) == req[c].at = where
Goto(c, where) == req' = [req EXCEPT ![c].at = where]
End(c, end) == req' = [req EXCEPT ![c].at = "done", ![c].end = end]

-----------------------------------------------------------------------------
(* ServeHTTP up to the decision. *)

\* The body is read; one above the limit is refused before anything else.
TooLarge(c) ==
  /\ At(c, "read")
  /\ End(c, "too_large")
  /\ UNCHANGED <<budgetVars, now, ledger, detection>>

\* The call's run, key and signature; the time is read for the call of
\* observe, before observe takes its lock.
ReadRequest(c, r, k, s) ==
  /\ At(c, "read")
  /\ req' = [req EXCEPT ![c].at = IF r = NoRun THEN "note" ELSE "observe",
                        ![c].run = r, ![c].key = k, ![c].sig = s, ![c].t = IF r = NoRun THEN 0 ELSE now]
  /\ UNCHANGED <<budgetVars, now, ledger, detection>>

Stamped(c) == [call |-> c, t |-> req[c].t, sig |-> req[c].sig]

Observe(c) ==
  LET e    == Stamped(c)
      r    == req[c].run
      seen == Seen(win, r, e)
      gone == Expired(seen, e)
  IN
  /\ At(c, "observe")
  /\ \E V \in Oldest(seen, gone) :
       /\ win' = Evict(seen, gone \cup V)
       /\ crowded' = crowded \cup {f.call : f \in UNION {seen[v].events : v \in V}}
  /\ req' = [req EXCEPT ![c].at = "note", ![c].dec = Decision(seen[r].events)]
  /\ observed' = observed \cup {c}
  /\ newest' = Max({newest, e.t})
  /\ lag' = Max({lag, newest - e.t})
  /\ UNCHANGED <<budgetVars, now, ledger>>

\* noteRun, noteKey and setRunCap.
NoteCall(c) ==
  /\ At(c, "note")
  /\ Note(req[c].key)
  /\ Goto(c, "admit")
  /\ UNCHANGED <<now, ledger, detection>>

Admitted(c) ==
  /\ At(c, "admit")
  /\ Admit(c, req[c].run, req[c].key)
  /\ Goto(c, "forward")
  /\ UNCHANGED <<now, ledger, detection>>

Refused(c) ==
  /\ At(c, "admit")
  /\ Refuse(c, req[c].run, req[c].key)
  /\ Goto(c, "blocked")
  /\ UNCHANGED <<now, ledger, detection>>

-----------------------------------------------------------------------------
(* The row of a call: written, or lost to an error or to a panic that       *)
(* record and recordBlocked recover from.                                   *)

Recorded(c, is, fate) ==
  ledger' = [ledger EXCEPT ![[call |-> c, is |-> is]] = IF fate = "written" THEN @ + 1 ELSE @]

Finish(c, end, fate) ==
  req' = [req EXCEPT ![c].at = "done", ![c].end = end, ![c].row = fate]

\* recordBlocked, after which the caller gets its 429 or 503.
RowBlocked(c) ==
  /\ At(c, "blocked")
  /\ \E fate \in Fates : Recorded(c, "blocked", fate) /\ Finish(c, "refused", fate)
  /\ UNCHANGED <<budgetVars, now, detection>>

-----------------------------------------------------------------------------
(* ServeHTTP after an admit. *)

\* Slip: the early return forgets the reservation.
ForwardFails_Forgets(c) ==
  /\ At(c, "forward")
  /\ End(c, "released")
  /\ UNCHANGED <<budgetVars, now, ledger, detection>>

\* The request cannot be built, or no answer to it came: the provider is
\* unreachable, or the caller left before it sent its headers.
ForwardFails(c) ==
  /\ At(c, "forward")
  /\ Settle(c, req[c].run, req[c].key)
  /\ End(c, "released")
  /\ UNCHANGED <<now, ledger, detection>>

\* The provider answered; its body is being relayed.
Forwarded(c) ==
  /\ At(c, "forward")
  /\ Goto(c, "relay")
  /\ UNCHANGED <<budgetVars, now, ledger, detection>>

\* Slip: the row first, and a recorder that panics skips the settlement.
RecordSettles_RowFirst(c) ==
  /\ At(c, "relay")
  /\ \/ /\ Recorded(c, "served", "written") /\ Finish(c, "served", "written")
        /\ Settle(c, req[c].run, req[c].key)
     \/ Finish(c, "served", "lost") /\ UNCHANGED <<budgetVars, ledger>>
  /\ UNCHANGED <<now, detection>>

\* The body has ended, however it ended: record settles the call first.
RecordSettles(c) ==
  /\ At(c, "relay")
  /\ Settle(c, req[c].run, req[c].key)
  /\ Goto(c, "row")
  /\ UNCHANGED <<now, ledger, detection>>

\* Slip: a row that was not written is not written off: it is blocked.
RowServed_Blocked(c) ==
  /\ At(c, "row")
  /\ \E fate \in Fates : Recorded(c, "blocked", fate) /\ Finish(c, "served", fate)
  /\ UNCHANGED <<budgetVars, now, detection>>

RowServed(c) ==
  /\ At(c, "row")
  /\ \E fate \in Fates : Recorded(c, "served", fate) /\ Finish(c, "served", fate)
  /\ UNCHANGED <<budgetVars, now, detection>>

-----------------------------------------------------------------------------
(* serveAdmin and the clock. *)

AdminResume(x) == Resume(x) /\ UNCHANGED <<now, req, ledger, detection>>
AdminKill(on)  == SetKill(on) /\ UNCHANGED <<now, req, ledger, detection>>

Tick ==
  /\ now < MaxTime
  /\ now' = now + 1
  /\ UNCHANGED <<budgetVars, req, ledger, detection>>

Handle(c) ==
  \/ TooLarge(c)
  \/ \E r \in Runs \cup {NoRun}, k \in Keys \cup {NoKey}, s \in Sigs : ReadRequest(c, r, k, s)
  \/ Observe(c) \/ NoteCall(c) \/ Admitted(c) \/ Refused(c)
  \/ ForwardFails(c) \/ Forwarded(c) \/ RecordSettles(c) \/ RowServed(c) \/ RowBlocked(c)

Next ==
  \/ \E c \in Calls : Handle(c)
  \/ \E x \in Runs \cup Keys : AdminResume(x)
  \/ \E on \in BOOLEAN : AdminKill(on)
  \/ Tick

Spec == Init /\ [][Next]_vars

-----------------------------------------------------------------------------
(* Properties. *)

\* What the budget holds against a call is exactly what is on its way to or
\* from the provider: no early return, failed forward or failing recorder of
\* ServeHTTP leaves a reservation behind, and none returns one twice.
ReservedWhileOut ==
  out = {<<c, req[c].run, req[c].key>> : c \in {d \in Calls : req[d].at \in {"forward", "relay"}}}

Rows(c, is) == ledger[[call |-> c, is |-> is]]

\* The ledger tells what happened: a call has one row when it ends as served
\* or refused, unless the recorder lost it, and no row as long as it is out, if
\* no answer to it came or it was never decided.  A served row therefore never
\* precedes its settlement, and no call is billed that was refused.  (A call the
\* provider took, but whose caller left before an answer, has no row either.)
RowsTellTheTruth ==
  \A c \in Calls :
    /\ Rows(c, "served") = IF req[c].end = "served" /\ req[c].row = "written" THEN 1 ELSE 0
    /\ Rows(c, "blocked") = IF req[c].end = "refused" /\ req[c].row = "written" THEN 1 ELSE 0
    /\ Rows(c, "served") = 1 => \A x \in out : x[1] # c

\* The observed calls of a run with a time after t.
Since(r, t) == {c \in observed : req[c].run = r /\ req[c].t > t}

\* What the detector still knows of a run, though times are read outside its
\* lock: every call in the window that ends with the newest call, shortened by
\* the lateness calls have had, except those given up to stay within
\* MaxWindows.  (A late call sets lastSeen back, so evict can drop a run whose
\* newest call is still in the window, but only by that much.)  Calls observed
\* in the order of their times are all known.
NoRecentCallForgotten ==
  \A r \in Runs :
    Since(r, newest - Window + lag) \ crowded \subseteq {e.call : e \in win[r].events}

\* What the policy calls a loop: too many calls, or one of them too often.
Loops(D) ==
  \/ MaxPerRun > 0 /\ Cardinality(D) >= MaxPerRun
  \/ MaxRepeat > 0 /\ \E e \in D : Cardinality({d \in D : req[d].sig = req[e].sig}) >= MaxRepeat

\* The calls of c's run in the window that ends with c; those in it that
\* nothing made the detector forget, and c; and those observed before c though
\* they came after it.
InWindow(c)   == {c} \cup {d \in Since(req[c].run, req[c].t - Window) : req[d].t <= req[c].t}
Remembered(c) == {c} \cup {d \in InWindow(c) \ crowded : req[d].t > newest - Window + lag}
Ahead(c)      == Since(req[c].run, req[c].t)

\* A call is suspected if the calls of its window that were not given up or
\* come too late are a loop, and it is suspected only if the calls of its
\* window are one together with those ahead of it.  observe drops no event for
\* being later than the call it is shown, so a call that reaches its lock after
\* a later one is told of that one too; a call that is not overtaken is flagged
\* for nothing outside its window.
FlagsItsWindow ==
  [][\A c \in observed' \ observed :
       /\ Loops(Remembered(c)) => req'[c].dec.suspected
       /\ req'[c].dec.suspected => Loops(InWindow(c) \cup Ahead(c))]_vars
=============================================================================
