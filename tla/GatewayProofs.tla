---------------------------- MODULE GatewayProofs ----------------------------
(***************************************************************************)
(* Proofs about Gateway.tla for every set of calls, runs and keys, every   *)
(* loop policy and every length of time: what the handler holds against    *)
(* the budget, what it writes to the ledger, and what its detector knows.  *)
(***************************************************************************)
EXTENDS Gateway, FiniteSetTheorems, WellFoundedInduction, TLAPS

-----------------------------------------------------------------------------
(* The types of the handler's calls and of the detector's windows. *)

Event == [call : Calls, t : 0..MaxTime, sig : Sigs \cup {0}]
Decs  == {Decision(E) : E \in SUBSET Event} \cup {NoDecision}
Req   == [at : Places, run : Runs \cup {NoRun}, key : Keys \cup {NoKey}, sig : Sigs \cup {0},
          t : 0..MaxTime, dec : Decs, end : Ends, row : Fates \cup {"none"}]
Win   == [events : SUBSET Event, lastSeen : 0..MaxTime]

Shape ==
  /\ req \in [Calls -> Req]
  /\ win \in [Runs -> Win]
  /\ observed \subseteq Calls /\ IsFiniteSet(observed)

\* A call that the detector is shown, or was shown, names a run, and is past
\* the place where its run and its time are read.
ShownNamesRun ==
  \A c \in Calls :
    /\ req[c].at = "observe" => req[c].run \in Runs
    /\ c \in observed => req[c].run \in Runs /\ req[c].at \notin {"read", "observe"}

GatewayType == TypeOK /\ Shape /\ ShownNamesRun

\* A call that goes on has not ended and has no row yet.
Unended == \A c \in Calls : req[c].at # "done" => req[c].end = "none" /\ req[c].row = "none"

\* A window holds requests the detector was shown, of its run, as they were
\* stamped, and no call observed is later than the newest.
EventsAreCalls ==
  /\ \A r \in Runs : \A e \in win[r].events :
       e.call \in observed /\ e = Stamped(e.call) /\ req[e.call].run = r
  /\ \A c \in observed : req[c].t <= newest

\* A window was last seen no earlier than its events, but for the lateness of
\* the calls.
SeenSinceEvents == \A r \in Runs : \A e \in win[r].events : win[r].lastSeen + lag >= e.t

Detects == EventsAreCalls /\ SeenSinceEvents /\ NoRecentCallForgotten

-----------------------------------------------------------------------------
(* The operators of the detector. *)

LEMMA MaxOfTwo ==
  ASSUME NEW a \in Int, NEW b \in Int
  PROVE  Max({a, b}) = IF a >= b THEN a ELSE b
BY DEF Max

\* What the detector holds of a call's run once it was shown the call.
Kept(c) == {f \in win[req[c].run].events : f.t > req[c].t - Window} \cup {Stamped(c)}
Shown(c) == Seen(win, req[c].run, Stamped(c))

LEMMA ShownWindows ==
  ASSUME Shape, NEW c \in Calls, req[c].run \in Runs
  PROVE  /\ Stamped(c) \in Event /\ Kept(c) \in SUBSET Event
         /\ Shown(c) \in [Runs -> Win]
         /\ Shown(c)[req[c].run] = [events |-> Kept(c), lastSeen |-> req[c].t]
         /\ \A r \in Runs : r # req[c].run => Shown(c)[r] = win[r]
<1> DEFINE r == req[c].run
           w == [events |-> Kept(c), lastSeen |-> req[c].t]
<1>1. req[c].t \in 0..MaxTime /\ req[c].sig \in Sigs \cup {0} /\ win[r] \in Win
  BY DEF Shape, Req
<1>2. Stamped(c) \in Event
  BY <1>1 DEF Stamped, Event
<1>3. Kept(c) \in SUBSET Event
  BY <1>1, <1>2 DEF Kept, Win
<1>4. w \in Win
  BY <1>1, <1>3 DEF Win
<1>5. Shown(c) = [win EXCEPT ![r] = w]
  BY <1>2 DEF Shown, Seen, Cutoff, Stamped, Kept
<1> HIDE DEF w
<1>6. Shown(c) \in [Runs -> Win] /\ Shown(c)[r] = w /\ \A q \in Runs : q # r => Shown(c)[q] = win[q]
  BY <1>4, <1>5 DEF Shape
<1> QED
  BY <1>2, <1>3, <1>6 DEF w

\* The windows that go because they expired, and those given up for MaxWindows.
Goes(c, V, r) ==
  IF r \in Expired(Shown(c), Stamped(c)) \cup V THEN NoWindow ELSE Shown(c)[r]

LEMMA ObserveIs ==
  ASSUME GatewayType, NEW c \in Calls, Observe(c)
  PROVE  /\ req[c].at = "observe" /\ req[c].run \in Runs
         /\ \E V \in SUBSET Runs :
              /\ win' = [r \in Runs |-> Goes(c, V, r)]
              /\ crowded' = crowded \cup {f.call : f \in UNION {Shown(c)[v].events : v \in V}}
         /\ req' = [req EXCEPT ![c].at = "note", ![c].dec = Decision(Kept(c))]
         /\ observed' = observed \cup {c}
         /\ newest' = Max({newest, req[c].t}) /\ lag' = Max({lag, newest - req[c].t})
         /\ UNCHANGED <<budgetVars, now, ledger>>
<1>1. req[c].at = "observe" /\ req[c].run \in Runs /\ Shape
  BY DEF Observe, At, GatewayType, ShownNamesRun
<1>2. Shown(c) \in [Runs -> Win] /\ Shown(c)[req[c].run].events = Kept(c)
  <2>1. Shown(c) \in [Runs -> Win] /\ Shown(c)[req[c].run] = [events |-> Kept(c), lastSeen |-> req[c].t]
    BY <1>1, ShownWindows
  <2> QED
    BY <2>1
<1>3. PICK V \in Oldest(Shown(c), Expired(Shown(c), Stamped(c))) :
        /\ win' = Evict(Shown(c), Expired(Shown(c), Stamped(c)) \cup V)
        /\ crowded' = crowded \cup {f.call : f \in UNION {Shown(c)[v].events : v \in V}}
  BY DEF Observe, Shown
<1>4. V \in SUBSET Runs
  BY <1>2 DEF Oldest, Tracked, kSubset
<1>5. win' = [r \in Runs |-> Goes(c, V, r)]
  BY <1>2, <1>3 DEF Evict, Goes
<1>6. req' = [req EXCEPT ![c].at = "note", ![c].dec = Decision(Kept(c))]
  BY <1>2 DEF Observe, Shown
<1>7. Stamped(c).t = req[c].t
  BY DEF Stamped
<1> QED
  BY <1>1, <1>3, <1>4, <1>5, <1>6, <1>7 DEF Observe

-----------------------------------------------------------------------------
(* What a step of the handler makes of its call. *)

\* Only call c moves, and it stays of its type.
Only(c) == req' \in [Calls -> Req] /\ \A d \in Calls \ {c} : req'[d] = req[d]

\* Call c keeps its run, key, signature and time.
KeepsNames(c) ==
  req'[c].run = req[c].run /\ req'[c].key = req[c].key /\ req'[c].sig = req[c].sig /\ req'[c].t = req[c].t

LEMMA GotoIs ==
  ASSUME Shape, NEW c \in Calls, NEW p \in Places, Goto(c, p)
  PROVE  /\ Only(c) /\ KeepsNames(c) /\ req'[c].at = p
         /\ req'[c].end = req[c].end /\ req'[c].row = req[c].row
<1>1. req[c] \in Req
  BY DEF Shape
<1>2. [req[c] EXCEPT !.at = p] \in Req
  BY <1>1 DEF Req
<1>3. req' = [req EXCEPT ![c] = [req[c] EXCEPT !.at = p]]
  BY DEF Goto
<1> QED
  BY <1>1, <1>2, <1>3 DEF Shape, Only, KeepsNames, Req

LEMMA EndIs ==
  ASSUME Shape, NEW c \in Calls, NEW e \in Ends, End(c, e)
  PROVE  /\ Only(c) /\ KeepsNames(c) /\ req'[c].at = "done"
         /\ req'[c].end = e /\ req'[c].row = req[c].row
<1> DEFINE q == [[req[c] EXCEPT !.at = "done"] EXCEPT !.end = e]
<1>1. req[c] \in Req
  BY DEF Shape
<1>2. q \in Req
  BY <1>1 DEF Req, Places
<1>3. req' = [req EXCEPT ![c] = q]
  BY DEF End
<1> QED
  BY <1>1, <1>2, <1>3 DEF Shape, Only, KeepsNames, Req

LEMMA FinishIs ==
  ASSUME Shape, NEW c \in Calls, NEW e \in Ends, NEW f \in Fates, Finish(c, e, f)
  PROVE  /\ Only(c) /\ KeepsNames(c) /\ req'[c].at = "done"
         /\ req'[c].end = e /\ req'[c].row = f
<1> DEFINE q == [[[req[c] EXCEPT !.at = "done"] EXCEPT !.end = e] EXCEPT !.row = f]
<1>1. req[c] \in Req
  BY DEF Shape
<1>2. q \in Req
  BY <1>1 DEF Req, Places
<1>3. req' = [req EXCEPT ![c] = q]
  BY DEF Finish
<1> QED
  BY <1>1, <1>2, <1>3 DEF Shape, Only, KeepsNames, Req

LEMMA ReadIs ==
  ASSUME TypeOK, Shape, NEW c \in Calls, NEW r \in Runs \cup {NoRun}, NEW k \in Keys \cup {NoKey},
         NEW s \in Sigs, ReadRequest(c, r, k, s)
  PROVE  /\ Only(c) /\ req'[c].at \in {"note", "observe"} /\ req'[c].run = r
         /\ req'[c].at = "observe" => r # NoRun
         /\ req'[c].end = req[c].end /\ req'[c].row = req[c].row
<1> DEFINE p == IF r = NoRun THEN "note" ELSE "observe"
           t == IF r = NoRun THEN 0 ELSE now
           q == [[[[[req[c] EXCEPT !.at = p] EXCEPT !.run = r] EXCEPT !.key = k] EXCEPT !.sig = s]
                   EXCEPT !.t = t]
<1>1. req[c] \in Req
  BY DEF Shape
<1>2. t \in 0..MaxTime /\ p \in {"note", "observe"} /\ p \in Places
  BY GatewayAssumption DEF TypeOK, Places
<1>3. req' = [req EXCEPT ![c] = q]
  BY DEF ReadRequest
<1>4. p = "observe" => r # NoRun
  OBVIOUS
<1> HIDE DEF p, t
<1>5. q \in Req /\ q.at = p /\ q.run = r /\ q.end = req[c].end /\ q.row = req[c].row
  BY <1>1, <1>2 DEF Req
<1> QED
  BY <1>1, <1>2, <1>3, <1>4, <1>5 DEF Shape, Only

LEMMA NotedIs ==
  ASSUME GatewayType, NEW c \in Calls, Observe(c)
  PROVE  /\ Only(c) /\ KeepsNames(c) /\ req'[c].at = "note" /\ req'[c].dec = Decision(Kept(c))
         /\ req'[c].end = req[c].end /\ req'[c].row = req[c].row
<1> DEFINE q == [[req[c] EXCEPT !.at = "note"] EXCEPT !.dec = Decision(Kept(c))]
<1>1. req[c] \in Req /\ Shape /\ req[c].run \in Runs
  BY ObserveIs DEF GatewayType, Shape
<1>2. Decision(Kept(c)) \in Decs
  BY <1>1, ShownWindows DEF Decs
<1>3. q \in Req
  BY <1>1, <1>2 DEF Req, Places
<1>4. req' = [req EXCEPT ![c] = q]
  BY ObserveIs
<1> QED
  BY <1>1, <1>2, <1>3, <1>4 DEF Shape, Only, KeepsNames, Req

-----------------------------------------------------------------------------
(* Types. *)

BudgetType == killed \in BOOLEAN /\ stopped \subseteq Runs \cup Keys /\ decided \subseteq Calls

LEMMA BudgetStepType ==
  ASSUME BudgetType, NEW c \in Calls, NEW r \in Runs \cup {NoRun}, NEW k \in Keys \cup {NoKey},
         \/ Admit(c, r, k) \/ Refuse(c, r, k) \/ Settle(c, r, k) \/ Note(k)
  PROVE  BudgetType'
<1>1. \A S \in Stops(r, k) : S \subseteq Runs \cup Keys
  BY DEF Stops, BudgetType
<1>2. ASSUME Admit(c, r, k) PROVE BudgetType'
  BY <1>1, <1>2 DEF Admit, BudgetType
<1>3. ASSUME Refuse(c, r, k) PROVE BudgetType'
  BY <1>1, <1>3 DEF Refuse, BudgetType
<1>4. ASSUME Settle(c, r, k) PROVE BudgetType'
  BY <1>1, <1>4 DEF Settle, BudgetType
<1>5. ASSUME Note(k) PROVE BudgetType'
  BY <1>5 DEF Note, BudgetType
<1> QED
  BY <1>2, <1>3, <1>4, <1>5

LEMMA TypeParts ==
  ASSUME GatewayType
  PROVE  BudgetType /\ Shape /\ now \in 0..MaxTime /\ ledger \in [Row -> Nat]
         /\ lag \in 0..MaxTime /\ newest \in 0..MaxTime
BY DEF GatewayType, TypeOK, BudgetType

LEMMA TypeFromParts ==
  ASSUME BudgetType', Shape', now' \in 0..MaxTime, ledger' \in [Row -> Nat],
         lag' \in 0..MaxTime, newest' \in 0..MaxTime
  PROVE  TypeOK'
<1>1. \A c \in Calls : req'[c] \in Req
  BY DEF Shape
<1>2. \A r \in Runs : win'[r] \in Win
  BY DEF Shape
<1>3. \A c \in Calls : req'[c].at \in Places /\ req'[c].end \in Ends /\ req'[c].t \in 0..MaxTime
                      /\ req'[c].row \in Fates \cup {"none"}
  BY <1>1 DEF Req
<1>4. \A r \in Runs : win'[r].lastSeen \in 0..MaxTime
  BY <1>2 DEF Win
<1> QED
  BY <1>3, <1>4 DEF TypeOK, BudgetType

\* A step that moves one call, and shows the detector nothing.
LEMMA MoveType ==
  ASSUME GatewayType, NEW c \in Calls, Only(c),
         req'[c].at \in {"read", "observe"} => c \notin observed,
         req'[c].at = "observe" => req'[c].run \in Runs,
         c \in observed => req'[c].run = req[c].run,
         BudgetType', ledger' \in [Row -> Nat], UNCHANGED <<now, detection>>
  PROVE  GatewayType'
<1>1. Shape'
  BY DEF GatewayType, Shape, Only, detection
<1>2. TypeOK'
  BY <1>1, TypeParts, TypeFromParts DEF detection
<1>3. ShownNamesRun'
  BY DEF GatewayType, ShownNamesRun, Only, detection
<1> QED
  BY <1>1, <1>2, <1>3 DEF GatewayType

LEMMA RecordedType ==
  ASSUME ledger \in [Row -> Nat], NEW c \in Calls, NEW is \in {"served", "blocked"}, NEW fate \in Fates,
         Recorded(c, is, fate)
  PROVE  ledger' \in [Row -> Nat]
<1>1. [call |-> c, is |-> is] \in Row
  BY DEF Row
<1>2. ledger[[call |-> c, is |-> is]] \in Nat
  BY <1>1
<1> QED
  BY <1>1, <1>2 DEF Recorded

LEMMA GoesType ==
  ASSUME NEW c \in Calls, NEW V, NEW r \in Runs, Shown(c) \in [Runs -> Win]
  PROVE  Goes(c, V, r) \in Win
BY GatewayAssumption DEF Goes, NoWindow, Win

LEMMA ObserveType ==
  ASSUME GatewayType, NEW c \in Calls, Observe(c)
  PROVE  GatewayType'
<1>1. Shape /\ req[c].run \in Runs /\ req[c].t \in 0..MaxTime /\ newest \in 0..MaxTime /\ lag \in 0..MaxTime
  BY ObserveIs, TypeParts DEF GatewayType, TypeOK
<1>2. Only(c) /\ KeepsNames(c) /\ req'[c].at = "note"
  BY NotedIs
<1>3. win' \in [Runs -> Win]
  <2>1. PICK V \in SUBSET Runs : win' = [r \in Runs |-> Goes(c, V, r)]
    BY ObserveIs
  <2>2. \A r \in Runs : Goes(c, V, r) \in Win
    BY <1>1, ShownWindows, GoesType
  <2> QED
    BY <2>1, <2>2
<1>4. observed' = observed \cup {c}
  BY ObserveIs
<1>5. observed' \subseteq Calls /\ IsFiniteSet(observed')
  BY <1>1, <1>4, FS_AddElement DEF Shape
<1>6. Shape'
  BY <1>2, <1>3, <1>5 DEF Shape, Only
<1>7. newest' \in 0..MaxTime /\ lag' \in 0..MaxTime
  <2>1. newest' = Max({newest, req[c].t}) /\ lag' = Max({lag, newest - req[c].t})
    BY ObserveIs
  <2> QED
    BY <1>1, <2>1, MaxOfTwo, GatewayAssumption
<1>8. BudgetType' /\ now' \in 0..MaxTime /\ ledger' \in [Row -> Nat]
  BY ObserveIs, TypeParts DEF BudgetType, budgetVars
<1>9. TypeOK'
  BY <1>6, <1>7, <1>8, TypeFromParts
<1>10. ShownNamesRun'
  BY <1>1, <1>2, <1>4 DEF GatewayType, ShownNamesRun, Only, KeepsNames
<1> QED
  BY <1>6, <1>9, <1>10 DEF GatewayType

LEMMA ReadType ==
  ASSUME GatewayType, NEW c \in Calls, NEW r \in Runs \cup {NoRun}, NEW k \in Keys \cup {NoKey},
         NEW s \in Sigs, ReadRequest(c, r, k, s)
  PROVE  GatewayType'
<1>1. c \notin observed
  BY DEF GatewayType, ShownNamesRun, ReadRequest, At
<1>2. /\ Only(c) /\ req'[c].run = r
      /\ req'[c].at = "observe" => r # NoRun
  BY ReadIs DEF GatewayType
<1>3. BudgetType' /\ ledger' \in [Row -> Nat] /\ UNCHANGED <<now, detection>>
  BY TypeParts DEF ReadRequest, BudgetType, budgetVars
<1> QED
  BY <1>1, <1>2, <1>3, MoveType

LEMMA HandleType ==
  ASSUME GatewayType, NEW c \in Calls, Handle(c)
  PROVE  GatewayType'
<1> USE TypeParts
<1>1. Shape /\ req[c].run \in Runs \cup {NoRun} /\ req[c].key \in Keys \cup {NoKey}
  BY DEF Shape, Req
<1>2. CASE TooLarge(c)
  <2>1. Only(c) /\ KeepsNames(c) /\ req'[c].at = "done"
    BY <1>1, <1>2, EndIs DEF TooLarge, Ends
  <2>2. BudgetType' /\ ledger' \in [Row -> Nat] /\ UNCHANGED <<now, detection>>
    BY <1>2 DEF TooLarge, BudgetType, budgetVars
  <2> QED
    BY <2>1, <2>2, MoveType DEF KeepsNames
<1>3. CASE \E r \in Runs \cup {NoRun}, k \in Keys \cup {NoKey}, s \in Sigs : ReadRequest(c, r, k, s)
  BY <1>3, ReadType
<1>4. CASE Observe(c)
  BY <1>4, ObserveType
<1>5. CASE NoteCall(c) \/ Admitted(c) \/ Refused(c)
  <2>1. PICK p \in {"admit", "forward", "blocked"} : Goto(c, p)
    BY <1>5 DEF NoteCall, Admitted, Refused
  <2>2. Only(c) /\ KeepsNames(c) /\ req'[c].at = p
    BY <1>1, <2>1, GotoIs DEF Places
  <2>3. BudgetType'
    BY <1>1, <1>5, BudgetStepType DEF NoteCall, Admitted, Refused
  <2>4. ledger' \in [Row -> Nat] /\ UNCHANGED <<now, detection>>
    BY <1>5 DEF NoteCall, Admitted, Refused
  <2> QED
    BY <2>2, <2>3, <2>4, MoveType DEF KeepsNames
<1>6. CASE ForwardFails(c)
  <2>1. Only(c) /\ KeepsNames(c) /\ req'[c].at = "done"
    BY <1>1, <1>6, EndIs DEF ForwardFails, Ends
  <2>2. BudgetType'
    BY <1>1, <1>6, BudgetStepType DEF ForwardFails
  <2>3. ledger' \in [Row -> Nat] /\ UNCHANGED <<now, detection>>
    BY <1>6 DEF ForwardFails
  <2> QED
    BY <2>1, <2>2, <2>3, MoveType DEF KeepsNames
<1>7. CASE Forwarded(c)
  <2>1. Only(c) /\ KeepsNames(c) /\ req'[c].at = "relay"
    BY <1>1, <1>7, GotoIs DEF Forwarded, Places
  <2>2. BudgetType' /\ ledger' \in [Row -> Nat] /\ UNCHANGED <<now, detection>>
    BY <1>7 DEF Forwarded, BudgetType, budgetVars
  <2> QED
    BY <2>1, <2>2, MoveType DEF KeepsNames
<1>8. CASE RecordSettles(c)
  <2>1. Only(c) /\ KeepsNames(c) /\ req'[c].at = "row"
    BY <1>1, <1>8, GotoIs DEF RecordSettles, Places
  <2>2. BudgetType'
    BY <1>1, <1>8, BudgetStepType DEF RecordSettles
  <2>3. ledger' \in [Row -> Nat] /\ UNCHANGED <<now, detection>>
    BY <1>8 DEF RecordSettles
  <2> QED
    BY <2>1, <2>2, <2>3, MoveType DEF KeepsNames
<1>9. CASE RowServed(c) \/ RowBlocked(c)
  <2>1. PICK fate \in Fates, is \in {"served", "blocked"}, e \in {"served", "refused"} :
          Recorded(c, is, fate) /\ Finish(c, e, fate)
    BY <1>9 DEF RowServed, RowBlocked
  <2>2. Only(c) /\ KeepsNames(c) /\ req'[c].at = "done"
    BY <1>1, <2>1, FinishIs DEF Ends
  <2>3. ledger' \in [Row -> Nat]
    BY <2>1, RecordedType
  <2>4. BudgetType' /\ UNCHANGED <<now, detection>>
    BY <1>9 DEF RowServed, RowBlocked, BudgetType, budgetVars
  <2> QED
    BY <2>2, <2>3, <2>4, MoveType DEF KeepsNames
<1> QED
  BY <1>2, <1>3, <1>4, <1>5, <1>6, <1>7, <1>8, <1>9 DEF Handle

\* The handler's calls and the detector are left alone.
Idle == UNCHANGED <<req, ledger, detection>>

LEMMA AdminIs ==
  ASSUME GatewayType,
         \/ \E x \in Runs \cup Keys : AdminResume(x)
         \/ \E on \in BOOLEAN : AdminKill(on)
         \/ Tick
  PROVE  BudgetType' /\ now' \in 0..MaxTime /\ out' = out /\ Idle
<1> USE TypeParts
<1>1. CASE \E x \in Runs \cup Keys : AdminResume(x)
  BY <1>1 DEF AdminResume, Resume, BudgetType, Idle
<1>2. CASE \E on \in BOOLEAN : AdminKill(on)
  BY <1>2 DEF AdminKill, SetKill, BudgetType, Idle
<1>3. CASE Tick
  BY <1>3, GatewayAssumption DEF Tick, BudgetType, budgetVars, Idle
<1> QED
  BY <1>1, <1>2, <1>3

LEMMA StepGatewayType ==
  ASSUME GatewayType, [Next]_vars
  PROVE  GatewayType'
<1>1. ASSUME NEW c \in Calls, Handle(c) PROVE GatewayType'
  BY <1>1, HandleType
<1>2. ASSUME BudgetType', now' \in 0..MaxTime, Idle PROVE GatewayType'
  <2>1. Shape'
    BY <1>2 DEF GatewayType, Shape, Idle, detection
  <2>2. TypeOK'
    BY <1>2, <2>1, TypeParts, TypeFromParts DEF Idle, detection
  <2>3. ShownNamesRun'
    BY <1>2 DEF GatewayType, ShownNamesRun, Idle, detection
  <2> QED
    BY <2>1, <2>2, <2>3 DEF GatewayType
<1>3. CASE \/ \E x \in Runs \cup Keys : AdminResume(x)
           \/ \E on \in BOOLEAN : AdminKill(on)
           \/ Tick
  BY <1>2, <1>3, AdminIs
<1>4. CASE UNCHANGED vars
  <2>1. Idle /\ BudgetType' /\ now' \in 0..MaxTime
    BY <1>4, TypeParts DEF vars, Idle, detection, BudgetType
  <2> QED
    BY <1>2, <2>1
<1> QED
  BY <1>1, <1>3, <1>4 DEF Next

LEMMA NewReqIs ==
  /\ NewReq \in Req /\ NewReq.at = "read" /\ NewReq.end = "none" /\ NewReq.row = "none"
<1>1. NoDecision \in Decs
  BY DEF Decs
<1>2. NewReq \in Req
  BY <1>1, GatewayAssumption DEF NewReq, Req, Places, Ends
<1> QED
  BY <1>2 DEF NewReq

LEMMA InitGatewayType == Init => GatewayType
<1> SUFFICES ASSUME Init PROVE GatewayType
  OBVIOUS
<1>1. \A c \in Calls : req[c] = NewReq
  BY DEF Init
<1>2. NoWindow \in Win
  BY GatewayAssumption DEF NoWindow, Win
<1>3. Shape
  BY <1>2, NewReqIs, FS_EmptySet DEF Init, Shape
<1>4. ShownNamesRun
  BY <1>1, NewReqIs DEF Init, ShownNamesRun
<1>5. \A c \in Calls : req[c].at \in Places /\ req[c].end \in Ends /\ req[c].t \in 0..MaxTime
                      /\ req[c].row \in Fates \cup {"none"}
  BY <1>1, NewReqIs DEF Req
<1>6. \A r \in Runs : win[r].lastSeen \in 0..MaxTime
  BY <1>3 DEF Shape, Win
<1>7. ledger \in [Row -> Nat] /\ now \in 0..MaxTime /\ lag \in 0..MaxTime /\ newest \in 0..MaxTime
  BY GatewayAssumption DEF Init
<1>8. killed \in BOOLEAN /\ stopped = {} /\ decided = {}
  BY DEF Init, BudgetInit
<1>9. TypeOK
  BY <1>5, <1>6, <1>7, <1>8 DEF TypeOK
<1> QED
  BY <1>3, <1>4, <1>9 DEF GatewayType

\* Every variable of the handler keeps its type; a call that the detector is
\* shown names a run (ServeHTTP in gateway.go).
THEOREM GatewayTypeCorrect == Spec => []GatewayType
BY InitGatewayType, StepGatewayType, PTL DEF Spec

-----------------------------------------------------------------------------
(* Reservations and rows. *)

Token(c) == <<c, req[c].run, req[c].key>>
Flies(c) == req[c].at \in {"forward", "relay"}

\* A reservation is neither made nor returned: the call stays on its side.
LEMMA OutKept ==
  ASSUME ReservedWhileOut, NEW c \in Calls, Only(c), out' = out, Flies(c)' = Flies(c),
         Flies(c) => KeepsNames(c)
  PROVE  ReservedWhileOut'
<1>1. \A d \in Calls : Flies(d)' = Flies(d) /\ (Flies(d) => Token(d)' = Token(d))
  BY DEF Only, Flies, Token, KeepsNames
<1> QED
  BY <1>1 DEF ReservedWhileOut, Flies, Token

LEMMA OutMade ==
  ASSUME ReservedWhileOut, NEW c \in Calls, Only(c), KeepsNames(c), out' = out \cup {Token(c)}, Flies(c)'
  PROVE  ReservedWhileOut'
<1>1. \A d \in Calls \ {c} : Flies(d)' = Flies(d) /\ Token(d)' = Token(d)
  BY DEF Only, Flies, Token
<1>2. Token(c)' = Token(c)
  BY DEF KeepsNames, Token
<1> QED
  BY <1>1, <1>2 DEF ReservedWhileOut, Flies, Token

LEMMA OutReturned ==
  ASSUME ReservedWhileOut, NEW c \in Calls, Only(c), out' = out \ {Token(c)}, ~Flies(c)'
  PROVE  ReservedWhileOut'
<1>1. \A d \in Calls \ {c} : Flies(d)' = Flies(d) /\ Token(d)' = Token(d) /\ Token(d) # Token(c)
  BY DEF Only, Flies, Token
<1> QED
  BY <1>1 DEF ReservedWhileOut, Flies, Token

\* The rows of a call are those its end and its recorder say.
RowsAsEnded ==
  \A c \in Calls :
    /\ Rows(c, "served") = IF req[c].end = "served" /\ req[c].row = "written" THEN 1 ELSE 0
    /\ Rows(c, "blocked") = IF req[c].end = "refused" /\ req[c].row = "written" THEN 1 ELSE 0

LEMMA RowsFollow ==
  ASSUME Unended, RowsAsEnded, ReservedWhileOut
  PROVE  RowsTellTheTruth
<1>1. ASSUME NEW c \in Calls, Rows(c, "served") = 1, NEW x \in out, x[1] = c PROVE FALSE
  <2>1. PICK d \in Calls : Flies(d) /\ x = Token(d)
    BY <1>1 DEF ReservedWhileOut, Flies, Token
  <2>2. d = c
    BY <1>1, <2>1 DEF Token
  <2>3. req[c].end = "served"
    BY <1>1 DEF RowsAsEnded
  <2> QED
    BY <2>1, <2>2, <2>3 DEF Unended, Flies
<1> QED
  BY <1>1 DEF RowsAsEnded, RowsTellTheTruth

\* A step that writes no row and does not end its call as served or refused.
LEMMA RowsKept ==
  ASSUME Unended, RowsAsEnded, NEW c \in Calls, Only(c), ledger' = ledger, req[c].at # "done",
         req'[c].end \notin {"served", "refused"}, req'[c].row = req[c].row,
         req'[c].at # "done" => req'[c].end = req[c].end
  PROVE  Unended' /\ RowsAsEnded'
<1>1. Unended'
  BY DEF Unended, Only
<1>2. \A d \in Calls : \A is : Rows(d, is)' = Rows(d, is)
  BY DEF Rows
<1>3. RowsAsEnded'
  BY <1>2 DEF RowsAsEnded, Unended, Only
<1> QED
  BY <1>1, <1>3

LEMMA RowsWritten ==
  ASSUME Unended, RowsAsEnded, Shape, ledger \in [Row -> Nat],
         NEW c \in Calls, NEW fate \in Fates, req[c].at # "done",
         \/ Recorded(c, "served", fate) /\ Finish(c, "served", fate)
         \/ Recorded(c, "blocked", fate) /\ Finish(c, "refused", fate)
  PROVE  Unended' /\ RowsAsEnded'
<1>1. PICK is \in {"served", "blocked"}, e \in {"served", "refused"} :
        /\ Recorded(c, is, fate) /\ Finish(c, e, fate)
        /\ is = "served" <=> e = "served"
  OBVIOUS
<1>2. Only(c) /\ req'[c].at = "done" /\ req'[c].end = e /\ req'[c].row = fate
  BY <1>1, FinishIs DEF Ends
<1>3. Unended'
  BY <1>2 DEF Unended, Only
<1> DEFINE row == [call |-> c, is |-> is]
<1>4. row \in Row /\ \A d \in Calls, i \in {"served", "blocked"} :
          [call |-> d, is |-> i] \in Row /\ ([call |-> d, is |-> i] = row <=> d = c /\ i = is)
  BY DEF Row
<1>5. ledger' = [ledger EXCEPT ![row] = IF fate = "written" THEN ledger[row] + 1 ELSE ledger[row]]
  BY <1>1 DEF Recorded
<1> HIDE DEF row
<1>6. \A d \in Calls, i \in {"served", "blocked"} :
        Rows(d, i)' = IF d = c /\ i = is /\ fate = "written" THEN Rows(d, i) + 1 ELSE Rows(d, i)
  BY <1>4, <1>5 DEF Rows
<1>7. req[c].end = "none"
  BY DEF Unended
<1>8. Rows(c, "served") = 0 /\ Rows(c, "blocked") = 0
  BY <1>7 DEF RowsAsEnded
<1>9. \A i \in {"served", "blocked"} : Rows(c, i)' = IF i = is /\ fate = "written" THEN 1 ELSE 0
  BY <1>6, <1>8
<1>10. \A d \in Calls \ {c} : \A i \in {"served", "blocked"} : Rows(d, i)' = Rows(d, i) /\ req'[d] = req[d]
  BY <1>2, <1>6 DEF Only
<1>11. /\ Rows(c, "served")' = IF req'[c].end = "served" /\ req'[c].row = "written" THEN 1 ELSE 0
       /\ Rows(c, "blocked")' = IF req'[c].end = "refused" /\ req'[c].row = "written" THEN 1 ELSE 0
  BY <1>1, <1>2, <1>9
<1>12. ASSUME NEW d \in Calls \ {c}
       PROVE  /\ Rows(d, "served")' = IF req'[d].end = "served" /\ req'[d].row = "written" THEN 1 ELSE 0
              /\ Rows(d, "blocked")' = IF req'[d].end = "refused" /\ req'[d].row = "written" THEN 1 ELSE 0
  BY <1>10 DEF RowsAsEnded
<1>13. RowsAsEnded'
  BY <1>11, <1>12 DEF RowsAsEnded
<1> QED
  BY <1>3, <1>13

Accounts == ReservedWhileOut /\ Unended /\ RowsAsEnded

LEMMA HandleAccounts ==
  ASSUME GatewayType, Accounts, NEW c \in Calls, Handle(c)
  PROVE  Accounts'
<1>1. Shape /\ ledger \in [Row -> Nat] /\ req[c] \in Req
  BY TypeParts DEF Shape
<1>2. ReservedWhileOut /\ Unended /\ RowsAsEnded
  BY DEF Accounts
<1>3. req[c].at # "done" => req[c].end = "none" /\ req[c].row = "none"
  BY DEF Accounts, Unended
<1>4. CASE TooLarge(c)
  <2>1. /\ Only(c) /\ KeepsNames(c) /\ req'[c].at = "done" /\ req'[c].end = "too_large"
        /\ req'[c].row = req[c].row
    BY <1>1, <1>4, EndIs DEF TooLarge, Ends
  <2>2. req[c].at = "read" /\ out' = out /\ ledger' = ledger
    BY <1>4 DEF TooLarge, budgetVars, At
  <2>3. ReservedWhileOut'
    BY <1>2, <2>1, <2>2, OutKept DEF Flies
  <2>4. Unended' /\ RowsAsEnded'
    BY <1>2, <2>1, <2>2, RowsKept
  <2> QED
    BY <2>3, <2>4 DEF Accounts
<1>5. CASE \E r \in Runs \cup {NoRun}, k \in Keys \cup {NoKey}, s \in Sigs : ReadRequest(c, r, k, s)
  <2>1. PICK r \in Runs \cup {NoRun}, k \in Keys \cup {NoKey}, s \in Sigs : ReadRequest(c, r, k, s)
    BY <1>5
  <2>2. /\ Only(c) /\ req'[c].at \in {"note", "observe"}
        /\ req'[c].end = req[c].end /\ req'[c].row = req[c].row
    BY <1>1, <2>1, ReadIs DEF GatewayType
  <2>3. req[c].at = "read" /\ out' = out /\ ledger' = ledger
    BY <2>1 DEF ReadRequest, budgetVars, At
  <2>4. ReservedWhileOut'
    BY <1>2, <2>2, <2>3, OutKept DEF Flies
  <2>5. Unended' /\ RowsAsEnded'
    BY <1>2, <1>3, <2>2, <2>3, RowsKept
  <2> QED
    BY <2>4, <2>5 DEF Accounts
<1>6. CASE Observe(c)
  <2>1. /\ Only(c) /\ KeepsNames(c) /\ req'[c].at = "note"
        /\ req'[c].end = req[c].end /\ req'[c].row = req[c].row
    BY <1>6, NotedIs
  <2>2. req[c].at = "observe" /\ out' = out /\ ledger' = ledger
    BY <1>6 DEF Observe, budgetVars, At
  <2>3. ReservedWhileOut'
    BY <1>2, <2>1, <2>2, OutKept DEF Flies
  <2>4. Unended' /\ RowsAsEnded'
    BY <1>2, <1>3, <2>1, <2>2, RowsKept
  <2> QED
    BY <2>3, <2>4 DEF Accounts
<1>7. CASE NoteCall(c) \/ Admitted(c) \/ Refused(c) \/ Forwarded(c) \/ RecordSettles(c)
  <2>1. PICK p \in {"admit", "forward", "blocked", "relay", "row"} :
          /\ Goto(c, p) /\ req[c].at \notin {"done", "blocked", "row"}
          /\ \/ p \in {"admit", "blocked"} /\ ~Flies(c) /\ out' = out
             \/ p = "relay" /\ Flies(c) /\ out' = out
             \/ p = "forward" /\ out' = out \cup {Token(c)}
             \/ p = "row" /\ out' = out \ {Token(c)}
    <3>1. ASSUME NoteCall(c)
          PROVE  Goto(c, "admit") /\ req[c].at = "note" /\ out' = out
      BY <3>1 DEF NoteCall, Note, At
    <3>2. ASSUME Admitted(c)
          PROVE  Goto(c, "forward") /\ req[c].at = "admit" /\ out' = out \cup {Token(c)}
      BY <3>2 DEF Admitted, Admit, At, Token
    <3>3. ASSUME Refused(c)
          PROVE  Goto(c, "blocked") /\ req[c].at = "admit" /\ out' = out
      BY <3>3 DEF Refused, Refuse, At
    <3>4. ASSUME Forwarded(c)
          PROVE  Goto(c, "relay") /\ req[c].at = "forward" /\ out' = out
      BY <3>4 DEF Forwarded, At, budgetVars
    <3>5. ASSUME RecordSettles(c)
          PROVE  Goto(c, "row") /\ req[c].at = "relay" /\ out' = out \ {Token(c)}
      BY <3>5 DEF RecordSettles, Settle, At, Token
    <3> QED
      BY <1>7, <3>1, <3>2, <3>3, <3>4, <3>5 DEF Flies
  <2>2. /\ Only(c) /\ KeepsNames(c) /\ req'[c].at = p
        /\ req'[c].end = req[c].end /\ req'[c].row = req[c].row
    BY <1>1, <2>1, GotoIs DEF Places
  <2>3. ReservedWhileOut'
    <3>1. CASE p \in {"admit", "blocked", "relay"}
      <4>1. out' = out /\ Flies(c)' = Flies(c)
        BY <2>1, <2>2, <3>1 DEF Flies
      <4> QED
        BY <1>2, <2>2, <4>1, OutKept
    <3>2. CASE p = "forward"
      <4>1. out' = out \cup {Token(c)} /\ Flies(c)'
        BY <2>1, <2>2, <3>2 DEF Flies
      <4> QED
        BY <1>2, <2>2, <4>1, OutMade
    <3>3. CASE p = "row"
      <4>1. out' = out \ {Token(c)} /\ ~Flies(c)'
        BY <2>1, <2>2, <3>3 DEF Flies
      <4> QED
        BY <1>2, <2>2, <4>1, OutReturned
    <3> QED
      BY <3>1, <3>2, <3>3
  <2>4. ledger' = ledger
    BY <1>7 DEF NoteCall, Admitted, Refused, Forwarded, RecordSettles
  <2>5. Unended' /\ RowsAsEnded'
    BY <1>2, <1>3, <2>1, <2>2, <2>4, RowsKept
  <2> QED
    BY <2>3, <2>5 DEF Accounts
<1>8. CASE ForwardFails(c)
  <2>1. /\ Only(c) /\ KeepsNames(c) /\ req'[c].at = "done" /\ req'[c].end = "released"
        /\ req'[c].row = req[c].row
    BY <1>1, <1>8, EndIs DEF ForwardFails, Ends
  <2>2. req[c].at = "forward" /\ out' = out \ {Token(c)} /\ ledger' = ledger
    BY <1>8 DEF ForwardFails, Settle, At, Token
  <2>3. ReservedWhileOut'
    BY <1>2, <2>1, <2>2, OutReturned DEF Flies
  <2>4. Unended' /\ RowsAsEnded'
    BY <1>2, <2>1, <2>2, RowsKept
  <2> QED
    BY <2>3, <2>4 DEF Accounts
<1>9. CASE RowServed(c) \/ RowBlocked(c)
  <2>1. PICK fate \in Fates :
          \/ Recorded(c, "served", fate) /\ Finish(c, "served", fate)
          \/ Recorded(c, "blocked", fate) /\ Finish(c, "refused", fate)
    BY <1>9 DEF RowServed, RowBlocked
  <2>2. Only(c) /\ KeepsNames(c) /\ req'[c].at = "done"
    BY <1>1, <2>1, FinishIs DEF Ends
  <2>3. req[c].at \in {"row", "blocked"} /\ out' = out
    BY <1>9 DEF RowServed, RowBlocked, At, budgetVars
  <2>4. ReservedWhileOut'
    BY <1>2, <2>2, <2>3, OutKept DEF Flies
  <2>5. Unended' /\ RowsAsEnded'
    BY <1>1, <1>2, <2>1, <2>3, RowsWritten
  <2> QED
    BY <2>4, <2>5 DEF Accounts
<1> QED
  BY <1>4, <1>5, <1>6, <1>7, <1>8, <1>9 DEF Handle

LEMMA StepAccounts ==
  ASSUME GatewayType, Accounts, [Next]_vars
  PROVE  Accounts'
<1>1. ASSUME NEW c \in Calls, Handle(c) PROVE Accounts'
  BY <1>1, HandleAccounts
<1>2. ASSUME out' = out, Idle PROVE Accounts'
  BY <1>2 DEF Accounts, ReservedWhileOut, Unended, RowsAsEnded, Rows, Idle
<1>3. CASE \/ \E x \in Runs \cup Keys : AdminResume(x)
           \/ \E on \in BOOLEAN : AdminKill(on)
           \/ Tick
  BY <1>2, <1>3, AdminIs
<1>4. CASE UNCHANGED vars
  BY <1>2, <1>4 DEF vars, Idle, detection
<1> QED
  BY <1>1, <1>3, <1>4 DEF Next

LEMMA InitAccounts == Init => Accounts
<1> SUFFICES ASSUME Init PROVE Accounts
  OBVIOUS
<1>1. \A c \in Calls : req[c].at = "read" /\ req[c].end = "none" /\ req[c].row = "none"
  BY NewReqIs DEF Init
<1>2. \A c \in Calls, is \in {"served", "blocked"} : Rows(c, is) = 0
  BY DEF Init, Rows, Row
<1>3. out = {}
  BY DEF Init, BudgetInit
<1> QED
  BY <1>1, <1>2, <1>3 DEF Accounts, ReservedWhileOut, Unended, RowsAsEnded

LEMMA AccountsCorrect == Spec => []Accounts
BY InitAccounts, StepAccounts, GatewayTypeCorrect, InitGatewayType, StepGatewayType, PTL DEF Spec

\* The budget holds a reservation for exactly the calls that are on their way
\* to or from the provider, whichever return of ServeHTTP they take
\* (gateway.go), for every number of calls in flight.
THEOREM ReservedCorrect == Spec => []ReservedWhileOut
<1>1. Accounts => ReservedWhileOut
  BY DEF Accounts
<1> QED
  BY <1>1, AccountsCorrect, PTL

\* A call has one row when it ended as served or refused and the recorder kept
\* it, none before, and no served row before its settlement (record and
\* recordBlocked of gateway.go).
THEOREM RowsCorrect == Spec => []RowsTellTheTruth
<1>1. Accounts => RowsTellTheTruth
  BY RowsFollow DEF Accounts
<1> QED
  BY <1>1, AccountsCorrect, PTL

-----------------------------------------------------------------------------
(* What the detector knows. *)

\* Nothing of what the detector was shown changes.
Undisturbed ==
  /\ UNCHANGED detection
  /\ \A d \in observed : /\ req'[d].run = req[d].run /\ req'[d].t = req[d].t
                         /\ req'[d].sig = req[d].sig

LEMMA SinceKept ==
  ASSUME Undisturbed
  PROVE  \A r \in Runs, t \in Int : Since(r, t)' = Since(r, t)
BY DEF Undisturbed, detection, Since

LEMMA DetectsKept ==
  ASSUME GatewayType, Detects, Undisturbed
  PROVE  Detects'
<1>1. EventsAreCalls'
  BY DEF Detects, EventsAreCalls, Undisturbed, detection, Stamped
<1>2. SeenSinceEvents'
  BY DEF Detects, SeenSinceEvents, Undisturbed, detection
<1>3. newest - Window + lag \in Int
  BY TypeParts, LoopAssumption
<1>4. NoRecentCallForgotten'
  BY <1>3, SinceKept DEF Detects, NoRecentCallForgotten, Undisturbed, detection
<1> QED
  BY <1>1, <1>2, <1>4 DEF Detects

\* The step in which the detector is shown call c: V is given up for
\* MaxWindows, and the runs whose last request left the window expire.
LEMMA WindowsAfter ==
  ASSUME GatewayType, NEW c \in Calls, req[c].run \in Runs, NEW V \in SUBSET Runs,
         NEW r \in Runs, r \notin V, NEW e \in Shown(c)[r].events,
         r = req[c].run \/ win[r].lastSeen > req[c].t - Window
  PROVE  Goes(c, V, r) = Shown(c)[r]
<1>1. Shape /\ req[c].t \in Nat /\ Window \in Nat \ {0}
  BY LoopAssumption DEF GatewayType, Shape, Req
<1>2. Shown(c) \in [Runs -> Win]
  BY <1>1, ShownWindows
<1>3. Shown(c)[r] \in Win /\ win[r] \in Win
  BY <1>1, <1>2 DEF Shape
<1>4. Shown(c)[r].lastSeen \in Nat /\ win[r].lastSeen \in Nat
  BY <1>3, GatewayAssumption DEF Win
<1>5. Shown(c)[r].lastSeen = IF r = req[c].run THEN req[c].t ELSE win[r].lastSeen
  <2>1. /\ Shown(c)[req[c].run] = [events |-> Kept(c), lastSeen |-> req[c].t]
        /\ r # req[c].run => Shown(c)[r] = win[r]
    BY <1>1, ShownWindows
  <2> QED
    BY <2>1
<1>6. Shown(c)[r].lastSeen > req[c].t - Window
  BY <1>1, <1>4, <1>5
<1>7. Cutoff(Stamped(c)) = req[c].t - Window
  BY DEF Cutoff, Stamped
<1>8. r \notin Expired(Shown(c), Stamped(c))
  BY <1>1, <1>4, <1>6, <1>7 DEF Expired
<1> QED
  BY <1>8 DEF Goes

\* What a window holds afterwards was in it before, or is the call.
LEMMA EventsFrom ==
  ASSUME GatewayType, NEW c \in Calls, req[c].run \in Runs, NEW V \in SUBSET Runs,
         NEW r \in Runs, NEW e \in Goes(c, V, r).events
  PROVE  /\ \/ e \in win[r].events
            \/ r = req[c].run /\ e = Stamped(c)
         /\ Goes(c, V, r).lastSeen = IF r = req[c].run THEN req[c].t ELSE win[r].lastSeen
<1>1. Shape
  BY DEF GatewayType
<1>2. /\ Shown(c)[req[c].run] = [events |-> Kept(c), lastSeen |-> req[c].t]
      /\ r # req[c].run => Shown(c)[r] = win[r]
  BY <1>1, ShownWindows
<1>3. Goes(c, V, r) = Shown(c)[r]
  BY DEF Goes, NoWindow
<1>4. CASE r = req[c].run
  BY <1>2, <1>3, <1>4 DEF Kept
<1>5. CASE r # req[c].run
  BY <1>2, <1>3, <1>5
<1> QED
  BY <1>4, <1>5

LEMMA ObserveDetects ==
  ASSUME GatewayType, Detects, NEW c \in Calls, Observe(c)
  PROVE  Detects'
<1> DEFINE t == req[c].t
           q == req[c].run
<1>1. Shape /\ req[c].at = "observe" /\ q \in Runs /\ c \notin observed
  BY ObserveIs DEF GatewayType, ShownNamesRun
<1>2. t \in Nat /\ newest \in Nat /\ lag \in Nat /\ Window \in Nat \ {0}
  BY <1>1, TypeParts, GatewayAssumption, LoopAssumption DEF Shape, Req
<1>3. PICK V \in SUBSET Runs :
        /\ win' = [r \in Runs |-> Goes(c, V, r)]
        /\ crowded' = crowded \cup {f.call : f \in UNION {Shown(c)[v].events : v \in V}}
  BY ObserveIs
<1>4. observed' = observed \cup {c}
  BY ObserveIs
<1>5. /\ newest' \in Nat /\ lag' \in Nat /\ newest' >= newest /\ newest' >= t
      /\ lag' >= lag /\ lag' >= newest - t
  <2>1. newest' = Max({newest, t}) /\ lag' = Max({lag, newest - t})
    BY ObserveIs
  <2> QED
    BY <1>2, <2>1, MaxOfTwo
<1>6. \A d \in observed \cup {c} : /\ req'[d].run = req[d].run /\ req'[d].t = req[d].t
                                   /\ req'[d].sig = req[d].sig /\ Stamped(d)' = Stamped(d)
  BY <1>1, NotedIs DEF Only, KeepsNames, Stamped, Shape
<1>7. \A d \in Calls : req[d].t \in Nat
  BY <1>1, GatewayAssumption DEF Shape, Req
<1>8. \A r \in Runs : \A e \in win[r].events :
        e.call \in observed /\ e = Stamped(e.call) /\ req[e.call].run = r
  BY DEF Detects, EventsAreCalls
<1>9. \A d \in observed : req[d].t <= newest
  BY DEF Detects, EventsAreCalls
<1>10. Stamped(c).call = c /\ Stamped(c).t = t
  BY DEF Stamped
<1>11. \A r \in Runs : win[r].lastSeen \in Nat /\ \A e \in win[r].events : e.t \in Nat
  BY <1>1, GatewayAssumption DEF Shape, Win, Event
<1>12. observed \subseteq Calls
  BY <1>1 DEF Shape
<1> HIDE DEF t, q
<1>13. EventsAreCalls'
  <2>1. ASSUME NEW r \in Runs, NEW e \in win'[r].events
        PROVE  e.call \in observed' /\ e = Stamped(e.call)' /\ req'[e.call].run = r
    <3>0. win'[r] = Goes(c, V, r)
      BY <1>3
    <3>1. e \in win[r].events \/ (r = q /\ e = Stamped(c))
      BY <1>1, <2>1, <3>0, EventsFrom DEF q
    <3>2. CASE e \in win[r].events
      BY <1>4, <1>6, <1>8, <3>2
    <3>3. CASE r = q /\ e = Stamped(c)
      BY <1>4, <1>6, <1>10, <3>3 DEF q
    <3> QED
      BY <3>1, <3>2, <3>3
  <2>2. \A d \in observed' : req'[d].t <= newest'
    BY <1>2, <1>4, <1>5, <1>6, <1>7, <1>9, <1>12 DEF t
  <2> QED
    BY <2>1, <2>2 DEF EventsAreCalls
<1>14. SeenSinceEvents'
  <2>1. ASSUME NEW r \in Runs, NEW e \in win'[r].events PROVE win'[r].lastSeen + lag' >= e.t
    <3>0. win'[r] = Goes(c, V, r)
      BY <1>3
    <3>1. /\ e \in win[r].events \/ (r = q /\ e = Stamped(c))
          /\ win'[r].lastSeen = IF r = q THEN t ELSE win[r].lastSeen
      BY <1>1, <2>1, <3>0, EventsFrom DEF q, t
    <3>2. CASE e = Stamped(c) /\ r = q
      BY <1>2, <1>5, <1>10, <3>1, <3>2
    <3>3. CASE e \in win[r].events /\ r = q
      <4>1. e.t <= newest /\ e.t \in Nat
        BY <1>8, <1>9, <1>11, <3>3 DEF Stamped
      <4> QED
        BY <1>2, <1>5, <3>1, <3>3, <4>1
    <3>4. CASE e \in win[r].events /\ r # q
      <4>1. win[r].lastSeen + lag >= e.t
        BY <3>4 DEF Detects, SeenSinceEvents
      <4> QED
        BY <1>2, <1>5, <1>11, <3>1, <3>4, <4>1
    <3> QED
      BY <3>1, <3>2, <3>3, <3>4
  <2> QED
    BY <2>1 DEF SeenSinceEvents
<1>15. NoRecentCallForgotten'
  <2> SUFFICES ASSUME NEW r \in Runs, NEW d \in observed',
                      req'[d].run = r, req'[d].t > newest' - Window + lag', d \notin crowded'
               PROVE  \E e \in win'[r].events : e.call = d
    BY DEF NoRecentCallForgotten, Since
  <2>1. req[d].run = r /\ req[d].t > newest' - Window + lag' /\ req[d].t \in Nat
    BY <1>4, <1>6, <1>7, <1>12
  <2>2. PICK e \in Shown(c)[r].events : e.call = d
    <3>1. CASE d = c
      <4>1. Shown(c)[r].events = Kept(c)
        <5>1. Shown(c)[req[c].run] = [events |-> Kept(c), lastSeen |-> req[c].t]
          BY <1>1, ShownWindows DEF q
        <5> QED
          BY <2>1, <3>1, <5>1
      <4> QED
        BY <1>10, <3>1, <4>1 DEF Kept
    <3>2. CASE d # c
      <4>1. d \in observed /\ d \notin crowded
        BY <1>3, <1>4, <3>2
      <4>2. req[d].t > newest - Window + lag
        BY <1>2, <1>5, <2>1
      <4>3. PICK f \in win[r].events : f.call = d
        BY <2>1, <4>1, <4>2 DEF Detects, NoRecentCallForgotten, Since
      <4>4. f.t = req[d].t
        BY <1>8, <4>3 DEF Stamped
      <4>5. CASE r = q
        <5>1. Shown(c)[r].events = Kept(c)
          <6>1. Shown(c)[req[c].run] = [events |-> Kept(c), lastSeen |-> req[c].t]
            BY <1>1, ShownWindows DEF q
          <6> QED
            BY <4>5, <6>1 DEF q
        <5>2. f.t > req[c].t - Window
          BY <1>2, <1>5, <2>1, <4>4 DEF t
        <5> QED
          BY <4>3, <4>5, <5>1, <5>2 DEF Kept, q
      <4>6. CASE r # q
        <5>1. Shown(c)[r] = win[r]
          BY <1>1, <4>6, ShownWindows DEF q
        <5> QED
          BY <4>3, <5>1
      <4> QED
        BY <4>5, <4>6
    <3> QED
      BY <3>1, <3>2
  <2>3. r \notin V
    <3> SUFFICES ASSUME r \in V PROVE FALSE
      OBVIOUS
    <3>1. e \in UNION {Shown(c)[v].events : v \in V}
      BY <2>2
    <3> QED
      BY <1>3, <2>2, <3>1
  <2>4. r = q \/ win[r].lastSeen > t - Window
    <3> SUFFICES ASSUME r # q PROVE win[r].lastSeen > t - Window
      OBVIOUS
    <3>1. Shown(c)[r] = win[r]
      BY <1>1, ShownWindows DEF q
    <3>2. e \in win[r].events /\ e.t = req[d].t
      BY <1>8, <2>2, <3>1 DEF Stamped
    <3>3. win[r].lastSeen + lag >= e.t
      BY <3>2 DEF Detects, SeenSinceEvents
    <3> QED
      BY <1>2, <1>5, <1>11, <2>1, <3>2, <3>3
  <2>5. Goes(c, V, r) = Shown(c)[r]
    BY <1>1, <2>2, <2>3, <2>4, WindowsAfter DEF q, t
  <2> QED
    BY <1>3, <2>2, <2>5
<1> QED
  BY <1>13, <1>14, <1>15 DEF Detects

\* A call that takes another step is not shown to the detector, and what was
\* shown keeps its name.
LEMMA OthersUndisturbed ==
  ASSUME GatewayType, NEW c \in Calls, Handle(c), ~Observe(c)
  PROVE  Undisturbed
<1>1. Shape /\ req[c] \in Req
  BY DEF GatewayType, Shape
<1>2. UNCHANGED detection
  BY DEF Handle, TooLarge, ReadRequest, NoteCall, Admitted, Refused, ForwardFails, Forwarded,
         RecordSettles, RowServed, RowBlocked
<1>3. Only(c) /\ (KeepsNames(c) \/ req[c].at = "read")
  <2>1. CASE TooLarge(c) \/ ForwardFails(c)
    BY <1>1, <2>1, EndIs DEF TooLarge, ForwardFails, Ends
  <2>2. CASE \E r \in Runs \cup {NoRun}, k \in Keys \cup {NoKey}, s \in Sigs : ReadRequest(c, r, k, s)
    <3>1. PICK r \in Runs \cup {NoRun}, k \in Keys \cup {NoKey}, s \in Sigs : ReadRequest(c, r, k, s)
      BY <2>2
    <3>2. Only(c)
      BY <1>1, <3>1, ReadIs DEF GatewayType
    <3> QED
      BY <3>1, <3>2 DEF ReadRequest, At
  <2>3. CASE NoteCall(c) \/ Admitted(c) \/ Refused(c) \/ Forwarded(c) \/ RecordSettles(c)
    <3>1. PICK p \in Places : Goto(c, p)
      BY <2>3 DEF NoteCall, Admitted, Refused, Forwarded, RecordSettles, Places
    <3> QED
      BY <1>1, <3>1, GotoIs
  <2>4. CASE RowServed(c) \/ RowBlocked(c)
    <3>1. PICK e \in Ends, fate \in Fates : Finish(c, e, fate)
      BY <2>4 DEF RowServed, RowBlocked, Ends
    <3> QED
      BY <1>1, <3>1, FinishIs
  <2> QED
    BY <2>1, <2>2, <2>3, <2>4 DEF Handle
<1>4. req[c].at = "read" => c \notin observed
  BY DEF GatewayType, ShownNamesRun
<1> QED
  BY <1>1, <1>2, <1>3, <1>4 DEF Undisturbed, Only, KeepsNames, Shape

\* Every step shows the detector a call or leaves it undisturbed.
LEMMA StepShows ==
  ASSUME GatewayType, [Next]_vars
  PROVE  Undisturbed \/ \E c \in Calls : Observe(c)
<1>1. CASE \E c \in Calls : Handle(c)
  BY <1>1, OthersUndisturbed
<1>2. CASE \/ \E x \in Runs \cup Keys : AdminResume(x)
           \/ \E on \in BOOLEAN : AdminKill(on)
           \/ Tick
  BY <1>2, AdminIs DEF Idle, Undisturbed, detection
<1>3. CASE UNCHANGED vars
  BY <1>3 DEF vars, Undisturbed, detection
<1> QED
  BY <1>1, <1>2, <1>3 DEF Next

LEMMA StepDetects ==
  ASSUME GatewayType, Detects, [Next]_vars
  PROVE  Detects'
BY StepShows, DetectsKept, ObserveDetects

LEMMA InitDetects == Init => Detects
<1> SUFFICES ASSUME Init PROVE Detects
  OBVIOUS
<1>1. \A r \in Runs : win[r].events = {}
  BY DEF Init, NoWindow
<1>2. observed = {}
  BY DEF Init
<1> QED
  BY <1>1, <1>2 DEF Detects, EventsAreCalls, SeenSinceEvents, NoRecentCallForgotten, Since

LEMMA DetectsCorrect == Spec => []Detects
BY InitDetects, StepDetects, GatewayTypeCorrect, PTL DEF Spec

\* Whatever the order in which calls reach the detector and however many runs
\* it may track, it knows every call of the window that ends with the newest,
\* less the lateness calls have had, but those it gave up for MaxRuns (observe
\* and evict of loop.go).
THEOREM NoRecentCorrect == Spec => []NoRecentCallForgotten
<1>1. Detects => NoRecentCallForgotten
  BY DEF Detects
<1> QED
  BY <1>1, DetectsCorrect, PTL

-----------------------------------------------------------------------------
(* What the detector is told of a call, and what it makes of it. *)

\* The numbers of S from x on.
From(S, x) == {y \in S : y >= x}

\* A finite set of numbers has a greatest one.
LEMMA GreatestIs ==
  ASSUME NEW S \in SUBSET Nat, IsFiniteSet(S), S # {}
  PROVE  Max(S) \in S /\ \A y \in S : Max(S) >= y
<1> DEFINE Ups == {From(S, x) : x \in S}
           R == StrictSubsetOrdering(S)
           F == FiniteSubsetsOf(S)
<1>1. IsWellFoundedOn(R, F)
  BY FS_StrictSubsetOrderingWellFounded
<1>2. Ups \subseteq F /\ Ups # {}
  <2>1. F = SUBSET S
    BY FS_FiniteSubsetsOfFinite
  <2>2. \A x \in S : From(S, x) \in SUBSET S
    BY DEF From
  <2> HIDE DEF F
  <2> QED
    BY <2>1, <2>2
<1>3. PICK T \in Ups : \A U \in Ups : ~(<<U, T>> \in R)
  <2> HIDE DEF Ups, R, F
  <2> QED
    BY <1>1, <1>2, WFMin
<1>4. PICK x \in S : T = From(S, x)
  OBVIOUS
<1>5. ASSUME NEW y \in S PROVE x >= y
  <2> SUFFICES ASSUME y > x PROVE FALSE
    BY <1>4
  <2>1. From(S, y) \subseteq From(S, x) /\ x \in From(S, x) /\ x \notin From(S, y)
    <3>1. x \in Nat /\ y \in Nat
      BY <1>4, <1>5
    <3>2. ASSUME NEW z \in From(S, y) PROVE z \in From(S, x)
      <4>1. z \in S /\ z >= y /\ z \in Nat
        BY <3>2 DEF From
      <4> QED
        BY <3>1, <4>1 DEF From
    <3>3. x \in From(S, x) /\ x \notin From(S, y)
      BY <3>1 DEF From
    <3> QED
      BY <3>2, <3>3
  <2>2. From(S, y) \in SUBSET S /\ From(S, x) \in SUBSET S
    BY DEF From
  <2>3. <<From(S, y), From(S, x)>> \in R
    BY <2>1, <2>2 DEF StrictSubsetOrdering
  <2> QED
    BY <1>3, <1>4, <2>3
<1> QED
  BY <1>4, <1>5 DEF Max

\* The calls whose requests the decision on call c is made from.
Told(c) == {f.call : f \in Kept(c)}

\* They are the call, and calls of its run after the start of its window; those
\* it does not forget are among them.
LEMMA ToldOf ==
  ASSUME GatewayType, Detects, NEW c \in Calls, Observe(c)
  PROVE  /\ IsFiniteSet(Told(c)) /\ c \in Told(c) /\ Told(c) \subseteq observed \cup {c}
         /\ Kept(c) = {Stamped(d) : d \in Told(c)}
         /\ Remembered(c) \subseteq Told(c) /\ Told(c) \subseteq InWindow(c) \cup Ahead(c)
         /\ IsFiniteSet(InWindow(c) \cup Ahead(c))
<1> DEFINE q == req[c].run
           t == req[c].t
<1>1. q \in Runs /\ IsFiniteSet(observed) /\ observed \subseteq Calls
  BY ObserveIs DEF GatewayType, Shape
<1>2. t \in Nat /\ \A d \in observed : req[d].t \in Nat
  BY <1>1, GatewayAssumption DEF GatewayType, Shape, Req
<1>3. \A e \in win[q].events : e.call \in observed /\ e = Stamped(e.call) /\ req[e.call].run = q
  BY <1>1 DEF Detects, EventsAreCalls
<1>4. Stamped(c).call = c /\ \A d \in observed : Stamped(d).t = req[d].t
  BY DEF Stamped
<1>5. \A f \in Kept(c) : /\ f.call \in observed \cup {c} /\ f = Stamped(f.call)
                         /\ f.call = c \/ (req[f.call].run = q /\ req[f.call].t > t - Window)
  <2> SUFFICES ASSUME NEW f \in Kept(c)
               PROVE  /\ f.call \in observed \cup {c} /\ f = Stamped(f.call)
                      /\ f.call = c \/ (req[f.call].run = q /\ req[f.call].t > t - Window)
    OBVIOUS
  <2>1. CASE f = Stamped(c)
    BY <1>4, <2>1
  <2>2. CASE f \in win[q].events /\ f.t > t - Window
    <3>1. f.call \in observed /\ f = Stamped(f.call) /\ req[f.call].run = q
      BY <1>3, <2>2
    <3>2. f.t = req[f.call].t
      BY <1>4, <3>1
    <3> QED
      BY <2>2, <3>1, <3>2
  <2> QED
    BY <2>1, <2>2 DEF Kept
<1>6. c \in Told(c) /\ Told(c) \subseteq observed \cup {c}
  BY <1>4, <1>5 DEF Told, Kept
<1>7. Kept(c) = {Stamped(d) : d \in Told(c)}
  BY <1>5 DEF Told
<1>8. IsFiniteSet(observed \cup {c})
  BY <1>1, FS_AddElement
<1>9. Told(c) \subseteq InWindow(c) \cup Ahead(c)
  <2> SUFFICES ASSUME NEW f \in Kept(c), f.call # c PROVE f.call \in InWindow(c) \cup Ahead(c)
    BY DEF Told, InWindow
  <2>1. f.call \in observed /\ req[f.call].run = q /\ req[f.call].t > t - Window
    BY <1>5
  <2>2. req[f.call].t <= t \/ req[f.call].t > t
    BY <1>2, <2>1
  <2> QED
    BY <2>1, <2>2 DEF InWindow, Ahead, Since
<1>10. Remembered(c) \subseteq Told(c)
  <2> SUFFICES ASSUME NEW d \in InWindow(c) \ crowded, req[d].t > newest - Window + lag, d # c
               PROVE  d \in Told(c)
    BY <1>6 DEF Remembered
  <2>1. d \in observed /\ req[d].run = q /\ req[d].t > t - Window
    BY DEF InWindow, Since
  <2>2. d \in Since(q, newest - Window + lag) \ crowded
    BY <2>1 DEF Since
  <2>3. PICK e \in win[q].events : e.call = d
    BY <1>1, <2>2 DEF Detects, NoRecentCallForgotten
  <2>4. e.t > t - Window
    BY <1>3, <1>4, <2>1, <2>3
  <2> QED
    BY <2>3, <2>4 DEF Kept, Told
<1>11. InWindow(c) \cup Ahead(c) \subseteq observed \cup {c}
  BY DEF InWindow, Ahead, Since
<1> QED
  BY <1>6, <1>7, <1>8, <1>9, <1>10, <1>11, FS_Subset

\* Calls are as many as their requests.
LEMMA StampedCounts ==
  ASSUME NEW D, IsFiniteSet(D)
  PROVE  /\ IsFiniteSet({Stamped(d) : d \in D})
         /\ Cardinality({Stamped(d) : d \in D}) = Cardinality(D)
<1> DEFINE E == {Stamped(d) : d \in D}
           f == [d \in D |-> Stamped(d)]
<1>1. f \in Surjection(D, E)
  BY DEF Surjection
<1>2. \A d, e \in D : f[d] = f[e] => d = e
  BY DEF Stamped
<1>3. f \in Injection(D, E)
  BY <1>1, <1>2 DEF Surjection, Injection, IsInjective
<1> HIDE DEF E, f
<1>4. IsFiniteSet(E) /\ Cardinality(E) = Cardinality(D)
  BY <1>1, <1>3, FS_Surjection
<1> QED
  BY <1>4 DEF E

\* The calls of D with the signature of c, and the requests of E with that of e.
Like(D, c) == {d \in D : req[d].sig = req[c].sig}
Same(E, e) == {f \in E : f.sig = e.sig}

\* The decision on a set of requests is whether their calls are a loop.
LEMMA DecidesLoops ==
  ASSUME NEW D, IsFiniteSet(D), D # {}
  PROVE  Decision({Stamped(d) : d \in D}).suspected <=> Loops(D)
<1> DEFINE E == {Stamped(d) : d \in D}
           S == {Cardinality(Same(E, e)) : e \in E}
           g == [c \in D |-> Cardinality(Like(D, c))]
<1>1. IsFiniteSet(E) /\ Cardinality(E) = Cardinality(D)
  BY StampedCounts
<1>2. ASSUME NEW c \in D
      PROVE  /\ Cardinality(Same(E, Stamped(c))) = Cardinality(Like(D, c))
             /\ Cardinality(Like(D, c)) \in Nat
  <2>1. Same(E, Stamped(c)) = {Stamped(d) : d \in Like(D, c)}
    BY DEF Stamped, Same, Like
  <2>2. IsFiniteSet(Like(D, c))
    <3>1. Like(D, c) \in SUBSET D
      BY DEF Like
    <3> QED
      BY <3>1, FS_Subset
  <2>3. Cardinality({Stamped(d) : d \in Like(D, c)}) = Cardinality(Like(D, c))
    BY <2>2, StampedCounts
  <2> QED
    BY <2>1, <2>2, <2>3, FS_CardinalityType
<1>3. \A x : x \in S <=> \E c \in D : x = g[c]
  <2>1. \A e : e \in E <=> \E c \in D : e = Stamped(c)
    OBVIOUS
  <2>2. \A c \in D : g[c] = Cardinality(Same(E, Stamped(c)))
    BY <1>2
  <2> HIDE DEF E, g
  <2> QED
    BY <2>1, <2>2
<1>4. IsFiniteSet(S) /\ S \in SUBSET Nat /\ S # {}
  <2>1. \A c \in D : g[c] \in Nat
    BY <1>2
  <2>2. DOMAIN g = D /\ g = [c \in D |-> g[c]]
    OBVIOUS
  <2> HIDE DEF S, g
  <2>3. g \in Surjection(D, S)
    <3>1. g \in [D -> S]
      BY <1>3, <2>2
    <3> QED
      BY <1>3, <3>1 DEF Surjection
  <2>4. IsFiniteSet(S)
    BY <2>3, FS_Surjection
  <2> QED
    BY <1>3, <2>1, <2>4
<1>5. MaxRepeat # 0 => Repeats(E) = Max(S)
  BY DEF Repeats, Same
<1>6. MaxRepeat \in Nat
  BY LoopAssumption
<1>7. MaxRepeat > 0 => (Repeats(E) >= MaxRepeat <=> \E c \in D : g[c] >= MaxRepeat)
  <2> HIDE DEF S, g, E
  <2>1. Max(S) \in S /\ \A y \in S : Max(S) >= y
    BY <1>4, GreatestIs
  <2>2. Max(S) >= MaxRepeat <=> \E x \in S : x >= MaxRepeat
    <3>1. \A x \in S : x \in Nat
      BY <1>4
    <3>2. ASSUME NEW x \in S, x >= MaxRepeat PROVE Max(S) >= MaxRepeat
      BY <1>6, <2>1, <3>1, <3>2
    <3> QED
      BY <2>1, <3>2
  <2> QED
    BY <1>3, <1>5, <1>6, <2>2
<1>8. Decision(E).suspected = \/ MaxPerRun > 0 /\ Cardinality(E) >= MaxPerRun
                              \/ MaxRepeat > 0 /\ Repeats(E) >= MaxRepeat
  BY DEF Decision
<1>9. Loops(D) = \/ MaxPerRun > 0 /\ Cardinality(D) >= MaxPerRun
                 \/ MaxRepeat > 0 /\ \E c \in D : g[c] >= MaxRepeat
  BY DEF Loops, Like
<1> QED
  BY <1>1, <1>7, <1>8, <1>9

\* A loop stays one with more calls.
LEMMA LoopsGrow ==
  ASSUME NEW D, NEW E, D \subseteq E, IsFiniteSet(E), Loops(D)
  PROVE  Loops(E)
<1>1. MaxPerRun \in Nat /\ MaxRepeat \in Nat
  BY LoopAssumption
<1>2. CASE MaxPerRun > 0 /\ Cardinality(D) >= MaxPerRun
  <2>1. Cardinality(D) <= Cardinality(E) /\ Cardinality(D) \in Nat /\ Cardinality(E) \in Nat
    BY FS_Subset, FS_CardinalityType
  <2> QED
    BY <1>1, <1>2, <2>1 DEF Loops
<1>3. CASE MaxRepeat > 0 /\ \E e \in D : Cardinality({d \in D : req[d].sig = req[e].sig}) >= MaxRepeat
  <2> DEFINE like(S, e) == {d \in S : req[d].sig = req[e].sig}
  <2>1. PICK e \in D : Cardinality(like(D, e)) >= MaxRepeat
    BY <1>3
  <2>2. like(D, e) \subseteq like(E, e) /\ IsFiniteSet(like(E, e))
    BY FS_Subset
  <2> HIDE DEF like
  <2>3. /\ Cardinality(like(D, e)) <= Cardinality(like(E, e))
        /\ Cardinality(like(D, e)) \in Nat /\ Cardinality(like(E, e)) \in Nat
    BY <2>2, FS_Subset, FS_CardinalityType
  <2>4. Cardinality(like(E, e)) >= MaxRepeat
    BY <1>1, <2>1, <2>3
  <2> QED
    BY <1>3, <2>1, <2>4 DEF Loops, like
<1> QED
  BY <1>2, <1>3 DEF Loops

LEMMA ObserveFlags ==
  ASSUME GatewayType, Detects, NEW c \in Calls, Observe(c)
  PROVE  /\ Loops(Remembered(c)) => req'[c].dec.suspected
         /\ req'[c].dec.suspected => Loops(InWindow(c) \cup Ahead(c))
<1>1. req'[c].dec = Decision(Kept(c))
  BY ObserveIs, NotedIs
<1>2. req'[c].dec.suspected <=> Loops(Told(c))
  BY <1>1, ToldOf, DecidesLoops
<1> QED
  BY <1>2, ToldOf, LoopsGrow

\* A call is suspected if the calls of its window are a loop, but for those
\* given up for MaxRuns and those that came too late; and it is suspected only
\* if the calls of its window are one together with those that overtook it on
\* the way to the detector, whatever the order of arrival and both signals of
\* the policy considered (observe of loop.go).
THEOREM FlagsCorrect == Spec => FlagsItsWindow
<1>1. ASSUME GatewayType, Detects, [Next]_vars, NEW c \in observed' \ observed
      PROVE  /\ Loops(Remembered(c)) => req'[c].dec.suspected
             /\ req'[c].dec.suspected => Loops(InWindow(c) \cup Ahead(c))
  <2>1. PICK d \in Calls : Observe(d)
    BY <1>1, StepShows DEF Undisturbed, detection
  <2>2. c = d
    BY <1>1, <2>1, ObserveIs
  <2> QED
    BY <1>1, <2>1, <2>2, ObserveFlags
<1>2. ASSUME GatewayType, Detects, [Next]_vars
      PROVE  \A c \in observed' \ observed :
               /\ Loops(Remembered(c)) => req'[c].dec.suspected
               /\ req'[c].dec.suspected => Loops(InWindow(c) \cup Ahead(c))
  BY <1>1, <1>2
<1> QED
  BY <1>2, GatewayTypeCorrect, DetectsCorrect, PTL DEF Spec, FlagsItsWindow

-----------------------------------------------------------------------------
(* The handler and its budget. *)

LEMMA HandleBudget ==
  ASSUME GatewayType, NEW c \in Calls, Handle(c)
  PROVE  [BudgetNext]_budgetVars
<1> DEFINE r == req[c].run
           k == req[c].key
<1>1. r \in Runs \cup {NoRun} /\ k \in Keys \cup {NoKey}
  BY DEF GatewayType, Shape, Req
<1>2. CASE Admitted(c) \/ Refused(c) \/ ForwardFails(c) \/ RecordSettles(c)
  <2>1. Admit(c, r, k) \/ Refuse(c, r, k) \/ Settle(c, r, k)
    BY <1>2 DEF Admitted, Refused, ForwardFails, RecordSettles
  <2> HIDE DEF r, k
  <2> QED
    BY <1>1, <2>1 DEF BudgetNext
<1>3. CASE NoteCall(c)
  <2>1. Note(k)
    BY <1>3 DEF NoteCall
  <2>2. CASE k = NoKey
    <3>1. k \notin stopped
      BY <2>2, TypeParts, GatewayAssumption DEF BudgetType
    <3> QED
      BY <2>1, <3>1 DEF Note, budgetVars
  <2> HIDE DEF k
  <2> QED
    BY <1>1, <2>1, <2>2 DEF BudgetNext
<1>4. CASE TooLarge(c) \/ Observe(c) \/ Forwarded(c) \/ RowServed(c) \/ RowBlocked(c)
  BY <1>4 DEF TooLarge, Observe, Forwarded, RowServed, RowBlocked
<1>5. CASE \E q \in Runs \cup {NoRun}, j \in Keys \cup {NoKey}, s \in Sigs : ReadRequest(c, q, j, s)
  BY <1>5 DEF ReadRequest
<1> QED
  BY <1>2, <1>3, <1>4, <1>5 DEF Handle

\* The budget's conditions never stand in the handler's way: a call is not
\* decided yet when it comes to be, and holds its reservation when it is to
\* return it.
Ready ==
  \A c \in Calls :
    /\ req[c].at \in {"read", "observe", "note", "admit"} => c \notin decided
    /\ req[c].at \in {"forward", "relay"} => <<c, req[c].run, req[c].key>> \in out

Undecided == \A c \in Calls : req[c].at \in {"read", "observe", "note", "admit"} => c \notin decided

LEMMA HandleUndecided ==
  ASSUME GatewayType, Undecided, NEW c \in Calls, Handle(c)
  PROVE  Undecided'
<1>1. Shape
  BY DEF GatewayType
<1>2. ASSUME NEW p, Only(c), req'[c].at = p, decided' = decided,
             req[c].at \in {"read", "observe", "note", "admit"}
             \/ p \notin {"read", "observe", "note", "admit"}
      PROVE  Undecided'
  BY <1>2 DEF Undecided, Only
<1>3. CASE Admitted(c) \/ Refused(c)
  <2>1. PICK p \in {"forward", "blocked"} : Goto(c, p)
    BY <1>3 DEF Admitted, Refused
  <2>2. Only(c) /\ req'[c].at = p
    BY <1>1, <2>1, GotoIs DEF Places
  <2>3. decided' = decided \cup {c}
    BY <1>3 DEF Admitted, Refused, Admit, Refuse
  <2> QED
    BY <2>2, <2>3 DEF Undecided, Only
<1>4. CASE NoteCall(c) \/ Forwarded(c) \/ RecordSettles(c)
  <2>1. PICK p \in {"admit", "relay", "row"} :
          Goto(c, p) /\ (p = "admit" => req[c].at = "note") /\ decided' = decided
    BY <1>4 DEF NoteCall, Note, At, Forwarded, budgetVars, RecordSettles, Settle
  <2>2. Only(c) /\ req'[c].at = p
    BY <1>1, <2>1, GotoIs DEF Places
  <2> QED
    BY <1>2, <2>1, <2>2
<1>5. CASE TooLarge(c) \/ ForwardFails(c)
  <2>1. Only(c) /\ req'[c].at = "done"
    BY <1>1, <1>5, EndIs DEF TooLarge, ForwardFails, Ends
  <2>2. decided' = decided
    BY <1>5 DEF TooLarge, ForwardFails, Settle, budgetVars
  <2> QED
    BY <1>2, <2>1, <2>2
<1>6. CASE \E r \in Runs \cup {NoRun}, k \in Keys \cup {NoKey}, s \in Sigs : ReadRequest(c, r, k, s)
  <2>1. PICK r \in Runs \cup {NoRun}, k \in Keys \cup {NoKey}, s \in Sigs : ReadRequest(c, r, k, s)
    BY <1>6
  <2>2. Only(c)
    BY <1>1, <2>1, ReadIs DEF GatewayType
  <2>3. req[c].at = "read" /\ decided' = decided
    BY <2>1 DEF ReadRequest, At, budgetVars
  <2> QED
    BY <1>2, <2>2, <2>3
<1>7. CASE Observe(c)
  <2>1. Only(c)
    BY <1>7, NotedIs
  <2>2. req[c].at = "observe" /\ decided' = decided
    BY <1>7 DEF Observe, At, budgetVars
  <2> QED
    BY <1>2, <2>1, <2>2
<1>8. CASE RowServed(c) \/ RowBlocked(c)
  <2>1. PICK e \in Ends, fate \in Fates : Finish(c, e, fate)
    BY <1>8 DEF RowServed, RowBlocked, Ends
  <2>2. Only(c) /\ req'[c].at = "done"
    BY <1>1, <2>1, FinishIs
  <2>3. decided' = decided
    BY <1>8 DEF RowServed, RowBlocked, budgetVars
  <2> QED
    BY <1>2, <2>2, <2>3
<1> QED
  BY <1>3, <1>4, <1>5, <1>6, <1>7, <1>8 DEF Handle

LEMMA StepUndecided ==
  ASSUME GatewayType, Undecided, [Next]_vars
  PROVE  Undecided'
<1>1. ASSUME decided' = decided, req' = req PROVE Undecided'
  BY <1>1 DEF Undecided
<1>2. CASE \E c \in Calls : Handle(c)
  BY <1>2, HandleUndecided
<1>3. CASE \E x \in Runs \cup Keys : AdminResume(x)
  BY <1>1, <1>3 DEF AdminResume, Resume
<1>4. CASE \E on \in BOOLEAN : AdminKill(on)
  BY <1>1, <1>4 DEF AdminKill, SetKill
<1>5. CASE Tick \/ UNCHANGED vars
  BY <1>1, <1>5 DEF Tick, vars, budgetVars
<1> QED
  BY <1>2, <1>3, <1>4, <1>5 DEF Next

\* The handler uses its budget only in the ways the interface promises for,
\* and what the budget asks of it always holds: whatever return of ServeHTTP a
\* call takes, it is decided once, and settles only what it holds (gateway.go,
\* counter.go).
THEOREM HandlerWithinBudget == Spec => BudgetSpec /\ []Ready
<1>1. Init => BudgetInit /\ Undecided
  BY DEF Init, BudgetInit, Undecided
<1>2. ASSUME GatewayType, [Next]_vars PROVE [BudgetNext]_budgetVars
  <2>1. CASE \E c \in Calls : Handle(c)
    BY <1>2, <2>1, HandleBudget
  <2>2. CASE \E x \in Runs \cup Keys : AdminResume(x)
    BY <2>2 DEF AdminResume, BudgetNext
  <2>3. CASE \E on \in BOOLEAN : AdminKill(on)
    BY <2>3 DEF AdminKill, BudgetNext
  <2>4. CASE Tick \/ UNCHANGED vars
    BY <2>4 DEF Tick, vars, budgetVars
  <2> QED
    BY <1>2, <2>1, <2>2, <2>3, <2>4 DEF Next
<1>3. Spec => BudgetSpec
  BY <1>1, <1>2, GatewayTypeCorrect, PTL DEF Spec, BudgetSpec
<1>4. Spec => []Undecided
  BY <1>1, StepUndecided, GatewayTypeCorrect, PTL DEF Spec
<1>5. Undecided /\ ReservedWhileOut => Ready
  BY DEF Undecided, ReservedWhileOut, Ready
<1> QED
  BY <1>3, <1>4, <1>5, ReservedCorrect, PTL
=============================================================================
