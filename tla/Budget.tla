-------------------------------- MODULE Budget --------------------------------
(***************************************************************************)
(* What the interface budget of internal/gateway/counter.go promises the   *)
(* handler, whatever keeps the tally behind it: a call is decided once, an *)
(* admitted call is out until it is settled once, nothing is admitted past *)
(* the kill switch, and a run or key that is stopped stays stopped, for    *)
(* every call that is not forced, until an operator resumes it (or, for a  *)
(* key, its day ends).  Which cap stops what, and when, is left open.      *)
(***************************************************************************)
CONSTANTS
  Calls, Runs, Keys,
  NoRun, NoKey,     \* the call names no run, or carries no key
  Shadow,           \* ControlPolicy.Shadow: caps are reported, not enforced
  BypassAllowed,    \* some callers hold the admin token
  Fallback          \* stops may also be marked by the owner of this counter

VARIABLES
  killed,
  stopped,    \* the runs and keys that are paused
  out,        \* <<call, run, key>> of the calls admitted and not yet settled
  decided     \* calls that have been admitted or refused

budgetVars == <<killed, stopped, out, decided>>

BudgetInit == killed = FALSE /\ stopped = {} /\ out = {} /\ decided = {}

\* Where a step on run r and key k may leave the stops: a daily pause of the
\* key may have ended, and the step may stop the run or the key.
Stops(r, k) == {S \in SUBSET (stopped \cup ({r, k} \ {NoRun, NoKey})) : stopped \ {k} \subseteq S}

\* admitWhere, answered ok.  A call that is neither forced nor in shadow mode
\* is served only if nothing it names is stopped, and does not stop anything.
Admit(c, r, k) ==
  /\ c \notin decided /\ ~killed
  /\ out' = out \cup {<<c, r, k>>} /\ decided' = decided \cup {c}
  /\ \/ stopped' \in {stopped, stopped \ {k}} /\ {r, k} \cap stopped' = {}
     \/ BypassAllowed /\ stopped' \in {stopped, stopped \ {k}}
     \/ Shadow /\ stopped' \in Stops(r, k)
  /\ UNCHANGED killed

\* admitWhere, refused: for the kill switch, which touches nothing, or for a
\* stop that stands.
Refuse(c, r, k) ==
  /\ c \notin decided
  /\ decided' = decided \cup {c}
  /\ \/ killed /\ UNCHANGED stopped
     \/ ~killed /\ ~Shadow /\ stopped' \in Stops(r, k) /\ {r, k} \cap stopped' # {}
  /\ UNCHANGED <<killed, out>>

\* record or release, for the run and the key the call was admitted on.
Settle(c, r, k) ==
  /\ <<c, r, k>> \in out
  /\ out' = out \ {<<c, r, k>>}
  /\ stopped' \in Stops(r, k)
  /\ UNCHANGED <<killed, decided>>

\* noteKey finds a day that ended.
Note(k) == stopped' \in {stopped, stopped \ {k}} /\ UNCHANGED <<killed, out, decided>>

Resume(x) ==
  /\ x \in stopped
  /\ stopped' = stopped \ {x}
  /\ UNCHANGED <<killed, out, decided>>

Mark(x) ==
  /\ Fallback
  /\ stopped' = stopped \cup {x}
  /\ UNCHANGED <<killed, out, decided>>

SetKill(on) == killed' = on /\ UNCHANGED <<stopped, out, decided>>

BudgetNext ==
  \/ \E c \in Calls, r \in Runs \cup {NoRun}, k \in Keys \cup {NoKey} :
       Admit(c, r, k) \/ Refuse(c, r, k) \/ Settle(c, r, k)
  \/ \E k \in Keys : Note(k)
  \/ \E x \in Runs \cup Keys : Resume(x) \/ Mark(x)
  \/ \E on \in BOOLEAN : SetKill(on)

BudgetSpec == BudgetInit /\ [][BudgetNext]_budgetVars
=============================================================================
