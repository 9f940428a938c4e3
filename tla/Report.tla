------------------------------- MODULE Report -------------------------------
(***************************************************************************)
(* The arithmetic over ledger rows: which rows count toward the total      *)
(* (report.go) and how the console attributes them (summaryOf).            *)
(*                                                                         *)
(* A row is a record with  id, provider, start, end  (ticks; DayTicks to a *)
(* day, MonthDays days to a month),  tokens  (whether it carries a usage), *)
(* conf  (0 estimated ... 3 final),  cost  and  team.  Rows come as a set: *)
(* sums do not depend on their order.                                      *)
(***************************************************************************)
EXTENDS Integers, Functions

CONSTANTS DayTicks, MonthDays, MaxCoverageDays

ASSUME CalendarAssumption ==
  /\ DayTicks \in Nat \ {0}
  /\ MonthDays \in Nat \ {0}
  /\ MaxCoverageDays \in Nat \ {0}

Usd(rows) == SumFunction([e \in rows |-> e.cost])
DayOf(t) == t \div DayTicks
Bucket(e) == <<e.provider, DayOf(e.start) \div MonthDays>>   \* provider and invoice period

\* A provider's own figure, with no usage behind it.
IsCostRow(e) == ~e.tokens /\ e.conf >= 1
Billed(rows) == {e \in rows : IsCostRow(e)}
MeteredRows(rows) == {e \in rows : ~IsCostRow(e)}

\* Mutant: a bucket's end is taken for its last day.
Coverage_EndInclusive(rows) ==
  UNION {{<<e.provider, d>> : d \in DayOf(e.start) .. DayOf(e.end)} : e \in Billed(rows)}

\* The provider-days the bills cover.  A bucket's end is exclusive; a row with
\* no span covers its start day.
DaysOf(e) ==
  LET first == DayOf(e.start)
      end   == IF e.end > first * DayTicks THEN e.end ELSE (first + 1) * DayTicks
  IN  {d \in first .. end : d * DayTicks < end /\ d - first < MaxCoverageDays}
Coverage(rows) == UNION {{<<e.provider, d>> : d \in DaysOf(e)} : e \in Billed(rows)}
Covers(cov, e) == <<e.provider, DayOf(e.start)>> \in cov

CountsTowardTotal(e, cov) == IsCostRow(e) \/ ~Covers(cov, e)
Included(rows) == {e \in rows : CountsTowardTotal(e, Coverage(rows))}
Total(rows) == Usd(Included(rows))

-----------------------------------------------------------------------------
(* The console's view of the same rows. *)

\* The last so many days before the latest row, or everything.
Window(rows, days) ==
  {e \in rows : days = 0 \/ \A l \in rows : e.start >= l.start - days * DayTicks}

MeteredBuckets(rows) == {Bucket(e) : e \in MeteredRows(rows)}

\* What a team or an agent can be charged with: every metered row, and a bill
\* only where nothing metered exists for its provider and month.
Attributable(rows) ==
  {e \in rows : IsCostRow(e) => Bucket(e) \notin MeteredBuckets(rows)}

\* A month's bill, and the priced usage on the days it covers.
BilledIn(rows, b) == Usd({e \in Billed(rows) : Bucket(e) = b})
\* Mutant: the whole month's priced usage, whatever days the bill covers.
CoveredIn_WholeMonth(rows, b) == Usd({e \in MeteredRows(rows) : Bucket(e) = b})
CoveredIn(rows, b) ==
  Usd({e \in MeteredRows(rows) : Bucket(e) = b /\ Covers(Coverage(rows), e)})

\* What the bills have that no metered call accounts for.
Unmetered(rows) ==
  LET over == {b \in MeteredBuckets(rows) : BilledIn(rows, b) > CoveredIn(rows, b)}
  IN  SumFunction([b \in over |-> BilledIn(rows, b) - CoveredIn(rows, b)])

\* Spend by team (and by agent, which differs only in the tag): the bars of
\* the dashboard.  What is unmetered has a bar of its own, and adds to that of
\* a team of the same name.
UnmeteredKey == "(billed, not metered)"
SpentBy(rows, t) == Usd({e \in Attributable(rows) : e.team = t})
ByTeam(rows) ==
  LET teams == {e.team : e \in Attributable(rows)}
      extra == IF Unmetered(rows) > 0 THEN {UnmeteredKey} ELSE {}
  IN  [t \in teams \cup extra |->
         SpentBy(rows, t) + IF t \in extra THEN Unmetered(rows) ELSE 0]
=============================================================================
