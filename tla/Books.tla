-------------------------------- MODULE Books --------------------------------
(***************************************************************************)
(* From a provider's answer to the dashboard: the gateway meters a call    *)
(* while its answer streams through (stream.go), prices it and appends a   *)
(* row to the ledger file (record, recorder.go); the console answers       *)
(* requests from its memo of the same file (console.go), with the report's *)
(* arithmetic over the rows (report.go).                                   *)
(*                                                                         *)
(* One call is followed from its first byte; the other rows of the file,   *)
(* earlier calls and imported bills, are taken from a catalogue.  A write  *)
(* is not atomic for a reader, and may stop part-way for good: the disk is *)
(* full, or the gateway dies and is started again on the same file.        *)
(***************************************************************************)
EXTENDS Usage, Ledger, Report

CONSTANTS
  Scripts,    \* provider -> the streams it may answer with, sequences of tokens
  Catalogue,  \* provider -> the other rows that may be appended
  Asked,      \* the model the followed call asked for
  CallTime,   \* when it started
  Viewers,    \* concurrent requests to the console
  Windows,    \* the day counts a viewer may ask for
  MaxRows,    \* bound on appended rows
  MaxTears,   \* bound on writes that stop part-way
  Names       \* what ids and teams are called

Row == [id : Names, provider : DOMAIN Scripts, start : Nat, end : Nat, tokens : BOOLEAN,
        conf : 0 .. 3, team : Names, cost : Int]

\* A frame is a line of its own, and its line fits the reader's buffer.  An
\* Anthropic message_start counts tokens besides those it writes to a cache.
ASSUME StreamAssumption ==
  /\ BufLimit \in Nat /\ BufLimit >= 2
  /\ \A p \in DOMAIN Scripts : \A q \in Scripts[p] :
       /\ q \in Seq(Range(q))
       /\ \A i \in DOMAIN q : q[i][1] = "head" =>
            /\ i > 1 => q[i - 1] = NL
            /\ i < Len(q) => q[i + 1] = <<"tail", q[i][2]>>
            /\ i + 1 < Len(q) => q[i + 2] = NL
            /\ q[i][2].top \in Block /\ q[i][2].message \in Block
            /\ p = "anthropic" /\ q[i][2].message # NoBlock =>
                 q[i][2].message.input > 0 \/ q[i][2].message.read > 0

ASSUME BooksAssumption ==
  /\ {"call", "(untagged)"} \subseteq Names
  /\ \A p \in DOMAIN Scripts : Catalogue[p] \subseteq Row
  /\ CallTime \in Nat /\ Windows \subseteq Nat
  /\ MaxRows \in Nat /\ MaxTears \in Nat

VARIABLES
  provider, script,   \* this run's provider and its answer
  sent,               \* tokens of the answer relayed so far
  stream,             \* the usage reader of the call
  priced,             \* the followed call's row, once it exists (a set of at most one)
  file,               \* the ledger, a sequence of pieces
  writing,            \* whether a write is in progress (the recorder's lock is held)
  landed,             \* history: ids whose write returned without an error
  tears,              \* history: writes that stopped part-way
  asks,               \* the console's requests: the memo key each took, and
                      \* the ids on whole lines when it did (history)
  memo                \* the console's memo

callVars == <<provider, script, sent, stream, priced>>
fileVars == <<file, writing, landed, tears>>
vars == <<callVars, fileVars, asks, memo>>

-----------------------------------------------------------------------------
(* The call. *)

Relayed == SubSeq(script, 1, sent)

\* The row of the followed call.
RowOf(u) ==
  [id |-> "call", provider |-> provider, start |-> CallTime, end |-> CallTime,
   tokens |-> TRUE, conf |-> 0, team |-> "(untagged)",
   cost |-> IF u.got THEN Price(provider, ModelOf(provider, Asked, u), u.usage) ELSE 0]

\* The next bytes of a streamed answer pass, in a read of any size.
Relay ==
  /\ priced = {}
  /\ \E n \in 1 .. (Len(script) - sent) :
       /\ sent' = sent + n
       /\ stream' = Write(provider, stream, SubSeq(script, sent + 1, sent + n))
  /\ UNCHANGED <<provider, script, priced, fileVars, asks, memo>>

\* The stream is over, or was cut: the call is priced from what was read.
StreamEnds ==
  /\ priced = {}
  /\ priced' = {RowOf(stream)}
  /\ sent' = 0 /\ stream' = NewStream     \* the reader goes with the call
  /\ UNCHANGED <<provider, script, fileVars, asks, memo>>

\* The answer is not a stream: its body is read whole, unless it is over the
\* limit, and then its copy does not parse.
BodyRead ==
  /\ priced = {} /\ sent = 0
  /\ \/ priced' = {RowOf(Extract(provider, Blocks(provider, script))
                          @@ [model |-> BodyModel(provider, script)])}
     \/ priced' = {RowOf(NewStream)}
  /\ UNCHANGED <<provider, script, sent, stream, fileVars, asks, memo>>

-----------------------------------------------------------------------------
(* The file. *)

Landable == priced \cup Catalogue[provider]
Valid(e) == e.cost \in Nat /\ e.end >= e.start
Appended(e) == {i \in DOMAIN file : file[i].row = e}

\* Record: a valid row is written under the recorder's lock.  A bill may be
\* imported again.
Record(e) ==
  /\ ~writing /\ Len(file) < MaxRows
  /\ e \in Landable /\ Valid(e)
  /\ Cardinality(Appended(e)) < IF IsCostRow(e) THEN 2 ELSE 1
  /\ file' = Append(file, [row |-> e, got |-> "part"])
  /\ writing' = TRUE
  /\ UNCHANGED <<callVars, landed, tears, asks, memo>>

\* The rest of the line is there and Write returns.
WriteEnds ==
  /\ writing
  /\ file' = [file EXCEPT ![Len(file)].got = "line"]
  /\ writing' = FALSE
  /\ landed' = landed \cup {Last(file).row.id}
  /\ UNCHANGED <<callVars, tears, asks, memo>>

\* The disk is full, or the gateway dies and is started again: some of the row
\* is there, perhaps all but the newline.
WriteStops ==
  /\ writing /\ tears < MaxTears
  /\ \E got \in {"part", "json"} : file' = [file EXCEPT ![Len(file)].got = got]
  /\ writing' = FALSE
  /\ tears' = tears + 1
  /\ UNCHANGED <<callVars, landed, asks, memo>>

-----------------------------------------------------------------------------
(* The console. *)

Ids(rows) == {e.id : e \in rows}
WholeLines == {file[i].row.id : i \in {j \in Lines(file) : file[j].got = "line"}}

\* liveLedger, up to the lock: the memo key is the file's size and time, and
\* the file is only ever appended to, so the size tells as much as both.  A
\* Stat that fails answers an empty ledger and leaves the memo alone.
Ask(v) ==
  /\ ~asks[v].open
  /\ asks' = [asks EXCEPT ![v] = [open |-> TRUE, key |-> Size(file), due |-> WholeLines]]
  /\ UNCHANGED <<callVars, fileVars, memo>>

\* Mutant: the file is read first, and its size taken after.
Answer_SizeAfterRead(v) ==
  /\ asks[v].open
  /\ memo' = IF Size(file) # memo.key \/ memo.rows = {}
             THEN [key |-> Size(file), rows |-> {e \in ReadLive(file) : e.id \in asks[v].due}]
             ELSE memo
  /\ asks' = [asks EXCEPT ![v] = [open |-> FALSE, key |-> 0, due |-> {}]]
  /\ UNCHANGED <<callVars, fileVars>>

\* Under the lock: read again unless the memo has this key and some rows.  No
\* row of the recorder's is so long that it would stop the reader.
Answer(v) ==
  /\ asks[v].open
  /\ memo' = IF asks[v].key # memo.key \/ memo.rows = {}
             THEN [key |-> asks[v].key, rows |-> ReadLive(file)]
             ELSE memo
  /\ asks' = [asks EXCEPT ![v] = [open |-> FALSE, key |-> 0, due |-> {}]]
  /\ UNCHANGED <<callVars, fileVars>>

\* The file is to be read again and cannot be opened: the answer is empty, and
\* the memo holds its key with no rows.
OpenFails(v) ==
  /\ asks[v].open
  /\ asks[v].key # memo.key \/ memo.rows = {}
  /\ memo' = [key |-> asks[v].key, rows |-> {}]
  /\ asks' = [asks EXCEPT ![v] = [open |-> FALSE, key |-> 0, due |-> {}]]
  /\ UNCHANGED <<callVars, fileVars>>

-----------------------------------------------------------------------------
Init ==
  /\ provider \in DOMAIN Scripts
  /\ script \in Scripts[provider]
  /\ sent = 0
  /\ stream = NewStream
  /\ priced = {}
  /\ file = << >> /\ writing = FALSE /\ landed = {} /\ tears = 0
  /\ asks = [v \in Viewers |-> [open |-> FALSE, key |-> 0, due |-> {}]]
  /\ memo = [key |-> 0, rows |-> {}]

Next ==
  \/ Relay \/ StreamEnds \/ BodyRead
  \/ \E e \in Landable : Record(e)
  \/ WriteEnds \/ WriteStops
  \/ \E v \in Viewers : Ask(v) \/ Answer(v) \/ OpenFails(v)

Spec == Init /\ [][Next]_vars

-----------------------------------------------------------------------------
(* Properties. *)

\* A stream meters like a body, however its bytes were cut: at every point of
\* the relay the reader's usage is what extractUsage finds in a body with the
\* frames whose lines are complete.
StreamMetersLikeBody ==
  priced = {} =>
    [usage |-> stream.usage, got |-> stream.got] = Extract(provider, Blocks(provider, Relayed))

\* A write that stops part-way costs the ledger at most the row after it: no
\* other row that was written is missing from what the console reads, and a
\* file no write was torn in is whole to the command line's reader too.
LostOnlyToTears ==
  /\ Cardinality(landed \ Ids(ReadLive(file))) <= tears
  /\ tears = 0 /\ ~writing =>
       ReadStrict(file).ok /\ Ids(ReadStrict(file).rows) = landed

\* The days a bill is for: the one it starts on, and those that begin before
\* its end, MaxCoverageDays at most.
InBucket(b, e) ==
  LET day == DayOf(e.start)  first == DayOf(b.start) IN
  /\ e.provider = b.provider
  /\ first <= day /\ day < first + MaxCoverageDays
  /\ day = first \/ day * DayTicks < b.end
Replaced(rows) == {e \in MeteredRows(rows) : \E c \in Billed(rows) : InBucket(c, e)}
CheapMonth(rows) ==
  \E b \in MeteredBuckets(rows) :
    BilledIn(rows, b) < Usd({e \in Replaced(rows) : Bucket(e) = b})
Bars(rows) == SumFunction(ByTeam(rows))

\* The bars of the dashboard never fall short of its total, in any window; and
\* they add up to it exactly when no month's bills are below the priced usage
\* of that month that bills replace.
BarsAddUp ==
  \A d \in Windows : LET rows == Window(ReadLive(file), d) IN
    /\ Bars(rows) >= Total(rows)
    /\ Bars(rows) = Total(rows) <=> ~CheapMonth(rows)

\* An answer of the console from a file it could open holds every row that was
\* on a line of its own when the request came in, whichever requests shared the
\* memo with it, those among them for which the file could not be opened.
AnswersAreFresh ==
  [][\A v \in Viewers : Answer(v) => asks[v].due \subseteq Ids(memo'.rows)]_vars

\* A bill that arrives replaces the priced usage of the days in its bucket that
\* no bill had replaced before, and of no other day.
BillReplacesItsDays ==
  LET before == ReadLive(file)
      after  == ReadLive(file')
  IN  \A b \in after \ before :
        IsCostRow(b) /\ after = before \cup {b} =>
          Total(after) = Total(before) + b.cost
            - Usd({e \in MeteredRows(before) :
                     InBucket(b, e) /\ \A c \in Billed(before) : ~InBucket(c, e)})

BillReplacesOnlyItsDays == [][BillReplacesItsDays]_vars
=============================================================================
