# TLA+ models of axigate-finops

axigate-finops is a gateway between agents and LLM providers that meters calls,
attributes their cost and stops a run or an API key that exceeds a cap, plus
tools that import provider reports and show a ledger. This directory holds TLA+
models of the parts whose correctness depends on interleavings, failures and
boundaries, the TLC configurations that check them, and TLAPS proofs.

## The system

| Component | State | Operations | Hard because |
|---|---|---|---|
| Controller (`internal/gateway/control.go`) | per run: calls, in flight, spend, caller's cap, pause; per key: day and total tallies, pause; kill switch; undispatched stop events | admit, record, release, note, setRunCap, resumeRun, resumeKey, setKilled, markPaused, dispatch, eviction | bursts admitted before the first settles; resumes, midnight and evictions with calls in flight; rounding at the cap |
| Shared counter (`counter_redis.go`) | the records of runs and keys in Redis (with an id per call); per gateway: gap flag, failure streak, fallback controller, owed queue, pauses last seen | admitWhere, settle, resume, status, deliver, flush, recovered, degrade, fail; Lua scripts | several replicas with clocks of their own; answers lost after the store acted; commands sent twice; a gap that begins between any two steps; write-back that fails half way or comes after midnight |
| Kill switch (`counter_redis.go`) | one key in Redis, a mirror per gateway and per fallback, a dirty mark with a generation | setKilled, mirrorKill, delivery, recovery | orders, mirrors and deliveries race |
| RESP client (`resp.go`) | slots, dial turns, idle connections | get, put, discard, do, eval | bursts, stale connections, deadlines, retries |
| Request handler (`gateway.go`) | one request | observe, note, admit, forward, settle, record | every early return must give its reservation back |
| Loop detector (`loop.go`) | a window of request times per run | observe, evict | times are read outside the lock |
| Stream and usage (`stream.go`, `gateway.go`), price table (`internal/pricing`) | a line buffer | Write, consume, extract, price | frames split anywhere; three dialects of usage |
| Recorder and ledger reader (`ledger.go`, `recorder.go`, `internal/ledger`, console) | a JSONL file | append, read | reading during an append; writes that stop half way |
| Report (`internal/report`), console (`internal/console`) | a memo of the ledger | read, aggregate | a day both metered and billed counts once; readers share the memo |
| Importers, exports, fetch, owners, identity, alerts, seed, CLI | files | parse, format, send | no |

A request passes the handler, which asks the detector, notes attribution with
the counter (a controller, or a shared counter that owns controllers as its
fallbacks), asks it to admit, forwards, settles with the counter that admitted
it, and records a row. The counter calls back on a stop (`onPause` to alert,
`onPauseSync` to owe the pause to the store). Operators reach the counter
through the admin endpoints. Background threads (probe, flush) share the
counter's state and its two mutexes. The console reads the file of rows while
the gateway appends to it.

## Modules

| Module | Models |
|---|---|
| `Budget` | abstract: what the interface `budget` promises the handler |
| `ControlRules` | the policy as operators on one run's or key's entry: caps, projection at admit, settlement, day rollover, eviction's choice |
| `Controller` | the controller: one action per method (each holds the mutex from first read to last write), `Dispatch` apart because it runs after the unlock; implements `Budget` |
| `StoreRules` | the Lua scripts as operators on a run's record; Redis runs a script as one step |
| `SharedCounter` | gateways, fallbacks, the store, gaps and write-back for one run; one action per critical section, fallback method or command |
| `StoreKeys` | the key half of the scripts, the clocks of the gateways and the list behind the status, with coarser steps |
| `KillSwitch` | the switch in the store, its mirrors, orders, deliveries and recoveries |
| `RespPool` | the connection pool, the retry rule and the two commands of an eval, against a store that restarts |
| `LoopDetector` | observe and evict as operators on the map of windows |
| `Gateway` | the handler, over `Budget` and `LoopDetector`, with every early return |
| `Usage` | reading a usage block from a body or a stream, and its price |
| `Ledger` | the file as written and as read, tolerantly or strictly |
| `Report` | which rows count toward the total, and the console's bars |
| `Books` | from a provider's answer to the dashboard: `Usage`, `Ledger`, `Report` and the console's memo composed |
| `ControlRulesProofs`, `ControllerProofs`, `KillSwitchProofs`, `SharedCounterProofs`, `StoreKeysProofs`, `RespPoolProofs`, `GatewayProofs`, `BooksProofs` | lemmas and theorems |
| `MCController`, `MCShared`, `MCKill`, `MCStoreKeys`, `MCPool`, `MCGateway`, `MCBooks` | small instances for TLC |

`StoreRules` and `StoreKeys` extend `ControlRules`, and the fallbacks of both
shared models use its rules, so the two deciders differ only where the code does
(the store compares exactly, the controller rounds to a micro-dollar).

### How state and actions correspond to the code

A definition with a suffix after an underscore (`Settle_AnyGen`) is the
definition it precedes with a plausible slip in it. No specification uses
one; they show that the properties would notice.

*Controller.* `runs` and `keys` are the maps; an absent entry is one with
`tracked = FALSE`. Money is in whole units of which `Grain` make a micro-dollar,
so `Micro` rounds as `micro()` does and the comparison of an average with a cap
keeps its rounding. `now` orders `lastSeen`; `today` is the UTC day and may be
stepped back. Attribution text and the wording of reasons are left out; a reason
is the cap that caused it. `admitted`, `slack`, `stale` and `loose` are history.

*SharedCounter.* A thread's record holds what the code keeps in local variables
across an unlock: the fallback it read (`ptr` into `fallbacks`, which keeps
replaced fallbacks because threads may still hold them), an unprocessed answer,
events taken by `dispatch`. A failure of a command is one of busy, refused, dead
or drop, the classes `fail` distinguishes, and a dropped answer leaves open
whether the store ran the command. What a thread makes of a failed command
(`fail`, the note of a settlement, the end of a delivery) is a step after the
failure, which its record keeps meanwhile (`failure`). Two pairs of critical
sections remain one step: `fail` with the `degrade` it calls, and the store's run
of a settlement or resume with the note of its answer (`failStreak`, `pausedSeen`).
Assumption: a command whose connection failed has been run or never will be. Gateways begin healthy (a boot into a gap
is in the other two models). `lost` records what the code counts as dropped or
refused; `lastWord` and `raced` are history.

*StoreKeys.* `clock` gives each gateway its own UTC day, and a script carries the
day of the gateway that sends it. A fallback method with the events it
dispatches is one step, a failed command and what `fail` makes of it are one step,
which may begin a gap whatever the streak, a delivery takes one item, and a recovery needs to have found the queue empty once; the finer steps
are those of `SharedCounter`. Calls carry a key and no run. `pausedOn` (the day
of the pause in the store) and `loose` are history.

*KillSwitch.* An order is an operator's request. `delivery` is who holds
`deliverMu` and the snapshot of switch and generation it is writing. The other
owed items are abstracted: a flush may always find some, a recovery may need
another pass, a delivery may fail on one. A failed command and `fail` are one step
(`SharedCounter` has them apart). `excused` collects the three ways in
which an older state can replace a newer one (see Findings).

*RespPool.* `slots` and `turns` count the tokens in the two channels; a call's
place says where in `get`, `doOn` or `put` it is. A connection is two queues and
who still has its end open; a reply has an addressee, but the reader takes the
first there is, as the client does. The store is external: it serves requests in
order, closes idle connections and restarts without its scripts.

*Gateway.* The budget is the state of `Budget`; the handler's actions are the
steps of one request, and `req[c]` is what it holds in local variables. `observed`,
`crowded` (calls given up to stay within `MaxWindows`), `newest` and `lag` (how
late a time has reached the detector) are history. A provider's status code is
assumed to be one that net/http can relay.

*Books.* A stream is a sequence of half lines and newlines, so a cut can fall
inside or between lines; `Blocks` takes the frames whose lines are complete. A
write puts pieces into the file, all of a row's bytes but the newline being a
piece of its own, because a reader at the end of the file takes such a row. A
viewer's request looks at the file and answers in two steps; when the file
cannot be opened the answer is empty and so is the memo, under the new key (`OpenFails`). A body that names its
model is priced by that (`BodyModel`). What a reader keeps
is a set of rows, because every figure made of them is a sum; ids and order enter
where the first row of an id is kept. Costs are whole numbers of a small unit,
not floating-point dollars. Rows are valid; a write of no bytes is left out.

## What the runs check

Controller (`MCController`):

- `runs`: two runs in a map that keeps one, three calls, the call cap, caller
  caps, bypass, loop pauses, resumes. Reservations are always those of calls
  still out (`NoPhantomReservation`), the call cap holds (`CallCapHolds`),
  eviction drops only the least recently seen unpaused entry
  (`DropsLeastRecent`), and every step is one that `Budget` allows
  (`ImplementsBudget`): a stopped run lets no call through.
- `keys`: one run under a spend cap and two keys under a daily and a total cap,
  with amounts that need rounding, over three days with the clock stepping both
  ways: the spend caps hold within one reserve (`RunSpendHolds`,
  `KeySpendHolds`), a pause stands, a daily one until its day is over
  (`PauseStands`), a lagging clock resets nothing (`KeyTallyKept`), and every stop
  alerts, once and with its reason (`OneAlertPerStop`).
- `shadow`: a controller in shadow mode that is also the stand-in of a shared
  store: `OneAlertPerStop` again, less that every stop alerts, because a pause marked
  from outside raises none.

Shared counter (`MCShared`, `MCStoreKeys`):

- `gap`: one gateway, two calls, a resume and two failures: everything is
  applied once per token (`OncePerToken`), no settlement disappears
  (`NoSettlementLost`), a resume is the last word unless it met a pause on its
  way (`ResumeLandsLast`).
- `replicas`: two gateways, three calls, a cap of two (`SharedCapHolds`).
- `gap_live`: gaps end and what is owed lands (`GapEnds`, `OwedLands`).
- `store_keys`: one key, a daily and a total cap, two gateways that begin
  healthy or in a gap and whose clocks differ by up to a day, two calls, two
  failures, a resume: a pause made for one day never holds the next
  (`DailyPauseIsOfItsDay`), a paused key stays on the status list
  (`ListedWhilePaused`), the caps hold for both gateways together
  (`SharedKeyCapHolds`), and no settlement, new day or status request ends a pause
  for the total cap: a resume does, and a gap's daily pause written back over it
  renames it (`TotalKept`).

Kill switch (`MCKill`):

- `kill`: one gateway that boots while the store is away, two orders, a call and
  one more failure: an engaged switch refuses every later call at its gateway
  (`KillHolds`), the store ends with the newest order (`StoreEndsWithLast`),
  mirror and fallback agree (`FallbackAgrees`), an order reaches the store
  (`OrderLands`). More gateways, calls and failures are covered by the proofs.

Pool, handler and books:

- `pool`: three calls, two slots, one dial turn, two connections, one greeting,
  one restart: no token is lost (`NoTokenLost`), connections stay within the
  slots although slot and connection are returned in two steps (`OpenBound`), a
  caller gets the answer to its own command (`AnsweredOnlyIfRun`), and a script
  runs twice only if the store restarted (`RerunsNeedRestart`).
- `gateway`: three calls of two runs, alike or not, operators at work, both signals
  of the detector on, a window of two ticks and one run kept (3.8 million states): what the budget holds is what is on its way
  to or from the provider (`ReservedWhileOut`), the rows tell what happened
  (`RowsTellTheTruth`), the detector forgets only what its lateness or its limit
  explain (`NoRecentCallForgotten`), and a call is suspected when what it may not
  forget of the call's window is a loop, and only when that window is one together
  with the calls that overtook it (`FlagsItsWindow`). The last clause is needed:
  `observe` (loop.go:79-84) drops what is too old and nothing that is too new, so a
  call whose time was read before a later one was observed is judged with that one
  too, outside the window that ends with it; without the clause TLC refutes the
  property.
- `books`: an answer of each provider in every cut, three rows, one torn write,
  two viewers, and bills of a month, of a day and of days in two months (1.3
  million states): a stream meters like a body (`StreamMetersLikeBody`), a torn
  write costs at most one more row (`LostOnlyToTears`), the bars never fall short
  of the total and equal it exactly where no month is billed below the priced
  usage that bills replace there (`BarsAddUp`), a viewer sees every row that was there when it asked
  (`AnswersAreFresh`), a bill replaces the priced usage of its own days only
  (`BillReplacesOnlyItsDays`).

### Bounds

Two runs or keys and `MaxRuns = 1` are enough for every eviction choice (who
goes, who stays); three calls put one in flight beyond a cap of two, and three
at the reserve floor of 3 end more than one floor past a cap of 5 unless the
projection counts them. `Grain = 2` makes odd amounts round. Two days and back
suffice for a rollover, a lagging clock and its correction.
One fault begins a gap (a dead store at once, a dropped answer after a streak of two
in `gap`), a second strikes a delivery, a recovery or the next gap; `MaxFaults = 2` therefore covers a failure inside the
handling of a failure. A gap from boot costs no fault, so in `kill` one fault
does. A batch of one item makes every delivery of two items consist of two
batches. Two replicas and three calls are the least that overfill a shared cap
of two; in `store_keys` two calls of the reserve's size overfill the daily cap,
and one reaches the total cap, so that the other meets the total pause on the
next day. In `pool`, two slots and one turn make every wait happen, and a third
call finds both slots taken; a restart ends a connection that is idle, in use or
half greeted. In `gateway`, three calls are the rate that makes a loop and two alike
the repetition, so that the third call can be late for either or belong to the run
given up; three instants put a call at the edge of the window of another. `NoIdleTick`
stops the clock there once no call is left to read it, which no step sees. In `books`, days of two ticks in months of two days put a bill's
edges before, at and after a call; `MCBooks` leaves the file alone until the
call is over (`CallFirst`), because the relay shares nothing with the other
steps and no property sees the order in which they come. `MaxNow`, `MaxDay`, `MaxFaults`, `MaxRestarts`, `MaxTime`, `MaxRows`
and `MaxTears` are bounds of the models only. Calls, gateways and viewers are
symmetric in the safety runs; the liveness runs use no symmetry. `gateway` and
`books` end when every call and row has been through, so deadlock is not checked
there.

### Fairness

`FairSpec` in `SharedCounter` and `KillSwitch` assumes weak fairness of every
thread that is inside a method (the Go scheduler), of the background work (the
probe's ticker keeps firing, `recovered` and `flush` are run from it), and, in
`KillSwitch`, strong fairness where a thread waits for `deliverMu` (Go's
mutexes hand over to a starving waiter). Failures end because they are bounded.
When a call ends is up to the provider, so settling is not fair.

## Findings

| Run | What the code does |
|---|---|
| `kill_overtaken` | two operator requests reach the store in the opposite order, and the newer kill is deleted by the older clear |

`PROJECT.json` quotes the sentence of the documentation that it contradicts.

Met while modelling, and part of the models rather than runs of their own:

Controller and shared counter:

- a resume zeroes the reservations of calls still out, so the late release of
  such a call takes away a newer call's reservation (`control.go:595`); the
  history variable `slack` counts these calls and `CallCapHolds` allows them;
- a day's rollover zeroes reservations that the total cap counts too
  (`control.go:244`, against the comment at 43-46); `KeySpendHolds` and
  `SharedKeyCapHolds` allow for them (`loose`);
- an admit that the store ran and whose answer was lost is decided again by the
  fallback, and the store's reservation is returned only by expiry
  (`counter_redis.go:1216`); `OncePerToken` bounds it to one per such call;
- a local call may be settled with a fallback that did not admit it
  (`counter_redis.go:1309`), where the floor at zero absorbs it (`TypeOK`);
- a resume that saw no gap may reach the store before a pause owed by a gap that
  began meanwhile (`counter_redis.go:1399`, against 1394-1396); `raced` in
  `ResumeLandsLast`;
- an old answer of the store is mirrored over a newer kill, and a gap that
  begins then serves calls (`counter_redis.go:1296`, against `README.md:359`);
  `mirror` in `Races`;
- a gateway in a gap pauses a key for its own daily tally while the store pauses
  it for the total cap; the write-back (`luaKeyPause`, `counter_redis.go:949`) sets
  reason and day whatever pause is there, so the store's pause becomes a daily one:
  a resume then leaves the total tally, and without one the first call of the next
  day is served, against `README.md:271` ("refused until an operator resumes it")
  and 385-386; `TotalKept` allows the renaming and nothing else;
- a status request of a gateway whose clock is ahead takes a key off the list
  that a lagging gateway still refuses; the exception in `ListedWhilePaused`;
- `keyNote` stamps the day at which it runs, so a pause read just before midnight
  may hold a gap's fallback on the next day.

RESP client: the comment at `resp.go:204-209` that nothing ran on a stale
connection does not hold if the store runs a command and restarts before it has
replied; `RerunsNeedRestart` says that nothing else can make a script run twice.

Handler and detector:

- `loop.go:118` states its guarantee for requests in the order of their times;
  times read outside the lock make it true up to their lateness (`lag`), and the
  decision on a late call counts calls later than it (`Ahead` in `FlagsItsWindow`);
- a provider's status code below 100 would make `WriteHeader` panic after the
  admit, and its reservation would stay; the model assumes relayable codes.

Usage, ledger, report and console:

- an Anthropic stream that ends after `message_start` counts as known usage and
  is priced with no output;
- a body with no tokens but those written to a cache has no usage for
  `extractUsage`, and has for the stream reader;
- a row whose write lacked only the newline is shown while it is the last, and
  disappears with the next row, with which it shares a line;
- the command line's strict reader refuses a torn ledger that a running console
  tolerates;
- the bars exceed the total in a month whose bills are below the priced usage
  that bills replace there: "a bill below the estimate adds nothing"
  (`console.go:581`). That includes a month with no bill of its own whose first
  days are covered by a bill that starts in the month before, since a bill's
  dollars are booked on the month it starts in and its coverage is not; so
  `BarsAddUp` states the equality with its exact condition.

## What is proved

By TLAPS, for every value of the constants that satisfies the assumptions named
in the modules that declare them.

About `Controller`:

- `TypeCorrect`: `Spec => []TypeOK`. The invariant is inductive as it stands.
- `ReservationsReturned`: `Spec => []NoPhantomReservation`. Inductive with
  `TypeOK`; the argument counts the calls out on an entry before and after a
  step (`TakeOff`, `Landing`).
- `CallCapCorrect`: `Spec => []CallCapHolds`. Not inductive: the cap compares
  the entry's count with a history count, so the strengthening `CountCovers`
  says that what was admitted since the resume never exceeds the entry's calls
  plus reservations plus the slack.
- `RunSpendCorrect`, `KeySpendCorrect`: the spend bounds. The step from "below
  the cap when admitted" to "within one reserve after settling" is nonlinear
  (average cost times calls in flight) and is isolated in the `Within...`
  lemmas, which the action proofs cite.
- `BudgetImplemented`: `Spec => ImplementsBudget`, the refinement. The state maps
  to the set of paused ids, the calls out and the calls decided; with `TypeOK`
  every action of `Controller` is an action of `Budget` or a stutter. A method
  replaces one entry of each map and may evict others; eviction takes active
  entries only and puts active ones in their place, so only the replaced entries
  can change their pause (`Become`). From that, `StopsReached` and `StopsKept`
  give the set the interface allows for a step that may stop something and for
  one that may not.
- `PauseStandsCorrect`, `KeyTallyCorrect`: `Spec => PauseStands` and `Spec =>
  KeyTallyKept`. The entry of a key that a method works on keeps its pause and
  its tallies unless its day has ended (`KeyGrows`, shown first of the look-up and
  then of what caps and settlements make of it); `KeyFollows` says what may become
  of every key in a step.
- `DropsLeastRecentCorrect`: `Spec => DropsLeastRecent`, from the invariant `Seen`
  that no entry was seen later than now: an entry looked up in the same step may
  be the one that is dropped, and is then the most recent of all.
- `OneAlertCorrect`: `Spec => OneAlertPerStop`. Behind the events that wait a step
  appends at most one about its key and one about its run (`TwoStops`).

So every property the runs check of `Controller` is proved.

About `KillSwitch`, for any number of gateways, calls and orders:

- `KillTypeCorrect`: `Spec => []TypeOK`; a call's fallback always exists.
- `FallbackAgreesCorrect`: `Spec => []FallbackAgrees`.
- `KillHoldsCorrect`, `StoreEndsWithLastCorrect`: the two safety promises.
  Neither is inductive. As long as no race of `Races` has happened, every write
  of the switch writes what was ordered last; so where an order of a gateway may
  be taken for landed (it is not dirty, or a write of its newest generation is
  about to clear the mark) the store has it (`Lands`). A gateway whose own order
  engaged the switch keeps it in its mirror (`OnKept`), and a call under way
  since then carries it in whatever it will be decided by (`UnderKept`). These
  with the bound on generations make `KillInv`, which is inductive.

About `SharedCounter`, for any number of gateways, calls, resumes, failures, queue
and batch sizes:

- `SharedTypeCorrect`: `Spec => []TypeOK`.
- `OncePerTokenCorrect`: `Spec => []OncePerToken`.
- `NoSettlementLostCorrect`: `Spec => []NoSettlementLost`.
- `SharedCapCorrect`: `Spec => []SharedCapHolds`.
- `ResumeLandsLastCorrect`: `Spec => []ResumeLandsLast`.

All five follow from one inductive invariant, `SharedInv` (`SharedInvariant`),
which TLC checked before it was proved. Besides `NoSettlementLost` it has four
parts. `SharedType` adds to the types what a thread holds: a fallback its gateway
has built, and the batch a delivery has taken. `Sent` says that a settlement in a
queue or a batch is that of a call that is over, that the store has settled only what
a gateway sent, and that a call a gateway takes for admitted the store has let
through. `Counted` relates the tallies to the tokens: without a resume they are equal
(a resume zeroes them under calls still out), and under the hypotheses of
`SharedCapHolds` held and recorded calls together stay within the cap.
`Ordered` says, of one gateway, in which order the pauses and resumes still on
their way will arrive: after a resume that no pause raced, none that would undo it.
Every step is classified once (`StepIs`) by what it does to the queue and to the
store: it moves a thread, asks, settles, owes, takes a batch, delivers an item or tries
it in vain, drops it or puts the rest back, or leaves both alone. Each part is then shown for the classes, not for the
actions; the lemmas on queues (`Pushed`, `Shifts`, `Splits`) say what an owed
item's place is after each.

About `StoreKeys`, for any number of gateways, clocks that disagree, and failures:

- `KeysTypeCorrect`: `Spec => []TypeOK`.
- `DailyPauseCorrect`, `ListedCorrect`: `Spec => []DailyPauseIsOfItsDay` and
  `Spec => []ListedWhilePaused`. Together with `TypeOK` they are inductive;
  `KeysInv` is their conjunction, split by what a step changes. The scripts are dealt with one
  at a time: a lemma per script says which pauses it makes, keeps or ends
  (`Kept`, `Stands`), and the actions cite it, whether they run the script at
  once, for an owed item, or for a command whose answer is lost.
- `SharedKeyCapCorrect`: `Spec => []SharedKeyCapHolds`. The bound needs to know that
  the average cost never passes the reserve floor, or an admit would compare with
  the average; `CapInv` adds it and is inductive with `KeysInv`. An admit takes the
  room the caps left or is excused, a settlement returns a reservation at least as
  large as what it spends or is excused, and nothing else adds (`Eases`).
- `TotalCorrect`: `Spec => TotalKept`. Every script but the resume's and the
  pause's keeps a pause of the total cap and the total tally (`Steady`).

About `RespPool`, for any number of calls, connections, slots and dial turns:

- `TokensReturned`, `OpenBounded`, `PoolTypeCorrect`: `Spec => []NoTokenLost`,
  `Spec => []OpenBound`, `Spec => []TypeOK`. The invariant `PoolInv` says with them that a call
  that reads or writes has a connection. Every step of a call moves one call
  from one place to another; the lemma `MoveCounts` turns the tokens it takes and
  returns into the two counts. A call that finds the pool empty gets its bound
  from the slots, every other step keeps the sum.
- `AnsweredCorrect`, `RerunsCorrect`: `Spec => []AnsweredOnlyIfRun` and `Spec =>
  []RerunsNeedRestart`. A connection has at most one owner (`Owned`), and what is on
  it is the owner's: one request or one reply, or the other end is gone; and nothing is
  on one that is idle (`Pipes`). So the first reply there is, which is what the client reads, is the
  owner's (`Answered`). A call that may still send has had its script run no more
  often than the store has restarted (`Asking`). `WireInv` joins these with
  `PoolInv`.

About `Gateway`, for any number of calls, runs, keys and operators:

- `GatewayTypeCorrect`: the types of the handler, the budget and the detector.
- `ReservedCorrect`, `RowsCorrect`: `Spec => []ReservedWhileOut` and `Spec =>
  []RowsTellTheTruth`, from the invariant `Accounts`: a call that goes on has no end
  and no row yet, and the rows are those the ends and the recorder say.
- `NoRecentCorrect`: `Spec => []NoRecentCallForgotten`, from `Detects`: what the
  detector keeps of a run are calls of it as they were stamped, and a run was last seen
  no earlier than any of them, but for the lateness. An eviction then loses only what
  the property excuses.
- `FlagsCorrect`: `Spec => FlagsItsWindow`. The calls behind a decision contain what
  `NoRecentCallForgotten` guarantees of the window and are contained in the window
  and the calls ahead; the decision on their requests is `Loops` of the calls, as
  requests are as many as calls and the largest number of equal ones exists; and a
  loop stays one with more calls.
- `HandlerWithinBudget`: `Spec => BudgetSpec /\ []Ready`. The handler takes only the
  steps that `Budget` allows its user, so `BudgetImplemented` applies under it.

About `Books`, with `Usage`, `Ledger` and `Report`, for any answers, catalogues
of rows, calendars, viewers, windows, appends and torn writes:

- `BooksInvariant`: `Spec => []BooksInv`. Not one of the properties: it says that
  only the last piece of the file can be incomplete while a write is in progress,
  that the rows that landed are those whose own piece ends its line, and that the
  file has no more torn pieces than there were tears (`LandedOK`; a torn piece
  spoils at most the one row that follows it), and what a request and the memo know: a memo under key n
  has every row that was on a whole line when the file had n bytes, and the file
  never shrinks, so a request that took the same key finds its rows in it
  (`AsksOK`, `MemoOK`).
- `LostCorrect`, `FreshCorrect`: `Spec => []LostOnlyToTears` and `Spec =>
  AnswersAreFresh`, from that invariant.
- `BarsCorrect`: `Spec => []BarsAddUp`. The proof is arithmetic over sets of rows:
  the bars are the attributable rows grouped by team plus what is unmetered
  (`SumGroups`), the total is the bills plus the priced usage no bill replaces, and
  both are split by month. A month's bar and total differ by the larger of bill and
  replaced usage against the bill, so the sums compare termwise and are equal only
  if every term is (`SumMonotone`).
- `BillCorrect`: `Spec => BillReplacesOnlyItsDays`. A day is in a bill's coverage
  exactly when it is in its bucket (`CoversIsInBucket`), with the cap on days and
  the exclusive end; what a new bill newly covers leaves the total, and no other
  row does (`OneBill`).
- `StreamCorrect`: `Spec => []StreamMetersLikeBody`. The invariant `Reads` says that
  the reader's line is what came since the last newline, or the rest of a line that
  was too long for its buffer, in which no frame begins, and that what it has
  learned is what a body with the frames completed so far would tell (`Told`). One token keeps it
  (`FeedReads`), so does a read of any length (`FedReads`) and the check for an
  overlong line at its end (`WriteReads`).

The sums and the reading of a sequence are folds, that is, recursive functions on
the subsets of a finite set. The library's induction theorems cannot be
instantiated here, but their first-order core can: a set of subsets of a finite
set has a least member (`LeastSubset`), so of the inputs a lemma would fail for
there is a least one. In this way `SumExists` and `ReadExists` show that the
recursive functions exist, `SumUnique` and `ReadUnique` that there is one, and
`SumTakeOut` that a sum does not depend on the order in which CHOOSE picks.

The structure of the proofs is the same throughout: a lemma per action (or script, or class of
steps) says what it does to the fields, the step lemma has a case per action, and the
theorem combines them with PTL.

The assumptions say that sets are finite, bounds are natural, the empty ids are not
ids, and that there is at least one gateway; of the calendar, that days, months and
the cap on a bucket are not empty (`CalendarAssumption`); of the rows, that they are
rows (`BooksAssumption`); and of a stream (`StreamAssumption`), that a frame is a line
of its own that fits the buffer, and that an Anthropic `message_start` counts tokens
other than those written to a cache (see above).

Every safety invariant and action property of the passing runs is proved. Only
model-checked is liveness (`GapEnds`, `OwedLands`, `OrderLands`), because
fairness and ENABLED are outside the prover's reach.

## Not modelled

- In the shared counter: callers' own caps kept in the store (`luaCap`),
  attribution notes, the expiry of records, a command refused for a key, a full
  queue of a key's items; keyed calls that also name a run.
- In the pool: URL parsing and the encoding of replies; liveness, since a caller
  that gives up after one deadline is a legal outcome of every wait.
- In the ledger, report and console: field validation and the derivation of ids
  (the rows are valid and ids unique), grouping by run, key and model, spikes,
  shares of the cache, reconciliation, the drill-down of a run, HTML; a file that
  cannot be looked at (an empty page that leaves the memo alone), its modification
  time in the memo's key (the file only grows, so its size tells its states apart),
  and a reader stopped by a line over 8 MiB.
- In the handler: bodies, headers and status codes.
- Importers, exports (FOCUS, statement, CSV), fetch, owners, identity, alerts,
  seed data and the command line: they parse, format or send and keep no state
  that a step could corrupt. Fetch pages sequentially over HTTP into files; it
  is the candidate for a further model.
