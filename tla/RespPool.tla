------------------------------- MODULE RespPool -------------------------------
(***************************************************************************)
(* The client of the shared store, internal/gateway/resp.go: a pool of     *)
(* connections bounded by slots, opened a few at a time, reused last in    *)
(* first out, and the rule that decides when a command is sent again.      *)
(*                                                                         *)
(* A call is one eval: EVALSHA, and EVAL when the store does not know the  *)
(* script.  The wire format is left out: a connection carries requests one *)
(* way and replies the other, and a reader takes the first reply there is. *)
(* An operator with a suffix after "_" is the operator it precedes with a  *)
(* slip in it, used only to check that the properties would notice.        *)
(***************************************************************************)
EXTENDS Integers, Sequences, FiniteSets

CONSTANTS
  Calls,        \* evals, each made once
  Conns,        \* connections that may exist at once, on either side
  NoConn,
  Slots,        \* capacity of respClient.slots
  Turns,        \* capacity of respClient.dials
  Greetings,    \* AUTH and SELECT commands a fresh connection needs: 0, 1 or 2
  MaxRestarts   \* bound on restarts of the store

ASSUME PoolAssumption ==
  /\ IsFiniteSet(Calls) /\ NoConn \notin Conns
  /\ Slots \in Nat \ {0} /\ Turns \in Nat \ {0}
  /\ Greetings \in 0..2 /\ MaxRestarts \in Nat

VARIABLES
  slots,     \* tokens in the slots channel
  turns,     \* tokens in the dials channel
  idle,      \* respClient.idle
  conn,      \* both ends of every connection
  call,      \* where each call is in eval, do and get
  loaded,    \* the store knows the script
  restarts,
  ran        \* history: how often the store ran the script for a call

vars == <<slots, turns, idle, conn, call, loaded, restarts, ran>>

Commands == {"HELLO", "EVALSHA", "EVAL"}
Request  == [to: Calls, cmd: Commands]
Reply    == [to: Calls, is: {"ok", "noscript", "error"}]

\* mine: the client has it open; peer: the store has.
Conn    == [mine: BOOLEAN, peer: BOOLEAN, inbox: Seq(Request), outbox: Seq(Reply)]
NoPipe  == [mine |-> FALSE, peer |-> FALSE, inbox |-> <<>>, outbox |-> <<>>]
Fresh   == [mine |-> TRUE, peer |-> TRUE, inbox |-> <<>>, outbox |-> <<>>]

Places  == {"slot", "slotwait", "pick", "turn", "turnwait", "dial",
            "send", "read", "put", "drop", "done"}
Results == {"none", "again", "ok", "error", "busy", "failed"}
Call    == [at: Places, cn: Conns \cup {NoConn}, reused: BOOLEAN, greets: 0..2,
            cmd: Commands, result: Results]
NewCall == [at |-> "slot", cn |-> NoConn, reused |-> FALSE, greets |-> 0,
            cmd |-> "EVALSHA", result |-> "none"]

TypeOK ==
  /\ slots \in 0..Slots /\ turns \in 0..Turns
  /\ idle \in Seq(Conns)
  /\ conn \in [Conns -> Conn]
  /\ call \in [Calls -> Call]
  /\ loaded \in BOOLEAN /\ restarts \in 0..MaxRestarts
  /\ ran \in [Calls -> Nat]

Init ==
  /\ slots = 0 /\ turns = 0 /\ idle = <<>>
  /\ conn = [cn \in Conns |-> NoPipe]
  /\ call = [c \in Calls |-> NewCall]
  /\ loaded = FALSE /\ restarts = 0
  /\ ran = [c \in Calls |-> 0]

At(c, where) == call[c].at = where
Goto(c, where) == call' = [call EXCEPT ![c].at = where]
End(c, result) == call' = [call EXCEPT ![c].at = "done", ![c].result = result]

\* Where a call goes when it has returned its slot: round again in do, to the
\* second command of eval, or to its end.
After(result) == IF result = "again" THEN "slot" ELSE "done"

-----------------------------------------------------------------------------
(* get. *)

\* acquire(slots): at once if there is room, else a wait of one deadline.
SlotTaken(c) ==
  /\ call[c].at \in {"slot", "slotwait"} /\ slots < Slots
  /\ slots' = slots + 1
  /\ Goto(c, "pick")
  /\ UNCHANGED <<turns, idle, conn, loaded, restarts, ran>>

SlotWait(c) ==
  /\ At(c, "slot") /\ slots = Slots
  /\ Goto(c, "slotwait")
  /\ UNCHANGED <<slots, turns, idle, conn, loaded, restarts, ran>>

SlotTimeout(c) ==
  /\ At(c, "slotwait")
  /\ End(c, "busy")
  /\ UNCHANGED <<slots, turns, idle, conn, loaded, restarts, ran>>

\* The connection used last is taken first.
PickIdle(c) ==
  /\ At(c, "pick") /\ idle # <<>>
  /\ idle' = SubSeq(idle, 1, Len(idle) - 1)
  /\ call' = [call EXCEPT ![c].at = "send", ![c].cn = idle[Len(idle)], ![c].reused = TRUE]
  /\ UNCHANGED <<slots, turns, conn, loaded, restarts, ran>>

PickNone(c) ==
  /\ At(c, "pick") /\ idle = <<>>
  /\ Goto(c, "turn")
  /\ UNCHANGED <<slots, turns, idle, conn, loaded, restarts, ran>>

TurnTaken(c) ==
  /\ call[c].at \in {"turn", "turnwait"} /\ turns < Turns
  /\ turns' = turns + 1
  /\ Goto(c, "dial")
  /\ UNCHANGED <<slots, idle, conn, loaded, restarts, ran>>

TurnWait(c) ==
  /\ At(c, "turn") /\ turns = Turns
  /\ Goto(c, "turnwait")
  /\ UNCHANGED <<slots, turns, idle, conn, loaded, restarts, ran>>

\* Slip: a turn that was never taken is given back.
TurnTimeout_GivesTurn(c) ==
  /\ At(c, "turnwait")
  /\ slots' = slots - 1 /\ turns' = turns - 1
  /\ End(c, "busy")
  /\ UNCHANGED <<idle, conn, loaded, restarts, ran>>

TurnTimeout(c) ==
  /\ At(c, "turnwait")
  /\ slots' = slots - 1
  /\ End(c, "busy")
  /\ UNCHANGED <<turns, idle, conn, loaded, restarts, ran>>

\* An id that neither end uses any more stands for a new connection.
Unused(cn) == ~conn[cn].mine /\ (~conn[cn].peer \/ conn[cn].inbox = <<>>)

\* The dial returns and its turn is given back.
Dialed(c) ==
  /\ At(c, "dial")
  /\ turns' = turns - 1
  /\ \E cn \in Conns :
       /\ Unused(cn)
       /\ conn' = [conn EXCEPT ![cn] = Fresh]
       /\ call' = [call EXCEPT ![c].at = "send", ![c].cn = cn, ![c].reused = FALSE,
                               ![c].greets = Greetings]
  /\ UNCHANGED <<slots, idle, loaded, restarts, ran>>

\* Slip: a failed dial returns without drop.
DialFails_KeepsSlot(c) ==
  /\ At(c, "dial")
  /\ turns' = turns - 1
  /\ End(c, "failed")
  /\ UNCHANGED <<slots, idle, conn, loaded, restarts, ran>>

DialFails(c) ==
  /\ At(c, "dial")
  /\ turns' = turns - 1 /\ slots' = slots - 1
  /\ End(c, "failed")
  /\ UNCHANGED <<idle, conn, loaded, restarts, ran>>

-----------------------------------------------------------------------------
(* doOn: a command is written and its reply read before one deadline. *)

\* What the call writes next: a greeting of a fresh connection, or its own.
Says(c) == IF call[c].greets > 0 THEN "HELLO" ELSE call[c].cmd

Send(c) ==
  /\ At(c, "send")
  /\ Goto(c, "read")
  /\ conn' = [conn EXCEPT ![call[c].cn].inbox =
                IF conn[call[c].cn].peer THEN Append(@, [to |-> c, cmd |-> Says(c)]) ELSE @]
  /\ UNCHANGED <<slots, turns, idle, loaded, restarts, ran>>

\* A reply to a greeting.
Greeted(c) ==
  LET cn == call[c].cn IN
  /\ At(c, "read") /\ call[c].greets > 0
  /\ conn[cn].outbox # <<>> /\ Head(conn[cn].outbox).is = "ok"
  /\ call' = [call EXCEPT ![c].at = "send", ![c].greets = @ - 1]
  /\ conn' = [conn EXCEPT ![cn].outbox = Tail(@)]
  /\ UNCHANGED <<slots, turns, idle, loaded, restarts, ran>>

\* A reply to the command: the connection is good for another call.  A script
\* the store does not know is sent whole, on whatever connection get returns.
Read(c) ==
  LET cn == call[c].cn
      is == Head(conn[cn].outbox).is
      unknown == is = "noscript" /\ call[c].cmd = "EVALSHA"
  IN
  /\ At(c, "read") /\ call[c].greets = 0
  /\ conn[cn].outbox # <<>>
  /\ call' = [call EXCEPT ![c].at = "put",
                          ![c].cmd = IF unknown THEN "EVAL" ELSE @,
                          ![c].result = IF unknown THEN "again" ELSE IF is = "ok" THEN "ok" ELSE "error"]
  /\ conn' = [conn EXCEPT ![cn].outbox = Tail(@)]
  /\ UNCHANGED <<slots, turns, idle, loaded, restarts, ran>>

\* discard: the client closes its end and returns the slot.
Discard(c, result) ==
  /\ conn' = [conn EXCEPT ![call[c].cn].mine = FALSE, ![call[c].cn].outbox = <<>>]
  /\ slots' = slots - 1
  /\ call' = [call EXCEPT ![c].at = After(result), ![c].cn = NoConn, ![c].reused = FALSE,
                          ![c].greets = 0, ![c].result = result]
  /\ UNCHANGED <<turns, idle, loaded, restarts, ran>>

GreetingRefused(c) ==
  /\ At(c, "read") /\ call[c].greets > 0
  /\ conn[call[c].cn].outbox # <<>> /\ Head(conn[call[c].cn].outbox).is # "ok"
  /\ Discard(c, "error")

\* The other side is gone: staleRead.  Only a reused connection is retried.
ReadEnds(c) ==
  /\ At(c, "read")
  /\ ~conn[call[c].cn].peer /\ conn[call[c].cn].outbox = <<>>
  /\ Discard(c, IF call[c].reused THEN "again" ELSE "failed")

\* Slip: a connection whose reply did not come in time goes back to the pool.
ReadTimeout_PutBack(c) ==
  /\ At(c, "read")
  /\ call' = [call EXCEPT ![c].at = "put", ![c].greets = 0, ![c].result = "failed"]
  /\ UNCHANGED <<slots, turns, idle, conn, loaded, restarts, ran>>

\* Slip: a timeout on a reused connection is taken for a stale one.
ReadTimeout_Retried(c) ==
  /\ At(c, "read")
  /\ Discard(c, IF call[c].reused THEN "again" ELSE "failed")

\* The deadline: the command may well run later.
ReadTimeout(c) ==
  /\ At(c, "read")
  /\ Discard(c, "failed")

-----------------------------------------------------------------------------
(* put: first into the pool, then the slot. *)

\* Slip: the slot is free before the connection is back in the pool.
Put_SlotFirst(c) ==
  \/ /\ At(c, "put")
     /\ slots' = slots - 1 /\ Goto(c, "drop")
     /\ UNCHANGED <<turns, idle, conn, loaded, restarts, ran>>
  \/ /\ At(c, "drop")
     /\ idle' = Append(idle, call[c].cn)
     /\ call' = [call EXCEPT ![c].at = After(call[c].result), ![c].cn = NoConn]
     /\ UNCHANGED <<slots, turns, conn, loaded, restarts, ran>>

Put(c) ==
  /\ At(c, "put")
  /\ idle' = Append(idle, call[c].cn)
  /\ call' = [call EXCEPT ![c].at = "drop", ![c].cn = NoConn, ![c].reused = FALSE]
  /\ UNCHANGED <<slots, turns, conn, loaded, restarts, ran>>

Drop(c) ==
  /\ At(c, "drop") /\ call[c].cn = NoConn
  /\ slots' = slots - 1
  /\ Goto(c, After(call[c].result))
  /\ UNCHANGED <<turns, idle, conn, loaded, restarts, ran>>

-----------------------------------------------------------------------------
(* The store.  External: what resp.go relies on. *)

\* The first request of a connection is taken; the script runs unless the
\* store does not know it or refuses the command.  A client that has closed
\* its end reads no reply.
Serve(cn) ==
  /\ conn[cn].peer /\ conn[cn].inbox # <<>>
  /\ \E is \in {"ok", "noscript", "error"} :
       LET q == Head(conn[cn].inbox)
           runs == is = "ok" /\ q.cmd # "HELLO"
       IN
       /\ q.cmd = "EVALSHA" => (is = "noscript") = (~loaded /\ is # "error")
       /\ q.cmd # "EVALSHA" => is # "noscript"
       /\ loaded' = (loaded \/ (q.cmd = "EVAL" /\ runs))
       /\ ran' = [ran EXCEPT ![q.to] = IF runs THEN @ + 1 ELSE @]
       /\ conn' = [conn EXCEPT ![cn].inbox = Tail(@),
                     ![cn].outbox = IF conn[cn].mine THEN Append(@, [to |-> q.to, is |-> is]) ELSE @]
  /\ UNCHANGED <<slots, turns, idle, call, restarts>>

\* The store ends a connection on which nothing is under way.
CloseIdle(cn) ==
  /\ conn[cn].peer /\ conn[cn].inbox = <<>> /\ conn[cn].outbox = <<>>
  /\ conn' = [conn EXCEPT ![cn].peer = FALSE]
  /\ UNCHANGED <<slots, turns, idle, call, loaded, restarts, ran>>

\* The store restarts without its scripts: requests it has not served are
\* gone, and so are the replies on the connections of Lost.
Restart(Lost) ==
  /\ restarts < MaxRestarts
  /\ restarts' = restarts + 1
  /\ loaded' = FALSE
  /\ conn' = [cn \in Conns |->
                [conn[cn] EXCEPT !.peer = FALSE, !.inbox = <<>>,
                                 !.outbox = IF cn \in Lost THEN <<>> ELSE @]]
  /\ UNCHANGED <<slots, turns, idle, call, ran>>

Get(c) ==
  \/ SlotTaken(c) \/ SlotWait(c) \/ SlotTimeout(c)
  \/ PickIdle(c) \/ PickNone(c)
  \/ TurnTaken(c) \/ TurnWait(c) \/ TurnTimeout(c)
  \/ Dialed(c) \/ DialFails(c)

Do(c) ==
  \/ Send(c) \/ Greeted(c) \/ Read(c)
  \/ GreetingRefused(c) \/ ReadEnds(c) \/ ReadTimeout(c)
  \/ Put(c) \/ Drop(c)

Finished == \A c \in Calls : At(c, "done")

Next ==
  \/ \E c \in Calls : Get(c) \/ Do(c)
  \/ \E cn \in Conns : Serve(cn) \/ CloseIdle(cn)
  \/ \E Lost \in SUBSET Conns : Restart(Lost)
  \/ Finished /\ UNCHANGED vars

Spec == Init /\ [][Next]_vars

-----------------------------------------------------------------------------
(* Safety. *)

\* Calls that hold a connection or are on their way to opening one.
Connecting == {c \in Calls : call[c].at \in
                 {"turn", "turnwait", "dial", "send", "read", "put"}}

\* Idle, used and opening connections never exceed the slots, though a slot is
\* given back while its connection stays open in the pool: put appends first
\* and releases second, and get opens one only when it found the pool empty.
OpenBound == Len(idle) + Cardinality(Connecting) <= Slots

\* The calls between acquire(slots) and the token's return.
Holders == {c \in Calls : call[c].at \in
              {"pick", "turn", "turnwait", "dial", "send", "read", "put", "drop"}}

\* No way through get, do and eval loses a token or returns one twice, so the
\* pool does not shrink with every failed dial, refused greeting or timeout,
\* until every later call is refused as busy.
NoTokenLost ==
  /\ slots = Cardinality(Holders)
  /\ turns = Cardinality({c \in Calls : At(c, "dial")})

\* An answer that reaches a caller is the answer to its own command: a call
\* that returned ok has had its script run by the store.  No connection with
\* a reply still to come is ever given to another call.
AnsweredOnlyIfRun == \A c \in Calls : call[c].result = "ok" => ran[c] > 0

\* do sends again only what a connection that ended may not have run; only a
\* restart can end one after the command ran, so without restarts a script
\* runs at most once per call, timeouts and retries notwithstanding.
RerunsNeedRestart == \A c \in Calls : ran[c] <= 1 + restarts
=============================================================================
