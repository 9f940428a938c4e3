---------------------------- MODULE RespPoolProofs ----------------------------
(***************************************************************************)
(* Proofs about RespPool.tla for any number of calls, connections, slots   *)
(* and dial turns: the pool's two counters count what they should, the     *)
(* connections stay bounded, an answer belongs to the call that reads it,  *)
(* and a script runs again only after a restart of the store.              *)
(***************************************************************************)
EXTENDS RespPool, FiniteSetTheorems, SequenceTheorems, TLAPS

One(b) == IF b THEN 1 ELSE 0

ConnectPlaces == {"turn", "turnwait", "dial", "send", "read", "put"}
HoldPlaces    == {"pick", "turn", "turnwait", "dial", "send", "read", "put", "drop"}

\* The calls that are at one of the places of P.
Within(P) == {c \in Calls : call[c].at \in P}

\* A call that writes, reads or puts back has a connection.
UsesConn == \A c \in Calls : call[c].at \in {"send", "read", "put"} => call[c].cn \in Conns

PoolInv == TypeOK /\ UsesConn /\ NoTokenLost /\ OpenBound

LEMMA CountsAsPlaces ==
  /\ NoTokenLost <=> slots = Cardinality(Within(HoldPlaces)) /\ turns = Cardinality(Within({"dial"}))
  /\ OpenBound <=> Len(idle) + Cardinality(Within(ConnectPlaces)) <= Slots
<1>1. Holders = Within(HoldPlaces) /\ Connecting = Within(ConnectPlaces)
  BY DEF Holders, Connecting, Within, HoldPlaces, ConnectPlaces
<1>2. {c \in Calls : At(c, "dial")} = Within({"dial"})
  BY DEF At, Within
<1> QED
  BY <1>1, <1>2 DEF NoTokenLost, OpenBound

LEMMA WithinFinite ==
  ASSUME NEW P
  PROVE  IsFiniteSet(Within(P)) /\ Cardinality(Within(P)) \in Nat
BY PoolAssumption, FS_Subset, FS_CardinalityType DEF Within

\* The call c goes to q and no other call moves.
Goes(c, q) == \A d \in Calls : call'[d].at = IF d = c THEN q ELSE call[d].at

LEMMA CountMoves ==
  ASSUME NEW c \in Calls, NEW q, Goes(c, q), NEW P
  PROVE  /\ IsFiniteSet(Within(P)') /\ Cardinality(Within(P)') \in Nat
         /\ Cardinality(Within(P)') =
              Cardinality(Within(P)) + One(q \in P) - One(call[c].at \in P)
<1>1. IsFiniteSet(Within(P)) /\ Cardinality(Within(P)) \in Nat
  BY WithinFinite
<1>2. CASE q \in P
  <2>1. Within(P)' = Within(P) \cup {c} /\ (c \in Within(P) <=> call[c].at \in P)
    BY <1>2 DEF Goes, Within
  <2> QED
    BY <1>1, <1>2, <2>1, FS_AddElement, FS_CardinalityType DEF One
<1>3. CASE q \notin P
  <2>1. Within(P)' = Within(P) \ {c} /\ (c \in Within(P) <=> call[c].at \in P)
    BY <1>3 DEF Goes, Within
  <2>2. /\ IsFiniteSet(Within(P) \ {c})
        /\ Cardinality(Within(P) \ {c}) =
             IF c \in Within(P) THEN Cardinality(Within(P)) - 1 ELSE Cardinality(Within(P))
    BY <1>1, FS_RemoveElement
  <2>3. IsFiniteSet(Within(P)') /\ Cardinality(Within(P)') \in Nat
    BY <2>1, <2>2, FS_CardinalityType
  <2> QED
    BY <1>1, <1>3, <2>1, <2>2, <2>3 DEF One
<1> QED
  BY <1>2, <1>3

\* A step of one call keeps the counters, the bound and the types of both if
\* it takes and returns tokens as the places it leaves and enters say, and if
\* what it adds to the pool and to the connections in use is none, or the pool
\* is empty.
LEMMA MoveCounts ==
  ASSUME PoolInv, NEW c \in Calls, NEW q, Goes(c, q),
         slots' = slots + One(q \in HoldPlaces) - One(call[c].at \in HoldPlaces),
         turns' = turns + One(q \in {"dial"}) - One(call[c].at \in {"dial"}),
         slots' <= Slots, turns' <= Turns,
         idle' \in Seq(Conns),
         \/ Len(idle') + One(q \in ConnectPlaces) - One(call[c].at \in ConnectPlaces) <= Len(idle)
         \/ idle' = <<>>
  PROVE  /\ slots' \in 0..Slots /\ turns' \in 0..Turns
         /\ NoTokenLost' /\ OpenBound'
<1>1. /\ slots = Cardinality(Within(HoldPlaces)) /\ turns = Cardinality(Within({"dial"}))
      /\ Len(idle) + Cardinality(Within(ConnectPlaces)) <= Slots
  BY CountsAsPlaces DEF PoolInv
<1>2. slots' = Cardinality(Within(HoldPlaces)') /\ Cardinality(Within(HoldPlaces)') \in Nat
  BY <1>1, CountMoves
<1>3. turns' = Cardinality(Within({"dial"})') /\ Cardinality(Within({"dial"})') \in Nat
  BY <1>1, CountMoves
<1>4. /\ Cardinality(Within(ConnectPlaces)') \in Nat
      /\ Cardinality(Within(ConnectPlaces)') =
           Cardinality(Within(ConnectPlaces)) + One(q \in ConnectPlaces)
             - One(call[c].at \in ConnectPlaces)
  BY CountMoves
<1>5. Cardinality(Within(ConnectPlaces)) \in Nat
  BY WithinFinite
<1>6. Slots \in Nat /\ Turns \in Nat /\ Len(idle) \in Nat /\ Len(idle') \in Nat
  BY PoolAssumption DEF PoolInv, TypeOK
<1>7. Len(idle') + Cardinality(Within(ConnectPlaces)') <= Slots
  <2>1. CASE Len(idle') + One(q \in ConnectPlaces) - One(call[c].at \in ConnectPlaces) <= Len(idle)
    BY <1>1, <1>4, <1>5, <1>6, <2>1 DEF One
  <2>2. CASE idle' = <<>>
    <3>1. Within(ConnectPlaces)' \subseteq Within(HoldPlaces)'
      BY DEF Within, ConnectPlaces, HoldPlaces
    <3>2. Cardinality(Within(ConnectPlaces)') <= Cardinality(Within(HoldPlaces)')
      BY <3>1, CountMoves, FS_Subset
    <3> QED
      BY <1>2, <1>4, <1>6, <2>2, <3>2
  <2> QED
    BY <2>1, <2>2
<1>8. Holders' = Within(HoldPlaces)' /\ Connecting' = Within(ConnectPlaces)'
  BY DEF Holders, Connecting, Within, HoldPlaces, ConnectPlaces
<1>9. {d \in Calls : At(d, "dial")}' = Within({"dial"})'
  BY DEF At, Within
<1> QED
  <2>1. NoTokenLost'
    BY <1>2, <1>3, <1>8, <1>9 DEF NoTokenLost
  <2>2. OpenBound'
    BY <1>7, <1>8 DEF OpenBound
  <2>3. slots' \in 0..Slots /\ turns' \in 0..Turns
    BY <1>2, <1>3, <1>6
  <2> QED
    BY <2>1, <2>2, <2>3

-----------------------------------------------------------------------------
(* Changing one field of a connection or a call keeps its type. *)

LEMMA ConnWith ==
  ASSUME NEW k \in Conn
  PROVE  /\ [k EXCEPT !.mine = FALSE] \in Conn /\ [k EXCEPT !.peer = FALSE] \in Conn
         /\ \A i \in Seq(Request) : [k EXCEPT !.inbox = i] \in Conn
         /\ \A o \in Seq(Reply) : [k EXCEPT !.outbox = o] \in Conn
BY DEF Conn

LEMMA CallWith ==
  ASSUME NEW r \in Call
  PROVE  /\ \A at \in Places : [r EXCEPT !.at = at] \in Call
         /\ \A cn \in Conns \cup {NoConn} : [r EXCEPT !.cn = cn] \in Call
         /\ [r EXCEPT !.reused = FALSE] \in Call
         /\ \A n \in 0..2 : [r EXCEPT !.greets = n] \in Call
         /\ \A result \in Results : [r EXCEPT !.result = result] \in Call
BY DEF Call

LEMMA Empties == <<>> \in Seq(Request) /\ <<>> \in Seq(Reply)
OBVIOUS

-----------------------------------------------------------------------------
(* The steps of a call. *)

\* The rest of the state keeps its type.
Aside ==
  /\ conn' \in [Conns -> Conn] /\ loaded' \in BOOLEAN
  /\ restarts' \in 0..MaxRestarts /\ ran' \in [Calls -> Nat]

LEMMA AsideUnchanged ==
  ASSUME PoolInv, UNCHANGED <<loaded, restarts, ran>>
  PROVE  /\ loaded' \in BOOLEAN /\ restarts' \in 0..MaxRestarts /\ ran' \in [Calls -> Nat]
         /\ UNCHANGED conn => Aside
BY DEF PoolInv, TypeOK, Aside

\* A step in which the call c becomes r, as in MoveCounts, keeps the invariant.
LEMMA CallBecomes ==
  ASSUME PoolInv, NEW c \in Calls, NEW r \in Call,
         call' = [call EXCEPT ![c] = r],
         r.at \in {"send", "read", "put"} => r.cn \in Conns,
         slots' = slots + One(r.at \in HoldPlaces) - One(call[c].at \in HoldPlaces),
         turns' = turns + One(r.at \in {"dial"}) - One(call[c].at \in {"dial"}),
         slots' <= Slots, turns' <= Turns,
         idle' \in Seq(Conns),
         \/ Len(idle') + One(r.at \in ConnectPlaces) - One(call[c].at \in ConnectPlaces) <= Len(idle)
         \/ idle' = <<>>,
         Aside
  PROVE  PoolInv'
<1>1. call \in [Calls -> Call] /\ UsesConn
  BY DEF PoolInv, TypeOK
<1>2. call' \in [Calls -> Call] /\ \A d \in Calls : call'[d] = IF d = c THEN r ELSE call[d]
  BY <1>1
<1>3. Goes(c, r.at)
  BY <1>2 DEF Goes
<1>4. UsesConn'
  BY <1>1, <1>2 DEF UsesConn
<1>5. slots' \in 0..Slots /\ turns' \in 0..Turns /\ NoTokenLost' /\ OpenBound'
  BY <1>3, MoveCounts
<1> QED
  BY <1>2, <1>4, <1>5 DEF PoolInv, TypeOK, Aside

\* What the invariant says of one call, and of the counters when a call holds
\* a token: it is there to be returned.
LEMMA CallFields ==
  ASSUME PoolInv, NEW c \in Calls
  PROVE  /\ call[c] \in Call /\ call \in [Calls -> Call]
         /\ call[c].at \in {"send", "read", "put"} => call[c].cn \in Conns
         /\ slots \in Nat /\ turns \in Nat /\ slots <= Slots /\ turns <= Turns
         /\ Slots \in Nat /\ Turns \in Nat
         /\ idle \in Seq(Conns) /\ Len(idle) \in Nat
         /\ conn \in [Conns -> Conn]
BY PoolAssumption DEF PoolInv, TypeOK, UsesConn

LEMMA SlotTakenKeeps ==
  ASSUME PoolInv, NEW c \in Calls, SlotTaken(c)
  PROVE  PoolInv'
<1> DEFINE r == [call[c] EXCEPT !.at = "pick"]
<1>1. Aside
  BY AsideUnchanged DEF SlotTaken
<1>2. r \in Call /\ call' = [call EXCEPT ![c] = r]
  BY CallFields DEF SlotTaken, Goto, Call, Places, Results, Commands
<1>3. r.at \in {"send", "read", "put"} => r.cn \in Conns
  BY CallFields DEF SlotTaken
<1>4. /\ slots' = slots + One(r.at \in HoldPlaces) - One(call[c].at \in HoldPlaces)
      /\ turns' = turns + One(r.at \in {"dial"}) - One(call[c].at \in {"dial"})
      /\ slots' <= Slots /\ turns' <= Turns
  BY CallFields DEF SlotTaken, At, One, HoldPlaces
<1>5. /\ idle' \in Seq(Conns)
      /\ \/ Len(idle') + One(r.at \in ConnectPlaces) - One(call[c].at \in ConnectPlaces) <= Len(idle)
         \/ idle' = <<>>
  BY CallFields DEF SlotTaken, At, One, ConnectPlaces
<1> HIDE DEF r
<1> QED
  BY <1>1, <1>2, <1>3, <1>4, <1>5, CallBecomes

LEMMA SlotWaitKeeps ==
  ASSUME PoolInv, NEW c \in Calls, SlotWait(c)
  PROVE  PoolInv'
<1> DEFINE r == [call[c] EXCEPT !.at = "slotwait"]
<1>1. Aside
  BY AsideUnchanged DEF SlotWait
<1>2. r \in Call /\ call' = [call EXCEPT ![c] = r]
  BY CallFields DEF SlotWait, Goto, Call, Places, Results, Commands
<1>3. r.at \in {"send", "read", "put"} => r.cn \in Conns
  BY CallFields DEF SlotWait
<1>4. /\ slots' = slots + One(r.at \in HoldPlaces) - One(call[c].at \in HoldPlaces)
      /\ turns' = turns + One(r.at \in {"dial"}) - One(call[c].at \in {"dial"})
      /\ slots' <= Slots /\ turns' <= Turns
  BY CallFields DEF SlotWait, At, One, HoldPlaces
<1>5. /\ idle' \in Seq(Conns)
      /\ \/ Len(idle') + One(r.at \in ConnectPlaces) - One(call[c].at \in ConnectPlaces) <= Len(idle)
         \/ idle' = <<>>
  BY CallFields DEF SlotWait, At, One, ConnectPlaces
<1> HIDE DEF r
<1> QED
  BY <1>1, <1>2, <1>3, <1>4, <1>5, CallBecomes

LEMMA SlotTimeoutKeeps ==
  ASSUME PoolInv, NEW c \in Calls, SlotTimeout(c)
  PROVE  PoolInv'
<1> DEFINE r == [call[c] EXCEPT !.at = "done", !.result = "busy"]
<1>1. Aside
  BY AsideUnchanged DEF SlotTimeout
<1>2. r \in Call /\ call' = [call EXCEPT ![c] = r]
  BY CallFields DEF SlotTimeout, End, Call, Places, Results, Commands
<1>3. r.at \in {"send", "read", "put"} => r.cn \in Conns
  BY CallFields DEF SlotTimeout
<1>4. /\ slots' = slots + One(r.at \in HoldPlaces) - One(call[c].at \in HoldPlaces)
      /\ turns' = turns + One(r.at \in {"dial"}) - One(call[c].at \in {"dial"})
      /\ slots' <= Slots /\ turns' <= Turns
  BY CallFields DEF SlotTimeout, At, One, HoldPlaces
<1>5. /\ idle' \in Seq(Conns)
      /\ \/ Len(idle') + One(r.at \in ConnectPlaces) - One(call[c].at \in ConnectPlaces) <= Len(idle)
         \/ idle' = <<>>
  BY CallFields DEF SlotTimeout, At, One, ConnectPlaces
<1> HIDE DEF r
<1> QED
  BY <1>1, <1>2, <1>3, <1>4, <1>5, CallBecomes

LEMMA PickIdleKeeps ==
  ASSUME PoolInv, NEW c \in Calls, PickIdle(c)
  PROVE  PoolInv'
<1> DEFINE r == [call[c] EXCEPT !.at = "send", !.cn = idle[Len(idle)], !.reused = TRUE]
<1>1. Aside
  BY AsideUnchanged DEF PickIdle
<1>0. idle[Len(idle)] \in Conns
  BY CallFields DEF PickIdle
<1>2. r \in Call /\ call' = [call EXCEPT ![c] = r]
  BY <1>0, CallFields DEF PickIdle, Call, Places
<1>3. r.at \in {"send", "read", "put"} => r.cn \in Conns
  BY CallFields DEF PickIdle, At
<1>4. /\ slots' = slots + One(r.at \in HoldPlaces) - One(call[c].at \in HoldPlaces)
      /\ turns' = turns + One(r.at \in {"dial"}) - One(call[c].at \in {"dial"})
      /\ slots' <= Slots /\ turns' <= Turns
  BY CallFields DEF PickIdle, At, One, HoldPlaces
<1>5. /\ idle' \in Seq(Conns)
      /\ \/ Len(idle') + One(r.at \in ConnectPlaces) - One(call[c].at \in ConnectPlaces) <= Len(idle)
         \/ idle' = <<>>
  BY CallFields DEF PickIdle, At, One, ConnectPlaces
<1> HIDE DEF r
<1> QED
  BY <1>1, <1>2, <1>3, <1>4, <1>5, CallBecomes

LEMMA PickNoneKeeps ==
  ASSUME PoolInv, NEW c \in Calls, PickNone(c)
  PROVE  PoolInv'
<1> DEFINE r == [call[c] EXCEPT !.at = "turn"]
<1>1. Aside
  BY AsideUnchanged DEF PickNone
<1>2. r \in Call /\ call' = [call EXCEPT ![c] = r]
  BY CallFields DEF PickNone, Goto, Call, Places, Results, Commands
<1>3. r.at \in {"send", "read", "put"} => r.cn \in Conns
  BY CallFields DEF PickNone
<1>4. /\ slots' = slots + One(r.at \in HoldPlaces) - One(call[c].at \in HoldPlaces)
      /\ turns' = turns + One(r.at \in {"dial"}) - One(call[c].at \in {"dial"})
      /\ slots' <= Slots /\ turns' <= Turns
  BY CallFields DEF PickNone, At, One, HoldPlaces
<1>5. /\ idle' \in Seq(Conns)
      /\ \/ Len(idle') + One(r.at \in ConnectPlaces) - One(call[c].at \in ConnectPlaces) <= Len(idle)
         \/ idle' = <<>>
  BY CallFields DEF PickNone, At, One, ConnectPlaces
<1> HIDE DEF r
<1> QED
  BY <1>1, <1>2, <1>3, <1>4, <1>5, CallBecomes

LEMMA TurnTakenKeeps ==
  ASSUME PoolInv, NEW c \in Calls, TurnTaken(c)
  PROVE  PoolInv'
<1> DEFINE r == [call[c] EXCEPT !.at = "dial"]
<1>1. Aside
  BY AsideUnchanged DEF TurnTaken
<1>2. r \in Call /\ call' = [call EXCEPT ![c] = r]
  BY CallFields DEF TurnTaken, Goto, Call, Places, Results, Commands
<1>3. r.at \in {"send", "read", "put"} => r.cn \in Conns
  BY CallFields DEF TurnTaken
<1>4. /\ slots' = slots + One(r.at \in HoldPlaces) - One(call[c].at \in HoldPlaces)
      /\ turns' = turns + One(r.at \in {"dial"}) - One(call[c].at \in {"dial"})
      /\ slots' <= Slots /\ turns' <= Turns
  BY CallFields DEF TurnTaken, At, One, HoldPlaces
<1>5. /\ idle' \in Seq(Conns)
      /\ \/ Len(idle') + One(r.at \in ConnectPlaces) - One(call[c].at \in ConnectPlaces) <= Len(idle)
         \/ idle' = <<>>
  BY CallFields DEF TurnTaken, At, One, ConnectPlaces
<1> HIDE DEF r
<1> QED
  BY <1>1, <1>2, <1>3, <1>4, <1>5, CallBecomes

LEMMA TurnWaitKeeps ==
  ASSUME PoolInv, NEW c \in Calls, TurnWait(c)
  PROVE  PoolInv'
<1> DEFINE r == [call[c] EXCEPT !.at = "turnwait"]
<1>1. Aside
  BY AsideUnchanged DEF TurnWait
<1>2. r \in Call /\ call' = [call EXCEPT ![c] = r]
  BY CallFields DEF TurnWait, Goto, Call, Places, Results, Commands
<1>3. r.at \in {"send", "read", "put"} => r.cn \in Conns
  BY CallFields DEF TurnWait
<1>4. /\ slots' = slots + One(r.at \in HoldPlaces) - One(call[c].at \in HoldPlaces)
      /\ turns' = turns + One(r.at \in {"dial"}) - One(call[c].at \in {"dial"})
      /\ slots' <= Slots /\ turns' <= Turns
  BY CallFields DEF TurnWait, At, One, HoldPlaces
<1>5. /\ idle' \in Seq(Conns)
      /\ \/ Len(idle') + One(r.at \in ConnectPlaces) - One(call[c].at \in ConnectPlaces) <= Len(idle)
         \/ idle' = <<>>
  BY CallFields DEF TurnWait, At, One, ConnectPlaces
<1> HIDE DEF r
<1> QED
  BY <1>1, <1>2, <1>3, <1>4, <1>5, CallBecomes

LEMMA TurnTimeoutKeeps ==
  ASSUME PoolInv, NEW c \in Calls, TurnTimeout(c)
  PROVE  PoolInv'
<1> DEFINE r == [call[c] EXCEPT !.at = "done", !.result = "busy"]
<1>1. Aside
  BY AsideUnchanged DEF TurnTimeout
<1>2. r \in Call /\ call' = [call EXCEPT ![c] = r]
  BY CallFields DEF TurnTimeout, End, Call, Places, Results, Commands
<1>3. r.at \in {"send", "read", "put"} => r.cn \in Conns
  BY CallFields DEF TurnTimeout
<1>4. /\ slots' = slots + One(r.at \in HoldPlaces) - One(call[c].at \in HoldPlaces)
      /\ turns' = turns + One(r.at \in {"dial"}) - One(call[c].at \in {"dial"})
      /\ slots' <= Slots /\ turns' <= Turns
  BY CallFields DEF TurnTimeout, At, One, HoldPlaces
<1>5. /\ idle' \in Seq(Conns)
      /\ \/ Len(idle') + One(r.at \in ConnectPlaces) - One(call[c].at \in ConnectPlaces) <= Len(idle)
         \/ idle' = <<>>
  BY CallFields DEF TurnTimeout, At, One, ConnectPlaces
<1> HIDE DEF r
<1> QED
  BY <1>1, <1>2, <1>3, <1>4, <1>5, CallBecomes

LEMMA DialFailsKeeps ==
  ASSUME PoolInv, NEW c \in Calls, DialFails(c)
  PROVE  PoolInv'
<1> DEFINE r == [call[c] EXCEPT !.at = "done", !.result = "failed"]
<1>1. Aside
  BY AsideUnchanged DEF DialFails
<1>2. r \in Call /\ call' = [call EXCEPT ![c] = r]
  BY CallFields DEF DialFails, End, Call, Places, Results, Commands
<1>3. r.at \in {"send", "read", "put"} => r.cn \in Conns
  BY CallFields DEF DialFails
<1>4. /\ slots' = slots + One(r.at \in HoldPlaces) - One(call[c].at \in HoldPlaces)
      /\ turns' = turns + One(r.at \in {"dial"}) - One(call[c].at \in {"dial"})
      /\ slots' <= Slots /\ turns' <= Turns
  BY CallFields DEF DialFails, At, One, HoldPlaces
<1>5. /\ idle' \in Seq(Conns)
      /\ \/ Len(idle') + One(r.at \in ConnectPlaces) - One(call[c].at \in ConnectPlaces) <= Len(idle)
         \/ idle' = <<>>
  BY CallFields DEF DialFails, At, One, ConnectPlaces
<1> HIDE DEF r
<1> QED
  BY <1>1, <1>2, <1>3, <1>4, <1>5, CallBecomes

LEMMA SendKeeps ==
  ASSUME PoolInv, NEW c \in Calls, Send(c)
  PROVE  PoolInv'
<1> DEFINE r == [call[c] EXCEPT !.at = "read"]
<1>1. Aside
  <2> DEFINE cn == call[c].cn
             q == [to |-> c, cmd |-> Says(c)]
  <2>1. cn \in Conns /\ conn[cn] \in Conn /\ q \in Request
    BY CallFields DEF Send, At, Says, Request, Commands, Call, Conn
  <2>2. [conn[cn] EXCEPT !.inbox = Append(@, q)] \in Conn
    <3>1. Append(conn[cn].inbox, q) \in Seq(Request)
      <4> HIDE DEF q
      <4> QED
        BY <2>1 DEF Conn
    <3> QED
      BY <2>1, <3>1, ConnWith
  <2>3. conn' = [conn EXCEPT ![cn] =
                   IF conn[cn].peer THEN [conn[cn] EXCEPT !.inbox = Append(@, q)] ELSE conn[cn]]
    BY <2>1, CallFields DEF Send, Conn
  <2> QED
    BY <2>1, <2>2, <2>3, CallFields, AsideUnchanged DEF Send, Aside
<1>2. r \in Call /\ call' = [call EXCEPT ![c] = r]
  BY CallFields DEF Send, Goto, Call, Places, Results, Commands
<1>3. r.at \in {"send", "read", "put"} => r.cn \in Conns
  BY CallFields DEF Send, At
<1>4. /\ slots' = slots + One(r.at \in HoldPlaces) - One(call[c].at \in HoldPlaces)
      /\ turns' = turns + One(r.at \in {"dial"}) - One(call[c].at \in {"dial"})
      /\ slots' <= Slots /\ turns' <= Turns
  BY CallFields DEF Send, At, One, HoldPlaces
<1>5. /\ idle' \in Seq(Conns)
      /\ \/ Len(idle') + One(r.at \in ConnectPlaces) - One(call[c].at \in ConnectPlaces) <= Len(idle)
         \/ idle' = <<>>
  BY CallFields DEF Send, At, One, ConnectPlaces
<1> HIDE DEF r
<1> QED
  BY <1>1, <1>2, <1>3, <1>4, <1>5, CallBecomes

LEMMA PutKeeps ==
  ASSUME PoolInv, NEW c \in Calls, Put(c)
  PROVE  PoolInv'
<1> DEFINE r == [call[c] EXCEPT !.at = "drop", !.cn = NoConn, !.reused = FALSE]
<1>1. Aside
  BY AsideUnchanged DEF Put
<1>2. r \in Call /\ call' = [call EXCEPT ![c] = r]
  BY CallFields DEF Put, Call, Places, Results, Commands
<1>3. r.at \in {"send", "read", "put"} => r.cn \in Conns
  BY CallFields DEF Put
<1>4. /\ slots' = slots + One(r.at \in HoldPlaces) - One(call[c].at \in HoldPlaces)
      /\ turns' = turns + One(r.at \in {"dial"}) - One(call[c].at \in {"dial"})
      /\ slots' <= Slots /\ turns' <= Turns
  BY CallFields DEF Put, At, One, HoldPlaces
<1>5. /\ idle' \in Seq(Conns)
      /\ \/ Len(idle') + One(r.at \in ConnectPlaces) - One(call[c].at \in ConnectPlaces) <= Len(idle)
         \/ idle' = <<>>
  BY CallFields DEF Put, At, One, ConnectPlaces
<1> HIDE DEF r
<1> QED
  BY <1>1, <1>2, <1>3, <1>4, <1>5, CallBecomes

LEMMA DropKeeps ==
  ASSUME PoolInv, NEW c \in Calls, Drop(c)
  PROVE  PoolInv'
<1> DEFINE r == [call[c] EXCEPT !.at = After(call[c].result)]
<1>1. Aside
  BY AsideUnchanged DEF Drop
<1>2. r \in Call /\ call' = [call EXCEPT ![c] = r]
  BY CallFields DEF Drop, Goto, After, Call, Places, Results, Commands
<1>3. r.at \in {"send", "read", "put"} => r.cn \in Conns
  BY CallFields DEF Drop, After
<1>4. /\ slots' = slots + One(r.at \in HoldPlaces) - One(call[c].at \in HoldPlaces)
      /\ turns' = turns + One(r.at \in {"dial"}) - One(call[c].at \in {"dial"})
      /\ slots' <= Slots /\ turns' <= Turns
  BY CallFields DEF Drop, At, After, One, HoldPlaces
<1>5. /\ idle' \in Seq(Conns)
      /\ \/ Len(idle') + One(r.at \in ConnectPlaces) - One(call[c].at \in ConnectPlaces) <= Len(idle)
         \/ idle' = <<>>
  BY CallFields DEF Drop, At, After, One, ConnectPlaces
<1> HIDE DEF r
<1> QED
  BY <1>1, <1>2, <1>3, <1>4, <1>5, CallBecomes

LEMMA DialedKeeps ==
  ASSUME PoolInv, NEW c \in Calls, Dialed(c)
  PROVE  PoolInv'
<1>1. PICK cn \in Conns :
        /\ conn' = [conn EXCEPT ![cn] = Fresh]
        /\ call' = [call EXCEPT ![c].at = "send", ![c].cn = cn, ![c].reused = FALSE,
                                ![c].greets = Greetings]
  BY DEF Dialed
<1> DEFINE r == [call[c] EXCEPT !.at = "send", !.cn = cn, !.reused = FALSE, !.greets = Greetings]
<1>2. Aside
  <2>1. Fresh \in Conn
    BY DEF Fresh, Conn
  <2> QED
    BY <1>1, <2>1, CallFields, AsideUnchanged DEF Dialed, Aside
<1>3. r \in Call /\ call' = [call EXCEPT ![c] = r]
  BY <1>1, CallFields, PoolAssumption DEF Call, Places
<1>4. r.at = "send" /\ r.cn \in Conns
  BY CallFields DEF Call
<1>5. /\ slots' = slots + One(r.at \in HoldPlaces) - One(call[c].at \in HoldPlaces)
      /\ turns' = turns + One(r.at \in {"dial"}) - One(call[c].at \in {"dial"})
      /\ slots' <= Slots /\ turns' <= Turns
  BY <1>4, CallFields DEF Dialed, At, One, HoldPlaces
<1>6. /\ idle' \in Seq(Conns)
      /\ Len(idle') + One(r.at \in ConnectPlaces) - One(call[c].at \in ConnectPlaces) <= Len(idle)
  BY <1>4, CallFields DEF Dialed, At, One, ConnectPlaces
<1> HIDE DEF r
<1> QED
  BY <1>2, <1>3, <1>4, <1>5, <1>6, CallBecomes

\* Taking the first reply off a connection keeps its type.
LEMMA TailTyped ==
  ASSUME NEW k \in Conn, k.outbox # <<>>
  PROVE  [k EXCEPT !.outbox = Tail(@)] \in Conn
<1>1. Tail(k.outbox) \in Seq(Reply)
  BY DEF Conn
<1> QED
  BY <1>1, ConnWith

LEMMA GreetedKeeps ==
  ASSUME PoolInv, NEW c \in Calls, Greeted(c)
  PROVE  PoolInv'
<1> DEFINE r == [call[c] EXCEPT !.at = "send", !.greets = @ - 1]
<1>0. At(c, "read") /\ call[c].cn \in Conns /\ conn[call[c].cn] \in Conn
  BY CallFields DEF Greeted, At
<1>1. Aside
  <2>1. [conn[call[c].cn] EXCEPT !.outbox = Tail(@)] \in Conn
    BY <1>0, TailTyped DEF Greeted
  <2> QED
    BY <1>0, <2>1, CallFields, AsideUnchanged DEF Greeted, Aside
<1>2. r \in Call /\ call' = [call EXCEPT ![c] = r]
  BY CallFields DEF Greeted, Call, Places
<1>3. r.at = "send" /\ r.cn \in Conns
  BY <1>0, CallFields DEF Call
<1>4. /\ slots' = slots + One(r.at \in HoldPlaces) - One(call[c].at \in HoldPlaces)
      /\ turns' = turns + One(r.at \in {"dial"}) - One(call[c].at \in {"dial"})
      /\ slots' <= Slots /\ turns' <= Turns
  BY <1>0, <1>3, CallFields DEF Greeted, At, One, HoldPlaces
<1>5. /\ idle' \in Seq(Conns)
      /\ Len(idle') + One(r.at \in ConnectPlaces) - One(call[c].at \in ConnectPlaces) <= Len(idle)
  BY <1>0, <1>3, CallFields DEF Greeted, At, One, ConnectPlaces
<1> HIDE DEF r
<1> QED
  BY <1>1, <1>2, <1>3, <1>4, <1>5, CallBecomes

LEMMA ReadKeeps ==
  ASSUME PoolInv, NEW c \in Calls, Read(c)
  PROVE  PoolInv'
<1> DEFINE is == Head(conn[call[c].cn].outbox).is
           unknown == is = "noscript" /\ call[c].cmd = "EVALSHA"
           r == [call[c] EXCEPT !.at = "put", !.cmd = IF unknown THEN "EVAL" ELSE @,
                   !.result = IF unknown THEN "again" ELSE IF is = "ok" THEN "ok" ELSE "error"]
<1>0. At(c, "read") /\ call[c].cn \in Conns /\ conn[call[c].cn] \in Conn
  BY CallFields DEF Read, At
<1>1. Aside
  <2>1. [conn[call[c].cn] EXCEPT !.outbox = Tail(@)] \in Conn
    BY <1>0, TailTyped DEF Read
  <2> QED
    BY <1>0, <2>1, CallFields, AsideUnchanged DEF Read, Aside
<1>2. call' = [call EXCEPT ![c] = r]
  BY CallFields DEF Read
<1>3. /\ r.at = "put" /\ r.cn = call[c].cn
      /\ r \in Call
  <2> HIDE DEF unknown, is
  <2> QED
    BY CallFields DEF Call, Places, Commands, Results
<1>4. /\ slots' = slots + One(r.at \in HoldPlaces) - One(call[c].at \in HoldPlaces)
      /\ turns' = turns + One(r.at \in {"dial"}) - One(call[c].at \in {"dial"})
      /\ slots' <= Slots /\ turns' <= Turns
  <2>1. slots' = slots /\ turns' = turns
    BY DEF Read
  <2> HIDE DEF r
  <2> QED
    BY <1>0, <1>3, <2>1, CallFields DEF At, One, HoldPlaces
<1>5. /\ idle' \in Seq(Conns)
      /\ Len(idle') + One(r.at \in ConnectPlaces) - One(call[c].at \in ConnectPlaces) <= Len(idle)
  <2>1. idle' = idle
    BY DEF Read
  <2> HIDE DEF r
  <2> QED
    BY <1>0, <1>3, <2>1, CallFields DEF At, One, ConnectPlaces
<1> HIDE DEF r
<1> QED
  BY <1>0, <1>1, <1>2, <1>3, <1>4, <1>5, CallBecomes

LEMMA DiscardKeeps ==
  ASSUME PoolInv, NEW c \in Calls, NEW result \in Results, At(c, "read"), Discard(c, result)
  PROVE  PoolInv'
<1> DEFINE r == [call[c] EXCEPT !.at = After(result), !.cn = NoConn, !.reused = FALSE,
                                !.greets = 0, !.result = result]
<1>0. call[c].cn \in Conns /\ conn[call[c].cn] \in Conn
  BY CallFields DEF At
<1>1. Aside
  <2>1. [conn[call[c].cn] EXCEPT !.mine = FALSE, !.outbox = <<>>] \in Conn
    <3>1. [conn[call[c].cn] EXCEPT !.mine = FALSE] \in Conn
      BY <1>0, ConnWith
    <3> QED
      BY <3>1, ConnWith, Empties
  <2> QED
    BY <1>0, <2>1, CallFields, AsideUnchanged DEF Discard, Aside
<1>2. call' = [call EXCEPT ![c] = r]
  BY CallFields DEF Discard
<1>7. r \in Call
  <2>1. After(result) \in Places /\ call[c] \in Call
    BY CallFields DEF After, Places
  <2> DEFINE left    == [call[c] EXCEPT !.at = After(result), !.cn = NoConn]
             cleared == [left EXCEPT !.reused = FALSE, !.greets = 0]
  <2>2. left \in Call
    BY <2>1, CallWith
  <2>3. cleared \in Call
    <3> HIDE DEF left
    <3>1. [left EXCEPT !.reused = FALSE] \in Call
      BY <2>2, CallWith
    <3>2. 0 \in 0..2
      OBVIOUS
    <3> QED
      BY <3>1, <3>2, CallWith
  <2>4. [cleared EXCEPT !.result = result] \in Call
    <3> HIDE DEF cleared
    <3> QED
      BY <2>3, CallWith
  <2> QED
    BY <2>4
<1>3. r.at \in {"slot", "done"}
  BY CallFields DEF Call, After
<1>4. /\ slots' = slots + One(r.at \in HoldPlaces) - One(call[c].at \in HoldPlaces)
      /\ turns' = turns + One(r.at \in {"dial"}) - One(call[c].at \in {"dial"})
      /\ slots' <= Slots /\ turns' <= Turns
  <2>1. slots' = slots - 1 /\ turns' = turns
    BY DEF Discard
  <2> HIDE DEF r
  <2> QED
    BY <1>3, <2>1, CallFields DEF At, One, HoldPlaces
<1>5. /\ idle' \in Seq(Conns)
      /\ Len(idle') + One(r.at \in ConnectPlaces) - One(call[c].at \in ConnectPlaces) <= Len(idle)
  <2>1. idle' = idle
    BY DEF Discard
  <2> HIDE DEF r
  <2> QED
    BY <1>3, <2>1, CallFields DEF At, One, ConnectPlaces
<1>6. r.at \notin {"send", "read", "put"}
  BY <1>3
<1> HIDE DEF r
<1> QED
  BY <1>1, <1>2, <1>4, <1>5, <1>6, <1>7, CallBecomes

-----------------------------------------------------------------------------
(* The store's steps leave every call where it is. *)

LEMMA ConnFields ==
  ASSUME PoolInv
  PROVE  conn \in [Conns -> Conn] /\ restarts \in 0..MaxRestarts /\ MaxRestarts \in Nat
BY PoolAssumption DEF PoolInv, TypeOK

LEMMA StoreKeeps ==
  ASSUME PoolInv, UNCHANGED <<slots, turns, idle, call>>, Aside
  PROVE  PoolInv'
<1>1. UsesConn' /\ OpenBound' /\ NoTokenLost'
  BY DEF PoolInv, UsesConn, OpenBound, NoTokenLost, Holders, Connecting, At
<1> QED
  BY <1>1 DEF PoolInv, TypeOK, Aside

LEMMA ServeKeeps ==
  ASSUME PoolInv, NEW cn \in Conns, Serve(cn)
  PROVE  PoolInv'
<1> DEFINE k == conn[cn]
<1>1. PICK is \in {"ok", "noscript", "error"} :
        LET q == Head(k.inbox)
            runs == is = "ok" /\ q.cmd # "HELLO"
        IN
        /\ loaded' = (loaded \/ (q.cmd = "EVAL" /\ runs))
        /\ ran' = [ran EXCEPT ![q.to] = IF runs THEN @ + 1 ELSE @]
        /\ conn' = [conn EXCEPT ![cn].inbox = Tail(@),
                      ![cn].outbox = IF k.mine THEN Append(@, [to |-> q.to, is |-> is]) ELSE @]
  BY DEF Serve
<1> DEFINE q == Head(k.inbox)
           answer == [to |-> q.to, is |-> is]
<1>2. k \in Conn /\ q \in Request /\ Tail(k.inbox) \in Seq(Request)
  <2>1. k \in Conn /\ k.inbox # <<>>
    BY ConnFields DEF Serve
  <2> HIDE DEF k
  <2> QED
    BY <2>1 DEF Conn
<1>3. answer \in Reply /\ q.to \in Calls
  BY <1>2 DEF Request, Reply
<1>4. conn' \in [Conns -> Conn]
  <2> DEFINE new == [k EXCEPT !.inbox = Tail(@), !.outbox = IF k.mine THEN Append(@, answer) ELSE @]
  <2>1. new \in Conn
    <3>1. (IF k.mine THEN Append(k.outbox, answer) ELSE k.outbox) \in Seq(Reply)
      BY <1>2, <1>3 DEF Conn
    <3>2. [k EXCEPT !.inbox = Tail(@)] \in Conn
      BY <1>2, ConnWith
    <3> QED
      BY <3>1, <3>2, ConnWith
  <2>2. conn' = [conn EXCEPT ![cn] = new]
    BY <1>1, ConnFields
  <2> HIDE DEF new
  <2> QED
    BY <2>1, <2>2, ConnFields
<1>5. ran' \in [Calls -> Nat] /\ loaded' \in BOOLEAN
  <2>1. ran \in [Calls -> Nat] /\ loaded \in BOOLEAN
    BY DEF PoolInv, TypeOK
  <2> HIDE DEF k
  <2> QED
    BY <1>1, <1>3, <2>1
<1>6. UNCHANGED <<slots, turns, idle, call, restarts>>
  BY DEF Serve
<1>7. restarts' \in 0..MaxRestarts
  BY <1>6 DEF PoolInv, TypeOK
<1> QED
  BY <1>4, <1>5, <1>6, <1>7, StoreKeeps DEF Aside

LEMMA CloseIdleKeeps ==
  ASSUME PoolInv, NEW cn \in Conns, CloseIdle(cn)
  PROVE  PoolInv'
<1>1. [conn[cn] EXCEPT !.peer = FALSE] \in Conn
  BY ConnFields, ConnWith
<1>2. Aside
  BY <1>1, ConnFields, AsideUnchanged DEF CloseIdle, Aside
<1> QED
  BY <1>2, StoreKeeps DEF CloseIdle

LEMMA RestartKeeps ==
  ASSUME PoolInv, NEW Lost \in SUBSET Conns, Restart(Lost)
  PROVE  PoolInv'
<1> DEFINE cut(cn) == [conn[cn] EXCEPT !.peer = FALSE, !.inbox = <<>>,
                                       !.outbox = IF cn \in Lost THEN <<>> ELSE @]
<1>1. ASSUME NEW cn \in Conns PROVE cut(cn) \in Conn
  <2> DEFINE shut == [conn[cn] EXCEPT !.peer = FALSE]
             clear == [shut EXCEPT !.inbox = <<>>]
             left == IF cn \in Lost THEN <<>> ELSE clear.outbox
  <2>1. shut \in Conn
    <3>1. conn[cn] \in Conn
      BY DEF PoolInv, TypeOK
    <3> QED
      BY <3>1, ConnWith
  <2>2. clear \in Conn
    BY <2>1, ConnWith, Empties
  <2>3. left \in Seq(Reply)
    <3> HIDE DEF clear
    <3> QED
      BY <2>2 DEF Conn
  <2> QED
    BY <2>2, <2>3, ConnWith
<1>2. conn' = [cn \in Conns |-> cut(cn)]
  BY DEF Restart
<1>3. conn' \in [Conns -> Conn]
  <2> HIDE DEF cut
  <2> QED
    BY <1>1, <1>2
<1>4. restarts' \in 0..MaxRestarts /\ loaded' \in BOOLEAN /\ ran' \in [Calls -> Nat]
  <2>1. restarts' = restarts + 1 /\ restarts < MaxRestarts /\ loaded' = FALSE /\ ran' = ran
    BY DEF Restart
  <2>2. ran \in [Calls -> Nat]
    BY DEF PoolInv, TypeOK
  <2>3. restarts' \in 0..MaxRestarts
    BY <2>1, ConnFields
  <2>4. loaded' \in BOOLEAN
    BY <2>1
  <2> QED
    BY <2>1, <2>2, <2>3, <2>4
<1> QED
  BY <1>3, <1>4, StoreKeeps DEF Restart, Aside

-----------------------------------------------------------------------------
(* The theorems. *)

LEMMA InitHolds == Init => PoolInv
<1> SUFFICES ASSUME Init PROVE PoolInv
  OBVIOUS
<1>1. TypeOK
  <2>1. NewCall \in Call
    BY DEF NewCall, Call, Places, Commands, Results
  <2>2. NoPipe \in Conn
    BY DEF NoPipe, Conn
  <2>3. call \in [Calls -> Call] /\ conn \in [Conns -> Conn]
    BY <2>1, <2>2 DEF Init
  <2>4. idle \in Seq(Conns) /\ loaded \in BOOLEAN /\ ran \in [Calls -> Nat]
    <3>1. idle \in Seq(Conns)
      BY DEF Init
    <3>2. loaded \in BOOLEAN
      BY DEF Init
    <3>3. ran \in [Calls -> Nat]
      BY DEF Init
    <3> QED
      BY <3>1, <3>2, <3>3
  <2>5. slots \in 0..Slots /\ turns \in 0..Turns /\ restarts \in 0..MaxRestarts
    BY PoolAssumption DEF Init
  <2> QED
    BY <2>3, <2>4, <2>5 DEF TypeOK
<1>2. \A c \in Calls : call[c].at = "slot"
  BY DEF Init, NewCall
<1>3. Holders = {} /\ Connecting = {} /\ {c \in Calls : At(c, "dial")} = {}
  BY <1>2 DEF Holders, Connecting, At
<1>4. UsesConn
  BY <1>2 DEF UsesConn
<1>5. NoTokenLost
  BY <1>3, FS_EmptySet DEF NoTokenLost, Init
<1>6. OpenBound
  <2>1. Len(idle) = 0 /\ Cardinality(Connecting) = 0
    BY <1>3, FS_EmptySet DEF Init
  <2> QED
    BY <2>1, PoolAssumption DEF OpenBound
<1> QED
  BY <1>1, <1>4, <1>5, <1>6 DEF PoolInv

LEMMA StepHolds == PoolInv /\ [Next]_vars => PoolInv'
<1> SUFFICES ASSUME PoolInv, [Next]_vars PROVE PoolInv'
  OBVIOUS
<1>1. ASSUME NEW c \in Calls, Get(c) PROVE PoolInv'
  BY <1>1, SlotTakenKeeps, SlotWaitKeeps, SlotTimeoutKeeps, PickIdleKeeps, PickNoneKeeps,
     TurnTakenKeeps, TurnWaitKeeps, TurnTimeoutKeeps, DialedKeeps, DialFailsKeeps DEF Get
<1>2. ASSUME NEW c \in Calls, Do(c) PROVE PoolInv'
  <2>1. ASSUME GreetingRefused(c) \/ ReadEnds(c) \/ ReadTimeout(c) PROVE PoolInv'
    <3>1. At(c, "read") /\ \E result \in Results : Discard(c, result)
      BY <2>1 DEF GreetingRefused, ReadEnds, ReadTimeout, Results
    <3> QED
      BY <3>1, DiscardKeeps
  <2> QED
    BY <1>2, <2>1, SendKeeps, GreetedKeeps, ReadKeeps, PutKeeps, DropKeeps DEF Do
<1>3. ASSUME NEW cn \in Conns, Serve(cn) \/ CloseIdle(cn) PROVE PoolInv'
  BY <1>3, ServeKeeps, CloseIdleKeeps
<1>4. ASSUME NEW Lost \in SUBSET Conns, Restart(Lost) PROVE PoolInv'
  BY <1>4, RestartKeeps
<1>5. CASE UNCHANGED vars
  <2>1. UNCHANGED <<slots, turns, idle, call>> /\ Aside
    BY <1>5, AsideUnchanged DEF vars
  <2> QED
    BY <2>1, StoreKeeps
<1> QED
  BY <1>1, <1>2, <1>3, <1>4, <1>5 DEF Next

\* The invariant of the pool, for any number of calls, connections, slots and turns.
THEOREM PoolInvariant == Spec => []PoolInv
<1> QED
  BY InitHolds, StepHolds, PTL DEF Spec

\* The tokens in both channels of get, put, drop and discard are those of the
\* calls that still have to return them, on every way through eval.
THEOREM TokensReturned == Spec => []NoTokenLost
<1>1. PoolInv => NoTokenLost
  BY DEF PoolInv
<1> QED
  BY <1>1, PoolInvariant, PTL

\* Idle, used and opening connections never exceed the slots, in whatever order
\* put, drop and get of different calls happen.
THEOREM OpenBounded == Spec => []OpenBound
<1>1. PoolInv => OpenBound
  BY DEF PoolInv
<1> QED
  BY <1>1, PoolInvariant, PTL

\* Every variable of the pool keeps its type.
THEOREM PoolTypeCorrect == Spec => []TypeOK
<1>1. PoolInv => TypeOK
  BY DEF PoolInv
<1> QED
  BY <1>1, PoolInvariant, PTL

-----------------------------------------------------------------------------
(* Whose connection, request and reply it is. *)

Uses(c)  == call[c].at \in {"send", "read", "put"}
Quiet(k) == conn[k].inbox = <<>> /\ conn[k].outbox = <<>>

\* A connection is used by one call at most, or is in the pool once, and the
\* client has it open.
Owned ==
  /\ \A c \in Calls : Uses(c) => conn[call[c].cn].mine
  /\ \A c, d \in Calls : Uses(c) /\ Uses(d) /\ call[c].cn = call[d].cn => c = d
  /\ \A i \in 1..Len(idle) :
       conn[idle[i]].mine /\ \A c \in Calls : Uses(c) => call[c].cn # idle[i]
  /\ \A i, j \in 1..Len(idle) : idle[i] = idle[j] => i = j

\* What call c waits for: its request is under way, or the reply to it, or the
\* other end is gone.
Awaits(c) ==
  LET k == conn[call[c].cn] IN
  \/ k.inbox = <<>> /\ k.outbox = <<>> /\ ~k.peer
  \/ k.inbox = <<[to |-> c, cmd |-> Says(c)]>> /\ k.outbox = <<>> /\ k.peer
  \/ k.inbox = <<>> /\ Len(k.outbox) = 1 /\ k.outbox[1].to = c

PipeOf(c) ==
  /\ call[c].cmd # "HELLO"
  /\ call[c].at \in {"send", "put"} => Quiet(call[c].cn)
  /\ call[c].at = "read" => Awaits(c)

\* Nothing is under way on a connection unless a call waits for it.
Pipes ==
  /\ \A i \in 1..Len(idle) : Quiet(idle[i])
  /\ \A k \in Conns : conn[k].inbox # <<>> => Len(conn[k].inbox) = 1
  /\ \A c \in Calls : PipeOf(c)

\* The reply to the command of call c, an ok, has come.
Told(c) ==
  /\ call[c].at = "read" /\ call[c].greets = 0
  /\ conn[call[c].cn].outbox # <<>> /\ conn[call[c].cn].outbox[1].is = "ok"

Answered == AnsweredOnlyIfRun /\ \A c \in Calls : Told(c) => ran[c] > 0

\* A command of call c that may still run waits on connection k.
Asks(c, k) ==
  conn[k].inbox # <<>> /\ conn[k].inbox[1].to = c /\ conn[k].inbox[1].cmd # "HELLO"

\* The command of call c may have run as often as the store restarted, and once.
Ran(c) ==
  \/ Told(c)
  \/ call[c].at \in {"put", "drop"} /\ call[c].result # "again"
  \/ call[c].at = "done"

Asking ==
  \A c \in Calls :
    /\ ran[c] <= 1 + restarts
    /\ ~Ran(c) => ran[c] <= restarts
    /\ \A k \in Conns : Asks(c, k) =>
         /\ ran[c] <= restarts
         /\ \/ call[c].at = "done"
            \/ call[c].at = "read" /\ call[c].greets = 0 /\ call[c].cn = k
         /\ \A j \in Conns : Asks(c, j) => j = k

-----------------------------------------------------------------------------
(* What a step does to calls, connections and the pool, field by field. *)

Others(c)     == \A d \in Calls \ {c} : call'[d] = call[d]
OtherPipes(k) == \A j \in Conns \ {k} : conn'[j] = conn[j]
SameEnds(k)   == conn'[k].mine = conn[k].mine /\ conn'[k].peer = conn[k].peer
SameSpeech(c) == call'[c].cmd = call[c].cmd /\ call'[c].result = call[c].result

\* Without a connection.
Moves(c) ==
  /\ Others(c) /\ UNCHANGED <<idle, conn, ran, restarts>>
  /\ call[c].at \notin {"send", "read", "put", "done"} /\ call'[c].cmd = call[c].cmd
  /\ \/ call'[c].at = "done" /\ call'[c].result # "ok"
     \/ /\ call[c].at # "drop" /\ call'[c].at \in {"slotwait", "pick", "turn", "turnwait", "dial"}
        /\ call'[c].result = call[c].result
     \/ /\ call[c].at = "drop" /\ call'[c].at = After(call[c].result)
        /\ call'[c].result = call[c].result

Takes(c) ==
  /\ Others(c) /\ UNCHANGED <<conn, ran, restarts>>
  /\ call[c].at = "pick" /\ call'[c].at = "send" /\ SameSpeech(c)
  /\ Len(idle) > 0 /\ call'[c].cn = idle[Len(idle)]
  /\ Len(idle') = Len(idle) - 1 /\ \A i \in 1..Len(idle') : idle'[i] = idle[i]

Opens(c, k) ==
  /\ Others(c) /\ OtherPipes(k) /\ UNCHANGED <<idle, ran, restarts>>
  /\ call[c].at = "dial" /\ call'[c].at = "send" /\ SameSpeech(c)
  /\ call'[c].cn = k /\ ~conn[k].mine /\ conn'[k] = Fresh

Sends(c, k) ==
  /\ Others(c) /\ OtherPipes(k) /\ UNCHANGED <<idle, ran, restarts>>
  /\ call[c].at = "send" /\ call'[c].at = "read" /\ SameSpeech(c)
  /\ call[c].cn = k /\ call'[c].cn = k /\ call'[c].greets = call[c].greets
  /\ SameEnds(k) /\ conn'[k].outbox = conn[k].outbox
  /\ conn'[k].inbox = IF conn[k].peer THEN Append(conn[k].inbox, [to |-> c, cmd |-> Says(c)])
                      ELSE conn[k].inbox

Hears(c, k) ==
  /\ Others(c) /\ OtherPipes(k) /\ UNCHANGED <<idle, ran, restarts>>
  /\ call[c].at = "read" /\ call[c].cn = k /\ call'[c].cn = k
  /\ conn[k].outbox # <<>> /\ conn'[k].outbox = Tail(conn[k].outbox)
  /\ conn'[k].inbox = conn[k].inbox /\ SameEnds(k)
  /\ \/ call[c].greets > 0 /\ call'[c].at = "send" /\ SameSpeech(c)
     \/ /\ call[c].greets = 0 /\ call'[c].at = "put"
        /\ call'[c].cmd \in {"EVAL", call[c].cmd}
        /\ call'[c].result = "ok" => conn[k].outbox[1].is = "ok"
        /\ call'[c].result = "again" => conn[k].outbox[1].is # "ok"

Leaves(c, k) ==
  /\ Others(c) /\ OtherPipes(k) /\ UNCHANGED <<idle, ran, restarts>>
  /\ call[c].at = "read" /\ call[c].cn = k
  /\ call'[c].cmd = call[c].cmd /\ call'[c].result # "ok"
  /\ ~conn'[k].mine /\ conn'[k].inbox = conn[k].inbox /\ conn'[k].outbox = <<>>
  /\ \/ call'[c].at = "done"
     \/ call'[c].at = "slot" /\ ~conn[k].peer /\ conn[k].outbox = <<>>

PutsBack(c) ==
  /\ Others(c) /\ UNCHANGED <<conn, ran, restarts>>
  /\ call[c].at = "put" /\ call'[c].at = "drop" /\ SameSpeech(c)
  /\ Len(idle') = Len(idle) + 1 /\ idle'[Len(idle) + 1] = call[c].cn
  /\ \A i \in 1..Len(idle) : idle'[i] = idle[i]

Serves(k, q, is) ==
  /\ UNCHANGED <<idle, call, restarts>> /\ OtherPipes(k)
  /\ conn[k].inbox # <<>> /\ q = conn[k].inbox[1] /\ q.to \in Calls
  /\ SameEnds(k) /\ conn'[k].inbox = Tail(conn[k].inbox)
  /\ conn'[k].outbox = IF conn[k].mine THEN Append(conn[k].outbox, [to |-> q.to, is |-> is])
                       ELSE conn[k].outbox
  /\ \A d \in Calls :
       ran'[d] = IF d = q.to /\ is = "ok" /\ q.cmd # "HELLO" THEN ran[d] + 1 ELSE ran[d]

Closes(k) ==
  /\ UNCHANGED <<idle, call, ran, restarts>> /\ OtherPipes(k) /\ Quiet(k)
  /\ conn'[k].mine = conn[k].mine /\ ~conn'[k].peer
  /\ conn'[k].inbox = <<>> /\ conn'[k].outbox = <<>>

Cuts ==
  /\ UNCHANGED <<idle, call, ran>> /\ restarts' = restarts + 1
  /\ \A k \in Conns : /\ conn'[k].mine = conn[k].mine /\ ~conn'[k].peer
                      /\ conn'[k].inbox = <<>> /\ conn'[k].outbox \in {<<>>, conn[k].outbox}

\* What any step does.
PoolStep ==
  \/ \E c \in Calls : Moves(c) \/ Takes(c) \/ PutsBack(c)
  \/ \E c \in Calls, k \in Conns : Opens(c, k) \/ Sends(c, k) \/ Hears(c, k) \/ Leaves(c, k)
  \/ \E k \in Conns : \E q, is : Serves(k, q, is)
  \/ \E k \in Conns : Closes(k)
  \/ Cuts
  \/ UNCHANGED <<idle, conn, call, ran, restarts>>

LEMMA MovesStep ==
  ASSUME PoolInv, NEW c \in Calls,
         \/ SlotTaken(c) \/ SlotWait(c) \/ SlotTimeout(c) \/ PickNone(c) \/ TurnTaken(c)
         \/ TurnWait(c) \/ TurnTimeout(c) \/ DialFails(c) \/ Drop(c)
  PROVE  Moves(c)
<1>1. call[c] \in Call /\ call \in [Calls -> Call]
  BY CallFields
<1>2. UNCHANGED <<idle, conn, ran, restarts>>
  BY DEF SlotTaken, SlotWait, SlotTimeout, PickNone, TurnTaken, TurnWait, TurnTimeout, DialFails, Drop
<1>3. CASE SlotTaken(c) \/ SlotWait(c) \/ PickNone(c) \/ TurnTaken(c) \/ TurnWait(c)
  BY <1>1, <1>2, <1>3 DEF SlotTaken, SlotWait, PickNone, TurnTaken, TurnWait, Goto, At, Moves,
     Others, Call
<1>4. CASE SlotTimeout(c) \/ TurnTimeout(c) \/ DialFails(c)
  BY <1>1, <1>2, <1>4 DEF SlotTimeout, TurnTimeout, DialFails, End, At, Moves, Others, Call
<1>5. CASE Drop(c)
  BY <1>1, <1>2, <1>5 DEF Drop, Goto, At, Moves, Others, Call
<1> QED
  BY <1>3, <1>4, <1>5

LEMMA TakesStep ==
  ASSUME PoolInv, NEW c \in Calls, PickIdle(c)
  PROVE  Takes(c)
<1>1. call[c] \in Call /\ call \in [Calls -> Call] /\ idle \in Seq(Conns) /\ Len(idle) \in Nat
  BY CallFields
<1>2. idle # <<>> /\ idle' = SubSeq(idle, 1, Len(idle) - 1)
  BY DEF PickIdle
<1>3. Len(idle) > 0
  BY <1>1, <1>2
<1> DEFINE n == Len(idle) - 1
<1>4. n \in Nat /\ n <= Len(idle) /\ idle' = SubSeq(idle, 1, n)
  BY <1>1, <1>2, <1>3
<1>5. Len(idle') = n /\ \A i \in 1..n : idle'[i] = idle[i]
  <2> HIDE DEF n
  <2> QED
    BY <1>1, <1>4
<1> QED
  BY <1>1, <1>3, <1>5 DEF PickIdle, At, Takes, Others, SameSpeech, Call

LEMMA OpensStep ==
  ASSUME PoolInv, NEW c \in Calls, Dialed(c)
  PROVE  \E k \in Conns : Opens(c, k)
<1>1. call[c] \in Call /\ call \in [Calls -> Call] /\ conn \in [Conns -> Conn]
  BY CallFields
<1>2. PICK k \in Conns :
        /\ Unused(k) /\ conn' = [conn EXCEPT ![k] = Fresh]
        /\ call' = [call EXCEPT ![c].at = "send", ![c].cn = k, ![c].reused = FALSE,
                                ![c].greets = Greetings]
  BY DEF Dialed
<1>3. call'[c].at = "send" /\ call'[c].cn = k /\ SameSpeech(c) /\ Others(c)
  BY <1>1, <1>2 DEF Call, SameSpeech, Others
<1>4. OtherPipes(k) /\ conn'[k] = Fresh
  BY <1>1, <1>2 DEF OtherPipes
<1> QED
  BY <1>2, <1>3, <1>4 DEF Dialed, At, Unused, Opens

LEMMA SendsStep ==
  ASSUME PoolInv, NEW c \in Calls, Send(c)
  PROVE  \E k \in Conns : Sends(c, k)
<1> DEFINE k == call[c].cn
<1>1. call[c] \in Call /\ call \in [Calls -> Call] /\ conn \in [Conns -> Conn] /\ k \in Conns
  BY CallFields DEF Send, At
<1>2. call'[c].at = "read" /\ call'[c].cn = k /\ call'[c].greets = call[c].greets
      /\ SameSpeech(c) /\ Others(c)
  BY <1>1 DEF Send, Goto, Call, SameSpeech, Others
<1>3. conn[k] \in Conn
  BY <1>1
<1> DEFINE i == IF conn[k].peer THEN Append(conn[k].inbox, [to |-> c, cmd |-> Says(c)])
                ELSE conn[k].inbox
<1>4. conn' = [conn EXCEPT ![k] = [conn[k] EXCEPT !.inbox = i]]
  BY <1>1 DEF Send
<1>5. SameEnds(k) /\ conn'[k].outbox = conn[k].outbox /\ conn'[k].inbox = i /\ OtherPipes(k)
  <2> HIDE DEF i
  <2> QED
    BY <1>1, <1>3, <1>4 DEF Conn, SameEnds, OtherPipes
<1> QED
  BY <1>1, <1>2, <1>5 DEF Send, At, Sends

LEMMA HearsStep ==
  ASSUME PoolInv, NEW c \in Calls, Greeted(c) \/ Read(c)
  PROVE  \E k \in Conns : Hears(c, k)
<1> DEFINE k == call[c].cn
           is == Head(conn[k].outbox).is
           unknown == is = "noscript" /\ call[c].cmd = "EVALSHA"
<1>1. call[c] \in Call /\ call \in [Calls -> Call] /\ conn \in [Conns -> Conn] /\ k \in Conns
  BY CallFields DEF Greeted, Read, At
<1>2. conn[k] \in Conn /\ conn[k].outbox # <<>> /\ call[c].at = "read"
      /\ UNCHANGED <<idle, ran, restarts>>
  BY <1>1 DEF Greeted, Read, At
<1>3. conn' = [conn EXCEPT ![k] = [conn[k] EXCEPT !.outbox = Tail(conn[k].outbox)]]
  BY <1>1 DEF Greeted, Read
<1>4. /\ conn'[k].outbox = Tail(conn[k].outbox) /\ conn'[k].inbox = conn[k].inbox
      /\ SameEnds(k) /\ OtherPipes(k)
  BY <1>1, <1>2, <1>3 DEF Conn, SameEnds, OtherPipes
<1>5. CASE Greeted(c)
  <2>1. call'[c].at = "send" /\ call'[c].cn = k /\ SameSpeech(c) /\ Others(c) /\ call[c].greets > 0
    BY <1>1, <1>5 DEF Greeted, Call, SameSpeech, Others
  <2> QED
    BY <1>1, <1>2, <1>4, <2>1 DEF Hears
<1>6. CASE Read(c)
  <2>1. call' = [call EXCEPT ![c].at = "put",
                   ![c].cmd = IF unknown THEN "EVAL" ELSE @,
                   ![c].result = IF unknown THEN "again" ELSE IF is = "ok" THEN "ok" ELSE "error"]
        /\ call[c].greets = 0
    BY <1>6 DEF Read
  <2>2. conn[k].outbox[1].is = is
    BY <1>2 DEF Conn
  <2> DEFINE cm == IF unknown THEN "EVAL" ELSE call[c].cmd
             re == IF unknown THEN "again" ELSE IF is = "ok" THEN "ok" ELSE "error"
  <2>3. /\ cm \in {"EVAL", call[c].cmd}
        /\ re = "ok" => is = "ok"
        /\ re = "again" => is # "ok"
    OBVIOUS
  <2>4. call' = [call EXCEPT ![c] = [[[call[c] EXCEPT !.at = "put"] EXCEPT !.cmd = cm] EXCEPT !.result = re]]
    BY <2>1
  <2> HIDE DEF cm, re, is
  <2>5. /\ call'[c].at = "put" /\ call'[c].cn = k /\ call'[c].cmd = cm /\ call'[c].result = re
        /\ Others(c)
    BY <1>1, <2>4 DEF Call, Others
  <2> QED
    BY <1>1, <1>2, <1>4, <2>1, <2>2, <2>3, <2>5 DEF Hears
<1> QED
  BY <1>5, <1>6

LEMMA LeavesStep ==
  ASSUME PoolInv, NEW c \in Calls, GreetingRefused(c) \/ ReadEnds(c) \/ ReadTimeout(c)
  PROVE  \E k \in Conns : Leaves(c, k)
<1> DEFINE k == call[c].cn
<1>1. /\ call[c] \in Call /\ call \in [Calls -> Call] /\ conn \in [Conns -> Conn] /\ k \in Conns
      /\ call[c].at = "read"
  BY CallFields DEF GreetingRefused, ReadEnds, ReadTimeout, At
<1>2. PICK result \in {"again", "failed", "error"} :
        Discard(c, result) /\ (result = "again" => ~conn[k].peer /\ conn[k].outbox = <<>>)
  BY DEF GreetingRefused, ReadEnds, ReadTimeout
<1> DEFINE r == [[[[[call[c] EXCEPT !.at = After(result)] EXCEPT !.cn = NoConn] EXCEPT !.reused = FALSE]
                    EXCEPT !.greets = 0] EXCEPT !.result = result]
<1>3. call' = [call EXCEPT ![c] = r]
  BY <1>2 DEF Discard
<1>4. r.at = After(result) /\ r.cmd = call[c].cmd /\ r.result = result
  BY <1>1 DEF Call
<1> HIDE DEF r
<1>5. call'[c] = r /\ Others(c)
  BY <1>1, <1>3 DEF Others
<1>6. conn' = [conn EXCEPT ![k] = [[conn[k] EXCEPT !.mine = FALSE] EXCEPT !.outbox = <<>>]]
  BY <1>1, <1>2 DEF Discard
<1>7. ~conn'[k].mine /\ conn'[k].inbox = conn[k].inbox /\ conn'[k].outbox = <<>> /\ OtherPipes(k)
  BY <1>1, <1>6 DEF Conn, OtherPipes
<1>8. After(result) \in {"slot", "done"} /\ (After(result) = "slot" => result = "again")
  BY <1>2 DEF After
<1> QED
  BY <1>1, <1>2, <1>4, <1>5, <1>7, <1>8 DEF Discard, Leaves

LEMMA PutsBackStep ==
  ASSUME PoolInv, NEW c \in Calls, Put(c)
  PROVE  PutsBack(c)
<1>1. /\ call[c] \in Call /\ call \in [Calls -> Call] /\ idle \in Seq(Conns) /\ Len(idle) \in Nat
      /\ call[c].cn \in Conns
  BY CallFields DEF Put, At
<1>2. idle' = Append(idle, call[c].cn)
  BY DEF Put
<1>3. /\ Len(idle') = Len(idle) + 1 /\ idle'[Len(idle) + 1] = call[c].cn
      /\ \A i \in 1..Len(idle) : idle'[i] = idle[i]
  BY <1>1, <1>2
<1>4. call'[c].at = "drop" /\ SameSpeech(c) /\ Others(c)
  BY <1>1 DEF Put, Call, SameSpeech, Others
<1> QED
  BY <1>3, <1>4 DEF Put, At, PutsBack

LEMMA ServesStep ==
  ASSUME PoolInv, NEW k \in Conns, Serve(k)
  PROVE  \E q, is : Serves(k, q, is)
<1>1. conn \in [Conns -> Conn] /\ ran \in [Calls -> Nat]
  BY DEF PoolInv, TypeOK
<1>2. conn[k] \in Conn /\ conn[k].inbox # <<>> /\ UNCHANGED <<idle, call, restarts>>
  BY <1>1 DEF Serve
<1> DEFINE q == Head(conn[k].inbox)
<1>3. q \in Request /\ q = conn[k].inbox[1]
  BY <1>2 DEF Conn
<1>4. q.to \in Calls
  BY <1>3 DEF Request
<1>5. PICK is \in {"ok", "noscript", "error"} :
        /\ ran' = [ran EXCEPT ![q.to] = IF is = "ok" /\ q.cmd # "HELLO" THEN ran[q.to] + 1 ELSE ran[q.to]]
        /\ conn' = [conn EXCEPT ![k].inbox = Tail(@),
             ![k].outbox = IF conn[k].mine THEN Append(@, [to |-> q.to, is |-> is]) ELSE @]
  BY DEF Serve
<1> DEFINE o == IF conn[k].mine THEN Append(conn[k].outbox, [to |-> q.to, is |-> is])
                ELSE conn[k].outbox
<1>6. conn' = [conn EXCEPT ![k] = [[conn[k] EXCEPT !.inbox = Tail(conn[k].inbox)] EXCEPT !.outbox = o]]
  BY <1>1, <1>2, <1>5 DEF Conn
<1> HIDE DEF q
<1>7. \A d \in Calls :
        ran'[d] = IF d = q.to /\ is = "ok" /\ q.cmd # "HELLO" THEN ran[d] + 1 ELSE ran[d]
  BY <1>1, <1>4, <1>5
<1>8. /\ SameEnds(k) /\ conn'[k].inbox = Tail(conn[k].inbox) /\ conn'[k].outbox = o
      /\ OtherPipes(k)
  <2> HIDE DEF o
  <2> QED
    BY <1>1, <1>2, <1>6 DEF Conn, SameEnds, OtherPipes
<1>9. Serves(k, q, is)
  BY <1>2, <1>3, <1>4, <1>7, <1>8 DEF Serves
<1> QED
  BY <1>9

LEMMA ClosesStep ==
  ASSUME PoolInv, NEW k \in Conns, CloseIdle(k)
  PROVE  Closes(k)
<1>1. conn \in [Conns -> Conn] /\ conn[k] \in Conn
  BY ConnFields
<1>2. conn' = [conn EXCEPT ![k] = [conn[k] EXCEPT !.peer = FALSE]]
  BY <1>1 DEF CloseIdle
<1>3. conn'[k] = [conn[k] EXCEPT !.peer = FALSE] /\ OtherPipes(k)
  BY <1>1, <1>2 DEF OtherPipes
<1> QED
  BY <1>1, <1>3 DEF CloseIdle, Closes, Quiet, Conn

LEMMA CutsStep ==
  ASSUME PoolInv, NEW Lost \in SUBSET Conns, Restart(Lost)
  PROVE  Cuts
<1>1. conn \in [Conns -> Conn]
  BY ConnFields
<1>2. ASSUME NEW k \in Conns
      PROVE  /\ conn'[k].mine = conn[k].mine /\ ~conn'[k].peer
             /\ conn'[k].inbox = <<>> /\ conn'[k].outbox \in {<<>>, conn[k].outbox}
  <2> DEFINE o == IF k \in Lost THEN <<>> ELSE conn[k].outbox
  <2>1. conn'[k] = [[[conn[k] EXCEPT !.peer = FALSE] EXCEPT !.inbox = <<>>] EXCEPT !.outbox = o]
    BY <1>1 DEF Restart, Conn
  <2>2. o \in {<<>>, conn[k].outbox} /\ conn[k] \in Conn
    BY <1>1
  <2> HIDE DEF o
  <2> QED
    BY <2>1, <2>2 DEF Conn
<1> QED
  BY <1>2 DEF Restart, Cuts

LEMMA StepIs ==
  ASSUME PoolInv, [Next]_vars
  PROVE  PoolStep
<1>1. ASSUME NEW c \in Calls, Get(c) PROVE PoolStep
  BY <1>1, MovesStep, TakesStep, OpensStep DEF Get, PoolStep
<1>2. ASSUME NEW c \in Calls, Do(c) PROVE PoolStep
  BY <1>2, MovesStep, SendsStep, HearsStep, LeavesStep, PutsBackStep DEF Do, PoolStep
<1>3. ASSUME NEW k \in Conns, Serve(k) \/ CloseIdle(k) PROVE PoolStep
  BY <1>3, ServesStep, ClosesStep DEF PoolStep
<1>4. ASSUME NEW Lost \in SUBSET Conns, Restart(Lost) PROVE PoolStep
  BY <1>4, CutsStep DEF PoolStep
<1>5. CASE UNCHANGED vars
  BY <1>5 DEF vars, PoolStep
<1> QED
  BY <1>1, <1>2, <1>3, <1>4, <1>5 DEF Next

-----------------------------------------------------------------------------
(* A connection has one user. *)

LEMMA OwnedKept ==
  ASSUME PoolInv, Owned, PoolStep
  PROVE  Owned'
<1>1. idle \in Seq(Conns) /\ Len(idle) \in Nat /\ \A i \in 1..Len(idle) : idle[i] \in Conns
  BY DEF PoolInv, TypeOK
<1>2. \A c \in Calls : Uses(c) => call[c].cn \in Conns
  BY DEF PoolInv, UsesConn, Uses
<1>3. /\ \A c \in Calls : Uses(c) => conn[call[c].cn].mine
      /\ \A c, d \in Calls : Uses(c) /\ Uses(d) /\ call[c].cn = call[d].cn => c = d
      /\ \A i \in 1..Len(idle) :
           conn[idle[i]].mine /\ \A c \in Calls : Uses(c) => call[c].cn # idle[i]
      /\ \A i, j \in 1..Len(idle) : idle[i] = idle[j] => i = j
  BY DEF Owned
<1>4. ASSUME idle' = idle, \A k \in Conns : conn'[k].mine = conn[k].mine,
             \A c \in Calls : Uses(c)' => Uses(c) /\ call'[c].cn = call[c].cn
      PROVE  Owned'
  BY <1>1, <1>2, <1>3, <1>4 DEF Owned
<1>5. ASSUME NEW c \in Calls, Moves(c) PROVE Owned'
  <2>1. \A d \in Calls : Uses(d)' => Uses(d) /\ call'[d].cn = call[d].cn
    BY <1>5 DEF Moves, Others, Uses, After
  <2> QED
    BY <1>4, <1>5, <2>1 DEF Moves
<1>6. ASSUME NEW c \in Calls, Takes(c) PROVE Owned'
  <2> DEFINE n == Len(idle)
             k == idle[n]
  <2>1. /\ n \in 1..Len(idle) /\ k \in Conns /\ Len(idle') = n - 1
        /\ \A i \in 1..(n - 1) : idle'[i] = idle[i] /\ i \in 1..Len(idle) /\ i # n
    BY <1>1, <1>6 DEF Takes
  <2>2. call'[c].cn = k /\ conn' = conn /\ ~Uses(c) /\ \A d \in Calls \ {c} : call'[d] = call[d]
    BY <1>6 DEF Takes, Others, Uses
  <2>3. \A d \in Calls \ {c} : Uses(d)' = Uses(d) /\ call'[d].cn = call[d].cn
    BY <2>2 DEF Uses
  <2> HIDE DEF n, k
  <2>4. conn[k].mine /\ \A d \in Calls : Uses(d) => call[d].cn # k
    BY <1>3, <2>1 DEF k
  <2>5. \A i \in 1..(n - 1) : idle[i] # k
    BY <1>3, <2>1 DEF k
  <2>6. \A d \in Calls : Uses(d)' => conn'[call'[d].cn].mine
    BY <1>3, <2>2, <2>3, <2>4
  <2>7. \A d, e \in Calls : Uses(d)' /\ Uses(e)' /\ call'[d].cn = call'[e].cn => d = e
    BY <1>3, <2>2, <2>3, <2>4
  <2>8. \A i \in 1..Len(idle') :
           conn'[idle'[i]].mine /\ \A d \in Calls : Uses(d)' => call'[d].cn # idle'[i]
    BY <1>3, <2>1, <2>2, <2>3, <2>5
  <2>9. \A i, j \in 1..Len(idle') : idle'[i] = idle'[j] => i = j
    BY <1>3, <2>1
  <2> QED
    BY <2>6, <2>7, <2>8, <2>9 DEF Owned
<1>7. ASSUME NEW c \in Calls, PutsBack(c) PROVE Owned'
  <2> DEFINE n == Len(idle)
             k == call[c].cn
  <2>1. /\ Uses(c) /\ ~Uses(c)' /\ Len(idle') = n + 1 /\ idle'[n + 1] = k /\ conn' = conn
        /\ \A i \in 1..n : idle'[i] = idle[i]
        /\ \A d \in Calls \ {c} : Uses(d)' = Uses(d) /\ call'[d].cn = call[d].cn
    BY <1>7 DEF PutsBack, Uses, Others
  <2>2. \A i \in 1..Len(idle') : i \in 1..n \/ i = n + 1
    BY <1>1, <2>1
  <2> HIDE DEF n, k
  <2>3. conn[k].mine /\ (\A i \in 1..n : idle[i] # k) /\ \A d \in Calls \ {c} : Uses(d) => call[d].cn # k
    BY <1>3, <2>1 DEF n, k
  <2>4. \A d \in Calls : Uses(d)' => conn'[call'[d].cn].mine
    BY <1>3, <2>1
  <2>5. \A d, e \in Calls : Uses(d)' /\ Uses(e)' /\ call'[d].cn = call'[e].cn => d = e
    BY <1>3, <2>1
  <2>6. \A i \in 1..Len(idle') :
           conn'[idle'[i]].mine /\ \A d \in Calls : Uses(d)' => call'[d].cn # idle'[i]
    BY <1>3, <2>1, <2>2, <2>3 DEF n
  <2>7. \A i, j \in 1..Len(idle') : idle'[i] = idle'[j] => i = j
    BY <1>3, <2>1, <2>2, <2>3 DEF n
  <2> QED
    BY <2>4, <2>5, <2>6, <2>7 DEF Owned
<1>8. ASSUME NEW c \in Calls, NEW k \in Conns, Opens(c, k) PROVE Owned'
  <2>1. /\ ~Uses(c) /\ ~conn[k].mine /\ conn'[k].mine /\ idle' = idle /\ call'[c].cn = k
        /\ \A d \in Calls \ {c} : Uses(d)' = Uses(d) /\ call'[d].cn = call[d].cn
        /\ \A j \in Conns \ {k} : conn'[j] = conn[j]
    BY <1>8 DEF Opens, Uses, Others, OtherPipes, Fresh
  <2>2. (\A d \in Calls : Uses(d) => call[d].cn # k) /\ \A i \in 1..Len(idle) : idle[i] # k
    BY <1>3, <2>1
  <2>3. \A d \in Calls : Uses(d)' => conn'[call'[d].cn].mine
    BY <1>2, <1>3, <2>1, <2>2
  <2>4. \A d, e \in Calls : Uses(d)' /\ Uses(e)' /\ call'[d].cn = call'[e].cn => d = e
    BY <1>3, <2>1, <2>2
  <2>5. \A i \in 1..Len(idle') :
           conn'[idle'[i]].mine /\ \A d \in Calls : Uses(d)' => call'[d].cn # idle'[i]
    BY <1>1, <1>3, <2>1, <2>2
  <2> QED
    BY <1>3, <2>1, <2>3, <2>4, <2>5 DEF Owned
<1>9. ASSUME NEW c \in Calls, NEW k \in Conns, Sends(c, k) \/ Hears(c, k) PROVE Owned'
  <2>1. /\ idle' = idle /\ Uses(c) /\ call'[c].cn = call[c].cn
        /\ \A d \in Calls \ {c} : call'[d] = call[d]
        /\ conn'[k].mine = conn[k].mine /\ \A j \in Conns \ {k} : conn'[j] = conn[j]
    BY <1>9 DEF Sends, Hears, Uses, Others, OtherPipes, SameEnds
  <2>2. \A d \in Calls : Uses(d)' => Uses(d) /\ call'[d].cn = call[d].cn
    BY <2>1 DEF Uses
  <2> QED
    BY <1>4, <2>1, <2>2
<1>10. ASSUME NEW c \in Calls, NEW k \in Conns, Leaves(c, k) PROVE Owned'
  <2>1. /\ idle' = idle /\ Uses(c) /\ ~Uses(c)' /\ call[c].cn = k
        /\ \A d \in Calls \ {c} : Uses(d)' = Uses(d) /\ call'[d].cn = call[d].cn
        /\ \A j \in Conns \ {k} : conn'[j] = conn[j]
    BY <1>10 DEF Leaves, Uses, Others, OtherPipes
  <2>2. (\A d \in Calls \ {c} : Uses(d) => call[d].cn # k) /\ \A i \in 1..Len(idle) : idle[i] # k
    BY <1>3, <2>1
  <2>3. \A d \in Calls : Uses(d)' => conn'[call'[d].cn].mine
    BY <1>2, <1>3, <2>1, <2>2
  <2>4. \A d, e \in Calls : Uses(d)' /\ Uses(e)' /\ call'[d].cn = call'[e].cn => d = e
    BY <1>3, <2>1
  <2>5. \A i \in 1..Len(idle') :
           conn'[idle'[i]].mine /\ \A d \in Calls : Uses(d)' => call'[d].cn # idle'[i]
    BY <1>1, <1>3, <2>1, <2>2
  <2> QED
    BY <1>3, <2>1, <2>3, <2>4, <2>5 DEF Owned
<1>11. ASSUME UNCHANGED <<idle, call>>, \A k \in Conns : conn'[k].mine = conn[k].mine PROVE Owned'
  BY <1>4, <1>11 DEF Uses
<1>12. ASSUME NEW k \in Conns, NEW q, NEW is, Serves(k, q, is) PROVE Owned'
  BY <1>11, <1>12 DEF Serves, OtherPipes, SameEnds
<1>13. ASSUME NEW k \in Conns, Closes(k) PROVE Owned'
  BY <1>11, <1>13 DEF Closes, OtherPipes
<1>14. CASE Cuts
  BY <1>11, <1>14 DEF Cuts
<1>15. CASE UNCHANGED <<idle, conn, call, ran, restarts>>
  BY <1>11, <1>15
<1> QED
  BY <1>5, <1>6, <1>7, <1>8, <1>9, <1>10, <1>12, <1>13, <1>14, <1>15 DEF PoolStep

-----------------------------------------------------------------------------
(* What is under way on a connection is its user's. *)

LEMMA Singles ==
  /\ \A m : <<m>> # <<>> /\ Len(<<m>>) = 1 /\ <<m>>[1] = m
  /\ \A m : Append(<<>>, m) = <<m>>
OBVIOUS

\* A sequence of one element is that element.
LEMMA OnlyOne ==
  ASSUME NEW S, NEW s \in Seq(S), Len(s) = 1
  PROVE  s = <<s[1]>> /\ Tail(s) = <<>> /\ s # <<>>
<1>1. s # <<>>
  OBVIOUS
<1>2. Tail(s) \in Seq(S) /\ Len(Tail(s)) = 0
  BY <1>1
<1>3. Tail(s) = <<>>
  BY <1>2, EmptySeq
<1>4. s[1] \in S
  BY <1>1
<1>5. <<s[1]>> \in Seq(S) /\ Len(<<s[1]>>) = 1 /\ <<s[1]>>[1] = s[1]
  BY <1>4
<1>6. \A i \in 1..Len(s) : s[i] = <<s[1]>>[i]
  BY <1>5
<1>7. s = <<s[1]>>
  BY <1>5, <1>6, SeqEqual
<1> QED
  BY <1>1, <1>3, <1>7

\* A call that does not move, and whose connection stays as it is.
LEMMA PipeFrame ==
  ASSUME NEW d \in Calls, PipeOf(d), call'[d] = call[d],
         Uses(d) => conn'[call[d].cn] = conn[call[d].cn]
  PROVE  PipeOf(d)'
BY DEF PipeOf, Awaits, Quiet, Uses, Says

LEMMA PipesKept ==
  ASSUME PoolInv, Owned, Pipes, PoolStep
  PROVE  Pipes'
<1>1. idle \in Seq(Conns) /\ Len(idle) \in Nat /\ \A i \in 1..Len(idle) : idle[i] \in Conns
  BY DEF PoolInv, TypeOK
<1>2. \A c \in Calls : Uses(c) => call[c].cn \in Conns
  BY DEF PoolInv, UsesConn, Uses
<1>3. \A k \in Conns : conn[k].inbox \in Seq(Request) /\ conn[k].outbox \in Seq(Reply)
  BY DEF PoolInv, TypeOK, Conn
<1>4. /\ \A c \in Calls : Uses(c) => conn[call[c].cn].mine
      /\ \A c, d \in Calls : Uses(c) /\ Uses(d) /\ call[c].cn = call[d].cn => c = d
      /\ \A i \in 1..Len(idle) :
           conn[idle[i]].mine /\ \A c \in Calls : Uses(c) => call[c].cn # idle[i]
  BY DEF Owned
<1>5. /\ \A i \in 1..Len(idle) : Quiet(idle[i])
      /\ \A k \in Conns : conn[k].inbox # <<>> => Len(conn[k].inbox) = 1
      /\ \A c \in Calls : PipeOf(c)
  BY DEF Pipes
\* A step of call c that leaves the connections alone.
<1>6. ASSUME NEW c \in Calls, Others(c), conn' = conn, \A i \in 1..Len(idle') : Quiet(idle'[i]),
             PipeOf(c)'
      PROVE  Pipes'
  <2>1. \A d \in Calls \ {c} : PipeOf(d)'
    BY <1>5, <1>6, PipeFrame DEF Others
  <2>2. \A i \in 1..Len(idle') : conn'[idle'[i]].inbox = <<>> /\ conn'[idle'[i]].outbox = <<>>
    BY <1>6 DEF Quiet
  <2> QED
    BY <1>5, <1>6, <2>1, <2>2 DEF Pipes, Quiet
\* A step of call c on connection k, which no other call uses.
<1>7. ASSUME NEW c \in Calls, NEW k \in Conns, Others(c), OtherPipes(k), idle' = idle,
             ~conn[k].mine \/ (Uses(c) /\ call[c].cn = k),
             conn'[k].inbox # <<>> => Len(conn'[k].inbox) = 1, PipeOf(c)'
      PROVE  Pipes'
  <2>1. \A d \in Calls \ {c} : Uses(d) => call[d].cn # k
    BY <1>4, <1>7
  <2>2. \A i \in 1..Len(idle) : idle[i] # k
    BY <1>4, <1>7
  <2>3. \A d \in Calls \ {c} : PipeOf(d)'
    BY <1>2, <1>5, <1>7, <2>1, PipeFrame DEF Others, OtherPipes
  <2>4. \A i \in 1..Len(idle') : conn'[idle'[i]].inbox = <<>> /\ conn'[idle'[i]].outbox = <<>>
    BY <1>1, <1>5, <1>7, <2>2 DEF Quiet, OtherPipes
  <2>5. \A j \in Conns : conn'[j].inbox # <<>> => Len(conn'[j].inbox) = 1
    BY <1>5, <1>7 DEF OtherPipes
  <2> QED
    BY <1>7, <2>3, <2>4, <2>5 DEF Pipes, Quiet
<1>8. ASSUME NEW c \in Calls, Moves(c) PROVE Pipes'
  <2>1. PipeOf(c)'
    BY <1>5, <1>8 DEF Moves, PipeOf, After
  <2> QED
    BY <1>5, <1>6, <1>8, <2>1 DEF Moves
<1>9. ASSUME NEW c \in Calls, Takes(c) PROVE Pipes'
  <2>1. Len(idle) \in 1..Len(idle) /\ \A i \in 1..Len(idle') : i \in 1..Len(idle) /\ idle'[i] = idle[i]
    BY <1>1, <1>9 DEF Takes
  <2>2. Quiet(call'[c].cn) /\ conn' = conn
    BY <1>5, <1>9, <2>1 DEF Takes
  <2>3. PipeOf(c)'
    BY <1>5, <1>9, <2>2 DEF Takes, PipeOf, Quiet, SameSpeech
  <2> QED
    BY <1>5, <1>6, <1>9, <2>1, <2>3 DEF Takes
<1>10. ASSUME NEW c \in Calls, PutsBack(c) PROVE Pipes'
  <2>1. Quiet(call[c].cn)
    BY <1>5, <1>10 DEF PutsBack, PipeOf
  <2>2. \A i \in 1..Len(idle') : Quiet(idle'[i])
    <3>1. \A i \in 1..Len(idle') : i \in 1..Len(idle) \/ i = Len(idle) + 1
      BY <1>1, <1>10 DEF PutsBack
    <3> QED
      BY <1>5, <1>10, <2>1, <3>1 DEF PutsBack
  <2>3. PipeOf(c)'
    BY <1>5, <1>10 DEF PutsBack, PipeOf, SameSpeech
  <2> QED
    BY <1>6, <1>10, <2>2, <2>3 DEF PutsBack
<1>11. ASSUME NEW c \in Calls, NEW k \in Conns, Opens(c, k) PROVE Pipes'
  <2>1. conn'[k].inbox = <<>> /\ conn'[k].outbox = <<>>
    BY <1>11 DEF Opens, Fresh
  <2>2. PipeOf(c)'
    BY <1>5, <1>11, <2>1 DEF Opens, PipeOf, Quiet, SameSpeech
  <2> QED
    BY <1>7, <1>11, <2>1, <2>2 DEF Opens
<1>12. ASSUME NEW c \in Calls, NEW k \in Conns, Sends(c, k) PROVE Pipes'
  <2> DEFINE m == [to |-> c, cmd |-> Says(c)]
  <2>1. Uses(c) /\ call[c].cn = k /\ conn[k].inbox = <<>> /\ conn[k].outbox = <<>>
    BY <1>5, <1>12 DEF Sends, PipeOf, Quiet, Uses
  <2>2. Says(c)' = Says(c)
    BY <1>12 DEF Sends, Says, SameSpeech
  <2>3. /\ conn'[k].peer = conn[k].peer /\ conn'[k].outbox = <<>>
        /\ conn'[k].inbox = IF conn[k].peer THEN Append(<<>>, m) ELSE <<>>
    BY <1>12, <2>1 DEF Sends, SameEnds
  <2> HIDE DEF m
  <2>4. conn'[k].inbox = IF conn'[k].peer THEN <<m>> ELSE <<>>
    BY <2>3, Singles
  <2>5. conn'[k].inbox # <<>> => Len(conn'[k].inbox) = 1
    BY <2>4, Singles
  <2>6. Awaits(c)'
    <3>1. call'[c].cn = k /\ m = [to |-> c, cmd |-> Says(c)']
      BY <1>12, <2>2 DEF Sends, m
    <3>2. (conn'[k].inbox = <<>> /\ ~conn'[k].peer) \/ (conn'[k].inbox = <<m>> /\ conn'[k].peer)
      BY <2>4
    <3> QED
      BY <2>3, <3>1, <3>2 DEF Awaits
  <2>7. PipeOf(c)'
    BY <1>5, <1>12, <2>6 DEF Sends, PipeOf, SameSpeech
  <2> QED
    BY <1>7, <1>12, <2>1, <2>5, <2>7 DEF Sends
<1>13. ASSUME NEW c \in Calls, NEW k \in Conns, Hears(c, k) PROVE Pipes'
  <2>1. Uses(c) /\ call[c].cn = k /\ Awaits(c) /\ conn[k].outbox # <<>>
    BY <1>5, <1>13 DEF Hears, PipeOf, Uses
  <2>2. conn[k].inbox = <<>> /\ Len(conn[k].outbox) = 1
    BY <2>1 DEF Awaits
  <2>3. conn'[k].inbox = <<>> /\ conn'[k].outbox = <<>>
    BY <1>3, <1>13, <2>2, OnlyOne DEF Hears
  <2>4. PipeOf(c)'
    BY <1>5, <1>13, <2>3 DEF Hears, PipeOf, Quiet, SameSpeech
  <2> QED
    BY <1>7, <1>13, <2>1, <2>3, <2>4 DEF Hears
<1>14. ASSUME NEW c \in Calls, NEW k \in Conns, Leaves(c, k) PROVE Pipes'
  <2>1. Uses(c) /\ call[c].cn = k
    BY <1>14 DEF Leaves, Uses
  <2>2. PipeOf(c)'
    BY <1>5, <1>14 DEF Leaves, PipeOf
  <2>3. conn'[k].inbox # <<>> => Len(conn'[k].inbox) = 1
    BY <1>5, <1>14 DEF Leaves
  <2> QED
    BY <1>7, <1>14, <2>1, <2>2, <2>3 DEF Leaves
\* A step of the store on connection k: what is there is what its user waits for.
<1>15. ASSUME NEW k \in Conns, OtherPipes(k), UNCHANGED <<idle, call>>,
              conn'[k].inbox = <<>>,
              \A i \in 1..Len(idle) : idle[i] = k => conn'[k].outbox = <<>>,
              \A c \in Calls : Uses(c) /\ call[c].cn = k => PipeOf(c)'
       PROVE  Pipes'
  <2>1. \A d \in Calls : PipeOf(d)'
    BY <1>2, <1>5, <1>15, PipeFrame DEF OtherPipes
  <2>2. \A i \in 1..Len(idle') : conn'[idle'[i]].inbox = <<>> /\ conn'[idle'[i]].outbox = <<>>
    BY <1>1, <1>5, <1>15 DEF Quiet, OtherPipes
  <2>3. \A j \in Conns : conn'[j].inbox # <<>> => Len(conn'[j].inbox) = 1
    BY <1>5, <1>15 DEF OtherPipes
  <2> QED
    BY <2>1, <2>2, <2>3 DEF Pipes, Quiet
<1>16. ASSUME NEW k \in Conns, NEW q, NEW is, Serves(k, q, is) PROVE Pipes'
  <2>1. conn[k].inbox = <<q>> /\ conn'[k].inbox = <<>>
    <3>1. Len(conn[k].inbox) = 1 /\ q = conn[k].inbox[1]
      BY <1>5, <1>16 DEF Serves
    <3> QED
      BY <1>3, <1>16, <3>1, OnlyOne DEF Serves
  <2>2. \A i \in 1..Len(idle) : idle[i] # k
    BY <1>5, <1>16 DEF Serves, Quiet
  <2>3. ASSUME NEW c \in Calls, Uses(c), call[c].cn = k PROVE PipeOf(c)'
    <3>1. call[c].at = "read" /\ Awaits(c)
      BY <1>5, <1>16, <2>3 DEF Serves, PipeOf, Quiet, Uses
    <3>2. conn[k].inbox = <<[to |-> c, cmd |-> Says(c)]>> /\ conn[k].outbox = <<>> /\ conn[k].mine
      BY <1>4, <1>16, <2>3, <3>1 DEF Serves, Awaits
    <3>3. q.to = c
      <4>1. q = [to |-> c, cmd |-> Says(c)]
        BY <2>1, <3>2, Singles
      <4> QED
        BY <4>1
    <3>4. conn'[k].outbox = <<[to |-> c, is |-> is]>>
      BY <1>16, <3>2, <3>3, Singles DEF Serves
    <3>5. Len(conn'[k].outbox) = 1 /\ conn'[k].outbox[1].to = c
      BY <3>4
    <3> QED
      BY <1>5, <1>16, <2>1, <2>3, <3>1, <3>5 DEF Serves, PipeOf, Awaits
  <2> QED
    BY <1>15, <1>16, <2>1, <2>2, <2>3 DEF Serves
<1>17. ASSUME NEW k \in Conns, Closes(k) PROVE Pipes'
  <2>1. ASSUME NEW c \in Calls, Uses(c), call[c].cn = k PROVE PipeOf(c)'
    BY <1>5, <1>17, <2>1 DEF Closes, PipeOf, Awaits, Quiet
  <2> QED
    BY <1>15, <1>17, <2>1 DEF Closes
<1>18. CASE Cuts
  <2>1. ASSUME NEW c \in Calls PROVE PipeOf(c)'
    <3>1. Uses(c) => call[c].cn \in Conns
      BY <1>2
    <3>2. PipeOf(c) /\ call'[c] = call[c]
      BY <1>5, <1>18 DEF Cuts
    <3>3. CASE call[c].at \in {"send", "put"}
      BY <1>18, <3>1, <3>2, <3>3 DEF Cuts, PipeOf, Quiet, Uses
    <3>4. CASE call[c].at = "read"
      <4>1. Awaits(c) /\ call[c].cn \in Conns
        BY <3>1, <3>2, <3>4 DEF PipeOf, Uses
      <4>2. /\ ~conn'[call[c].cn].peer /\ conn'[call[c].cn].inbox = <<>>
            /\ conn'[call[c].cn].outbox \in {<<>>, conn[call[c].cn].outbox}
        BY <1>18, <4>1 DEF Cuts
      <4>3. Awaits(c)'
        BY <3>2, <4>1, <4>2 DEF Awaits
      <4> QED
        BY <3>2, <3>4, <4>3 DEF PipeOf
    <3>5. CASE ~Uses(c)
      BY <3>2, <3>5 DEF PipeOf, Uses
    <3> QED
      BY <3>3, <3>4, <3>5 DEF Uses
  <2>2. \A i \in 1..Len(idle') : conn'[idle'[i]].inbox = <<>> /\ conn'[idle'[i]].outbox = <<>>
    <3>1. ASSUME NEW i \in 1..Len(idle) PROVE conn'[idle[i]].inbox = <<>> /\ conn'[idle[i]].outbox = <<>>
      <4>1. idle[i] \in Conns /\ Quiet(idle[i])
        BY <1>1, <1>5
      <4>2. conn'[idle[i]].inbox = <<>> /\ conn'[idle[i]].outbox \in {<<>>, conn[idle[i]].outbox}
        BY <1>18, <4>1 DEF Cuts
      <4> QED
        BY <1>18, <4>1, <4>2 DEF Cuts, Quiet
    <3> QED
      BY <1>18, <3>1 DEF Cuts
  <2>3. \A k \in Conns : conn'[k].inbox = <<>>
    BY <1>18 DEF Cuts
  <2> QED
    BY <2>1, <2>2, <2>3 DEF Pipes, Quiet
<1>19. CASE UNCHANGED <<idle, conn, call, ran, restarts>>
  BY <1>5, <1>19 DEF Pipes, PipeOf, Awaits, Quiet, Says
<1> QED
  BY <1>8, <1>9, <1>10, <1>11, <1>12, <1>13, <1>14, <1>16, <1>17, <1>18, <1>19 DEF PoolStep

-----------------------------------------------------------------------------
(* An answer is the answer to the call's own command. *)

LEMMA AnsweredKept ==
  ASSUME PoolInv, Owned, Pipes, Answered, PoolStep
  PROVE  Answered'
<1>1. /\ \A c \in Calls : call[c].result = "ok" => ran[c] > 0
      /\ \A c \in Calls : Told(c) => ran[c] > 0
  BY DEF Answered, AnsweredOnlyIfRun
<1>2. \A c \in Calls : ran[c] \in Nat
  BY DEF PoolInv, TypeOK
<1>3. \A c \in Calls : Uses(c) => call[c].cn \in Conns
  BY DEF PoolInv, UsesConn, Uses
<1>4. \A c, d \in Calls : Uses(c) /\ Uses(d) /\ call[c].cn = call[d].cn => c = d
  BY DEF Owned
<1>5. \A c \in Calls : PipeOf(c)
  BY DEF Pipes
\* A step of call c that tells it nothing, and no other call anything.
<1>6. ASSUME NEW c \in Calls, Others(c), ran' = ran,
             \A d \in Calls \ {c} : Uses(d) => conn'[call[d].cn] = conn[call[d].cn],
             call'[c].result = "ok" => ran[c] > 0,
             ~Told(c)'
      PROVE  Answered'
  <2>1. \A d \in Calls \ {c} : call'[d] = call[d]
    BY <1>6 DEF Others
  <2>2. \A d \in Calls \ {c} : Told(d)' => Told(d)
    BY <1>6, <2>1 DEF Told, Uses
  <2> QED
    BY <1>1, <1>6, <2>1, <2>2 DEF Answered, AnsweredOnlyIfRun
<1>7. ASSUME NEW c \in Calls, NEW k \in Conns, Others(c), OtherPipes(k), ran' = ran,
             \A d \in Calls \ {c} : Uses(d) => call[d].cn # k,
             call'[c].result = "ok" => ran[c] > 0, call'[c].at # "read" \/ conn'[call'[c].cn].outbox = <<>>
      PROVE  Answered'
  BY <1>3, <1>6, <1>7 DEF OtherPipes, Told
<1>8. ASSUME NEW c \in Calls, Moves(c) \/ Takes(c) \/ PutsBack(c) PROVE Answered'
  <2>1. Others(c) /\ ran' = ran /\ conn' = conn /\ call'[c].at # "read"
    BY <1>8 DEF Moves, Takes, PutsBack, After
  <2>2. call'[c].result = "ok" => ran[c] > 0
    BY <1>1, <1>8 DEF Moves, Takes, PutsBack, SameSpeech
  <2> QED
    BY <1>6, <2>1, <2>2 DEF Told
<1>9. ASSUME NEW c \in Calls, NEW k \in Conns, Opens(c, k) PROVE Answered'
  <2>1. \A d \in Calls \ {c} : Uses(d) => call[d].cn # k
    BY <1>9 DEF Opens, Owned
  <2>2. call'[c].result = "ok" => ran[c] > 0
    BY <1>1, <1>9 DEF Opens, SameSpeech
  <2> QED
    BY <1>7, <1>9, <2>1, <2>2 DEF Opens
<1>10. ASSUME NEW c \in Calls, NEW k \in Conns, Sends(c, k) \/ Leaves(c, k) \/ Hears(c, k)
       PROVE  \A d \in Calls \ {c} : Uses(d) => call[d].cn # k
  BY <1>4, <1>10 DEF Sends, Leaves, Hears, Uses
<1>11. ASSUME NEW c \in Calls, NEW k \in Conns, Sends(c, k) PROVE Answered'
  <2>1. conn'[k].outbox = <<>>
    BY <1>5, <1>11 DEF Sends, PipeOf, Quiet
  <2>2. call'[c].result = "ok" => ran[c] > 0
    BY <1>1, <1>11 DEF Sends, SameSpeech
  <2> QED
    BY <1>7, <1>10, <1>11, <2>1, <2>2 DEF Sends
<1>12. ASSUME NEW c \in Calls, NEW k \in Conns, Leaves(c, k) PROVE Answered'
  <2>1. call'[c].at # "read"
    BY <1>12 DEF Leaves
  <2> QED
    BY <1>7, <1>10, <1>12, <2>1 DEF Leaves
<1>13. ASSUME NEW c \in Calls, NEW k \in Conns, Hears(c, k) PROVE Answered'
  <2>1. call'[c].at # "read" /\ Others(c) /\ OtherPipes(k) /\ ran' = ran
    BY <1>13 DEF Hears
  <2>2. CASE call[c].greets > 0
    <3>1. call[c].greets # 0
      BY <2>2
    <3>2. call'[c].result = call[c].result
      BY <3>1, <1>13 DEF Hears, SameSpeech
    <3> QED
      BY <1>1, <1>7, <1>10, <1>13, <2>1, <3>2
  <2>3. CASE call[c].greets = 0
    <3>1. call'[c].result = "ok" => Told(c)
      BY <1>13, <2>3 DEF Hears, Told
    <3> QED
      BY <1>1, <1>7, <1>10, <1>13, <2>1, <3>1
  <2>4. call[c].greets \in Nat
    BY DEF PoolInv, TypeOK, Call
  <2> QED
    BY <2>2, <2>3, <2>4
<1>14. ASSUME NEW k \in Conns, NEW q, NEW is, Serves(k, q, is) PROVE Answered'
  <2>1. /\ call' = call /\ OtherPipes(k) /\ conn[k].inbox # <<>> /\ q = conn[k].inbox[1]
        /\ q.to \in Calls
        /\ conn'[k].outbox = IF conn[k].mine THEN Append(conn[k].outbox, [to |-> q.to, is |-> is])
                             ELSE conn[k].outbox
        /\ \A d \in Calls :
             ran'[d] = IF d = q.to /\ is = "ok" /\ q.cmd # "HELLO" THEN ran[d] + 1 ELSE ran[d]
    BY <1>14 DEF Serves
  <2>2. \A d \in Calls : ran[d] > 0 => ran'[d] > 0
    BY <1>2, <2>1
  <2>3. ASSUME NEW d \in Calls, Told(d)' PROVE ran'[d] > 0
    <3>1. Uses(d) /\ call[d].at = "read" /\ call[d].greets = 0 /\ call[d].cn \in Conns
      BY <1>3, <2>1, <2>3 DEF Told, Uses
    <3>2. CASE call[d].cn # k
      BY <1>1, <2>1, <2>2, <2>3, <3>1, <3>2 DEF Told, OtherPipes
    <3>3. CASE call[d].cn = k
      <4>1. conn[k].inbox = <<[to |-> d, cmd |-> call[d].cmd]>> /\ conn[k].outbox = <<>>
        BY <1>5, <2>1, <3>1, <3>3 DEF PipeOf, Awaits, Says
      <4>2. q = [to |-> d, cmd |-> call[d].cmd]
        BY <2>1, <4>1, Singles
      <4>3. q.to = d /\ q.cmd # "HELLO"
        BY <1>5, <4>2 DEF PipeOf
      <4>4. conn'[k].outbox \in {<<>>, <<[to |-> q.to, is |-> is]>>}
        BY <2>1, <4>1, Singles
      <4>5. conn'[k].outbox = <<[to |-> q.to, is |-> is]>> /\ conn'[k].outbox[1].is = "ok"
        BY <2>1, <2>3, <3>3, <4>4 DEF Told
      <4>6. is = "ok"
        BY <4>5, Singles
      <4> QED
        BY <1>2, <2>1, <4>3, <4>6
    <3> QED
      BY <3>2, <3>3
  <2> QED
    BY <1>1, <2>1, <2>2, <2>3 DEF Answered, AnsweredOnlyIfRun
<1>15. ASSUME call' = call, ran' = ran,
              \A k \in Conns : conn'[k].outbox \in {<<>>, conn[k].outbox}
       PROVE  Answered'
  <2>1. \A d \in Calls : Told(d)' => Told(d)
    BY <1>3, <1>15 DEF Told, Uses
  <2> QED
    BY <1>1, <1>15, <2>1 DEF Answered, AnsweredOnlyIfRun
<1>16. ASSUME NEW k \in Conns, Closes(k) PROVE Answered'
  BY <1>15, <1>16 DEF Closes, OtherPipes
<1>17. CASE Cuts
  BY <1>15, <1>17 DEF Cuts
<1>18. CASE UNCHANGED <<idle, conn, call, ran, restarts>>
  BY <1>15, <1>18
<1> QED
  BY <1>8, <1>9, <1>11, <1>12, <1>13, <1>14, <1>16, <1>17, <1>18 DEF PoolStep

-----------------------------------------------------------------------------
(* A command runs again only after a restart. *)

\* A step of call c that puts no request on a connection.
LEMMA AskingFrame ==
  ASSUME PoolInv, Asking, NEW c \in Calls, Others(c), ran' = ran, restarts' = restarts,
         \A j \in Conns : conn'[j].inbox \in {<<>>, conn[j].inbox},
         \A d \in Calls \ {c} : Uses(d) => conn'[call[d].cn] = conn[call[d].cn],
         ~Ran(c)' => ran[c] <= restarts,
         \A j \in Conns : Asks(c, j) /\ conn'[j].inbox = conn[j].inbox => call'[c].at = "done"
  PROVE  Asking'
<1>1. \A d \in Calls : /\ ran[d] <= 1 + restarts
                       /\ ~Ran(d) => ran[d] <= restarts
  BY DEF Asking
<1>2. \A d \in Calls, j \in Conns : Asks(d, j)' => Asks(d, j) /\ conn'[j].inbox = conn[j].inbox
  BY DEF Asks
<1>3. \A d \in Calls \ {c} : call'[d] = call[d]
  BY DEF Others
<1>4. \A d \in Calls \ {c} : ~Ran(d)' => ~Ran(d)
  BY <1>3 DEF Ran, Told, Uses
<1>5. \A d \in Calls : ~Ran(d)' => ran[d] <= restarts
  BY <1>1, <1>4
<1>6. \A d \in Calls, j \in Conns : Asks(d, j)' =>
        \/ call'[d].at = "done"
        \/ call'[d].at = "read" /\ call'[d].greets = 0 /\ call'[d].cn = j
  BY <1>2, <1>3 DEF Asking
<1>7. \A d \in Calls, j \in Conns : Asks(d, j)' =>
        /\ ran[d] <= restarts
        /\ \A i \in Conns : Asks(d, i)' => i = j
  BY <1>2 DEF Asking
<1> QED
  BY <1>1, <1>5, <1>6, <1>7 DEF Asking

LEMMA AskingKept ==
  ASSUME PoolInv, Owned, Pipes, Asking, PoolStep
  PROVE  Asking'
<1>1. \A c \in Calls : ran[c] \in Nat /\ call[c].greets \in Nat
  BY DEF PoolInv, TypeOK, Call
<1>2. restarts \in Nat
  BY DEF PoolInv, TypeOK
<1>3. \A c \in Calls : Uses(c) => call[c].cn \in Conns
  BY DEF PoolInv, UsesConn, Uses
<1>4. /\ \A c \in Calls : Uses(c) => conn[call[c].cn].mine
      /\ \A c, d \in Calls : Uses(c) /\ Uses(d) /\ call[c].cn = call[d].cn => c = d
  BY DEF Owned
<1>5. /\ \A c \in Calls : PipeOf(c)
      /\ \A k \in Conns : conn[k].inbox # <<>> => Len(conn[k].inbox) = 1
  BY DEF Pipes
<1>6. \A c \in Calls :
        /\ ran[c] <= 1 + restarts
        /\ ~Ran(c) => ran[c] <= restarts
        /\ \A k \in Conns : Asks(c, k) => ran[c] <= restarts
        /\ \A k \in Conns : Asks(c, k) => call[c].at = "done" \/ call[c].at = "read"
        /\ \A k \in Conns : Asks(c, k) /\ call[c].at # "done" => call[c].greets = 0 /\ call[c].cn = k
        /\ \A j, k \in Conns : Asks(c, j) /\ Asks(c, k) => j = k
  BY DEF Asking
<1>7. ASSUME NEW c \in Calls, NEW k \in Conns, Sends(c, k) \/ Leaves(c, k) \/ Hears(c, k)
      PROVE  \A d \in Calls \ {c} : Uses(d) => call[d].cn # k
  BY <1>4, <1>7 DEF Sends, Leaves, Hears, Uses
<1>8. ASSUME NEW c \in Calls, Moves(c) PROVE Asking'
  <2>1. \A j \in Conns : ~Asks(c, j)
    BY <1>6, <1>8 DEF Moves
  <2>2. ~Ran(c)' => ~Ran(c)
    BY <1>8 DEF Moves, Ran, Told, After
  <2>3. Others(c) /\ conn' = conn /\ ran' = ran /\ restarts' = restarts
    BY <1>8 DEF Moves
  <2> QED
    BY <1>6, <2>1, <2>2, <2>3, AskingFrame
<1>9. ASSUME NEW c \in Calls, Takes(c) \/ PutsBack(c) PROVE Asking'
  <2>1. \A j \in Conns : ~Asks(c, j)
    BY <1>6, <1>9 DEF Takes, PutsBack
  <2>2. ~Ran(c)' => ~Ran(c)
    BY <1>9 DEF Takes, PutsBack, SameSpeech, Ran, Told
  <2>3. Others(c) /\ conn' = conn /\ ran' = ran /\ restarts' = restarts
    BY <1>9 DEF Takes, PutsBack
  <2> QED
    BY <1>6, <2>1, <2>2, <2>3, AskingFrame
<1>10. ASSUME NEW c \in Calls, NEW k \in Conns, Opens(c, k) PROVE Asking'
  <2>1. \A j \in Conns : ~Asks(c, j)
    BY <1>6, <1>10 DEF Opens
  <2>2. ~Ran(c)
    BY <1>10 DEF Opens, Ran, Told
  <2>3. \A d \in Calls \ {c} : Uses(d) => call[d].cn # k
    BY <1>4, <1>10 DEF Opens
  <2>4. \A d \in Calls \ {c} : Uses(d) => conn'[call[d].cn] = conn[call[d].cn]
    BY <1>3, <1>10, <2>3 DEF Opens, OtherPipes
  <2>5. \A j \in Conns : conn'[j].inbox \in {<<>>, conn[j].inbox}
    BY <1>10 DEF Opens, OtherPipes, Fresh
  <2>6. Others(c) /\ ran' = ran /\ restarts' = restarts
    BY <1>10 DEF Opens
  <2> QED
    BY <1>6, <2>1, <2>2, <2>4, <2>5, <2>6, AskingFrame
<1>11. ASSUME NEW c \in Calls, NEW k \in Conns, Hears(c, k) \/ Leaves(c, k)
       PROVE  /\ \A d \in Calls \ {c} : Uses(d) => conn'[call[d].cn] = conn[call[d].cn]
              /\ \A j \in Conns : conn'[j].inbox \in {<<>>, conn[j].inbox}
              /\ Others(c) /\ ran' = ran /\ restarts' = restarts
              /\ call[c].at = "read" /\ call[c].cn = k /\ Awaits(c)
  <2>1. /\ OtherPipes(k) /\ Others(c) /\ ran' = ran /\ restarts' = restarts
        /\ conn'[k].inbox = conn[k].inbox /\ call[c].at = "read" /\ call[c].cn = k
    BY <1>11 DEF Hears, Leaves
  <2>2. \A d \in Calls \ {c} : Uses(d) => conn'[call[d].cn] = conn[call[d].cn]
    BY <1>3, <1>7, <1>11, <2>1 DEF OtherPipes
  <2>3. \A j \in Conns : conn'[j].inbox \in {<<>>, conn[j].inbox}
    BY <2>1 DEF OtherPipes
  <2>4. Awaits(c)
    BY <1>5, <2>1 DEF PipeOf
  <2> QED
    BY <2>1, <2>2, <2>3, <2>4
<1>12. ASSUME NEW c \in Calls, NEW k \in Conns, Hears(c, k) PROVE Asking'
  <2>1. conn[k].outbox # <<>> /\ conn[k].inbox = <<>>
    BY <1>11, <1>12 DEF Hears, Awaits
  <2>2. \A j \in Conns : ~Asks(c, j)
    <3>1. ~Asks(c, k)
      BY <2>1 DEF Asks
    <3> QED
      BY <1>6, <1>11, <1>12, <3>1
  <2>3. ~Ran(c)' => ~Ran(c)
    <3>1. CASE call[c].greets > 0
      BY <1>1, <1>11, <1>12, <3>1 DEF Ran, Told
    <3>2. CASE call[c].greets = 0
      <4>1. call'[c].at = "put" /\ (call'[c].result = "again" => conn[k].outbox[1].is # "ok")
        BY <1>12, <3>2 DEF Hears
      <4> QED
        BY <1>11, <1>12, <4>1 DEF Ran, Told
    <3> QED
      BY <1>1, <3>1, <3>2
  <2> QED
    BY <1>6, <1>11, <1>12, <2>2, <2>3, AskingFrame
<1>13. ASSUME NEW c \in Calls, NEW k \in Conns, Leaves(c, k) PROVE Asking'
  <2>1. CASE call'[c].at = "done"
    BY <1>11, <1>13, <2>1, AskingFrame DEF Ran
  <2>2. CASE call'[c].at # "done"
    <3>1. ~conn[k].peer /\ conn[k].outbox = <<>>
      BY <1>13, <2>2 DEF Leaves
    <3>2. call[c].cn = k /\ Awaits(c)
      BY <1>11, <1>13
    <3>6. conn[k].inbox = <<>>
      BY <3>1, <3>2 DEF Awaits
    <3>3. ~Asks(c, k)
      BY <3>6 DEF Asks
    <3>4. \A j \in Conns : ~Asks(c, j)
      BY <1>6, <1>11, <1>13, <3>3
    <3>5. ~Ran(c)
      BY <1>11, <1>13, <3>1 DEF Ran, Told
    <3> QED
      BY <1>6, <1>11, <1>13, <3>4, <3>5, AskingFrame
  <2> QED
    BY <2>1, <2>2
<1>14. ASSUME NEW c \in Calls, NEW k \in Conns, Sends(c, k) PROVE Asking'
  <2>1. /\ \A d \in Calls \ {c} : call'[d] = call[d]
        /\ \A j \in Conns \ {k} : conn'[j] = conn[j]
        /\ ran' = ran /\ restarts' = restarts
        /\ call[c].at = "send" /\ call'[c].at = "read" /\ call[c].cn = k /\ call'[c].cn = k
        /\ call'[c].greets = call[c].greets
        /\ conn'[k].outbox = conn[k].outbox
        /\ conn'[k].inbox = IF conn[k].peer THEN Append(conn[k].inbox, [to |-> c, cmd |-> Says(c)])
                            ELSE conn[k].inbox
    BY <1>14 DEF Sends, Others, OtherPipes
  <2>2. conn[k].inbox = <<>>
    BY <1>5, <2>1 DEF PipeOf, Quiet
  <2>3. conn'[k].inbox \in {<<>>, <<[to |-> c, cmd |-> Says(c)]>>}
    BY <2>1, <2>2, Singles
  <2>4. conn'[k].inbox # <<>> => conn'[k].inbox[1].to = c /\ conn'[k].inbox[1].cmd = Says(c)
    <3>1. CASE conn'[k].inbox = <<[to |-> c, cmd |-> Says(c)]>>
      <4>1. conn'[k].inbox[1] = [to |-> c, cmd |-> Says(c)]
        BY <3>1, Singles
      <4> QED
        BY <4>1
    <3> QED
      BY <2>3, <3>1
  <2>5. \A j \in Conns : ~Asks(c, j)
    BY <1>6, <2>1
  <2>6. ~Ran(c)
    BY <2>1 DEF Ran, Told
  <2>7. ASSUME NEW d \in Calls, NEW j \in Conns, Asks(d, j)'
        PROVE  \/ Asks(d, j) /\ d # c /\ j # k
               \/ d = c /\ j = k /\ call[c].greets = 0
    <3>1. CASE j = k
      <4>1. d = c /\ Says(c) # "HELLO"
        BY <2>4, <2>7, <3>1 DEF Asks
      <4> QED
        BY <1>1, <3>1, <4>1 DEF Says
    <3>2. CASE j # k
      BY <2>1, <2>5, <2>7, <3>2 DEF Asks
    <3> QED
      BY <3>1, <3>2
  <2>8. \A d \in Calls \ {c} : ~Ran(d)' => ~Ran(d)
    <3>1. \A d \in Calls \ {c} : Uses(d) => conn'[call[d].cn] = conn[call[d].cn]
      BY <1>3, <1>7, <1>14, <2>1
    <3> QED
      BY <2>1, <3>1 DEF Ran, Told, Uses
  <2>9. ASSUME NEW d \in Calls
        PROVE  /\ ran[d] <= 1 + restarts
               /\ ~Ran(d)' => ran[d] <= restarts
    BY <1>6, <2>6, <2>8
  <2>10. ASSUME NEW d \in Calls, NEW j \in Conns, Asks(d, j)'
         PROVE  /\ ran[d] <= restarts
                /\ \/ call'[d].at = "done"
                   \/ call'[d].at = "read" /\ call'[d].greets = 0 /\ call'[d].cn = j
                /\ \A i \in Conns : Asks(d, i)' => i = j
    <3>1. CASE d = c
      BY <1>6, <2>1, <2>6, <2>7, <2>10, <3>1
    <3>2. CASE d # c
      BY <1>6, <2>1, <2>7, <2>10, <3>2
    <3> QED
      BY <3>1, <3>2
  <2> QED
    BY <2>1, <2>9, <2>10 DEF Asking
<1>15. ASSUME NEW k \in Conns, NEW q, NEW is, Serves(k, q, is) PROVE Asking'
  <2>1. /\ call' = call /\ restarts' = restarts /\ conn[k].inbox # <<>> /\ q = conn[k].inbox[1]
        /\ q.to \in Calls
        /\ \A j \in Conns \ {k} : conn'[j] = conn[j]
        /\ conn'[k].inbox = Tail(conn[k].inbox)
        /\ conn'[k].outbox = IF conn[k].mine THEN Append(conn[k].outbox, [to |-> q.to, is |-> is])
                             ELSE conn[k].outbox
        /\ \A d \in Calls :
             ran'[d] = IF d = q.to /\ is = "ok" /\ q.cmd # "HELLO" THEN ran[d] + 1 ELSE ran[d]
    BY <1>15 DEF Serves, OtherPipes
  <2>2. conn'[k].inbox = <<>>
    <3>1. conn[k].inbox \in Seq(Request) /\ Len(conn[k].inbox) = 1
      BY <1>5, <2>1 DEF PoolInv, TypeOK, Conn
    <3> QED
      BY <2>1, <3>1, OnlyOne
  <2>3. \A d \in Calls, j \in Conns : Asks(d, j)' => Asks(d, j) /\ j # k
    BY <2>1, <2>2 DEF Asks
  \* The call served waits for this reply, or has gone.
  <2>4. \A d \in Calls : call[d].at = "read" /\ call[d].cn = k =>
          conn[k].outbox = <<>>
    <3>1. SUFFICES ASSUME NEW d \in Calls, call[d].at = "read", call[d].cn = k
                   PROVE  conn[k].outbox = <<>>
      OBVIOUS
    <3>2. Awaits(d)
      BY <1>5, <3>1 DEF PipeOf
    <3> QED
      BY <2>1, <3>1, <3>2 DEF Awaits
  <2>5. \A d \in Calls : Told(d) => Told(d)'
    BY <1>3, <2>1, <2>4 DEF Told, Uses
  <2>6. \A d \in Calls : ~Ran(d)' => ~Ran(d)
    BY <2>1, <2>5 DEF Ran
  <2>7. ASSUME NEW d \in Calls, ran'[d] # ran[d]
        PROVE  ran'[d] <= 1 + restarts /\ Ran(d)' /\ \A j \in Conns : ~Asks(d, j)'
    <3>1. d = q.to /\ is = "ok" /\ q.cmd # "HELLO" /\ ran'[d] = ran[d] + 1
      BY <2>1, <2>7
    <3>2. Asks(d, k)
      BY <2>1, <3>1 DEF Asks
    <3>3. ran'[d] <= 1 + restarts
      BY <1>1, <1>2, <1>6, <3>1, <3>2
    <3>4. \A j \in Conns : ~Asks(d, j)'
      BY <1>6, <2>3, <3>2
    <3>5. CASE call[d].at = "done"
      BY <2>1, <3>3, <3>4, <3>5 DEF Ran
    <3>6. CASE call[d].at # "done"
      <4>1. call[d].at = "read" /\ call[d].greets = 0 /\ call[d].cn = k
        BY <1>6, <3>2, <3>6
      <4>2. conn[k].mine /\ conn[k].outbox = <<>>
        BY <1>4, <2>4, <4>1 DEF Uses
      <4>3. conn'[k].outbox = <<[to |-> q.to, is |-> is]>>
        BY <2>1, <4>2, Singles
      <4>4. conn'[k].outbox # <<>> /\ conn'[k].outbox[1] = [to |-> q.to, is |-> is]
        BY <4>3, Singles
      <4>5. conn'[k].outbox[1].is = "ok"
        BY <3>1, <4>4
      <4>6. Told(d)'
        BY <2>1, <4>1, <4>4, <4>5 DEF Told
      <4> QED
        BY <3>3, <3>4, <4>6 DEF Ran
    <3> QED
      BY <3>5, <3>6
  <2>8. ASSUME NEW d \in Calls
        PROVE  /\ ran'[d] <= 1 + restarts
               /\ ~Ran(d)' => ran'[d] <= restarts
    BY <1>6, <2>6, <2>7
  <2>9. ASSUME NEW d \in Calls, NEW j \in Conns, Asks(d, j)'
        PROVE  /\ ran'[d] <= restarts
               /\ \/ call[d].at = "done"
                  \/ call[d].at = "read" /\ call[d].greets = 0 /\ call[d].cn = j
               /\ \A i \in Conns : Asks(d, i)' => i = j
    BY <1>6, <2>3, <2>7, <2>9
  <2> QED
    BY <2>1, <2>8, <2>9 DEF Asking
<1>16. ASSUME UNCHANGED <<call, ran, restarts>>,
              \A k \in Conns : conn'[k].inbox = conn[k].inbox /\ conn'[k].outbox = conn[k].outbox
       PROVE  Asking'
  <2>1. \A d \in Calls : Ran(d)' = Ran(d)
    BY <1>3, <1>16 DEF Ran, Told, Uses
  <2>2. \A d \in Calls, j \in Conns : Asks(d, j)' => Asks(d, j)
    BY <1>16 DEF Asks
  <2> QED
    BY <1>16, <2>1, <2>2 DEF Asking
<1>17. ASSUME NEW k \in Conns, Closes(k) PROVE Asking'
  BY <1>16, <1>17 DEF Closes, OtherPipes, Quiet
<1>18. CASE Cuts
  <2>1. call' = call /\ ran' = ran /\ restarts' = restarts + 1
        /\ \A k \in Conns : conn'[k].inbox = <<>>
    BY <1>18 DEF Cuts
  <2>2. \A d \in Calls, j \in Conns : ~Asks(d, j)'
    BY <2>1 DEF Asks
  <2>3. \A d \in Calls : ran[d] <= 1 + restarts' /\ ran[d] <= restarts'
    BY <1>1, <1>2, <1>6, <2>1
  <2> QED
    BY <2>1, <2>2, <2>3 DEF Asking
<1>19. CASE UNCHANGED <<idle, conn, call, ran, restarts>>
  BY <1>16, <1>19
<1> QED
  BY <1>8, <1>9, <1>10, <1>12, <1>13, <1>14, <1>15, <1>17, <1>18, <1>19 DEF PoolStep

-----------------------------------------------------------------------------
WireInv == PoolInv /\ Owned /\ Pipes /\ Answered /\ Asking

LEMMA WireInit == Init => WireInv
<1> SUFFICES ASSUME Init PROVE WireInv
  OBVIOUS
<1>1. PoolInv
  BY InitHolds
<1>2. /\ idle = <<>> /\ restarts = 0
      /\ \A c \in Calls : /\ ran[c] = 0 /\ call[c].at = "slot" /\ call[c].cmd = "EVALSHA"
                          /\ call[c].result = "none"
      /\ \A k \in Conns : conn[k].inbox = <<>> /\ conn[k].outbox = <<>>
  BY DEF Init, NewCall, NoPipe
<1>3. Len(idle) = 0
  BY <1>2
<1>4. Owned
  BY <1>2, <1>3 DEF Owned, Uses
<1>5. Pipes
  BY <1>2, <1>3 DEF Pipes, PipeOf
<1>6. Answered
  BY <1>2 DEF Answered, AnsweredOnlyIfRun, Told
<1>7. Asking
  BY <1>2 DEF Asking, Asks
<1> QED
  BY <1>1, <1>4, <1>5, <1>6, <1>7 DEF WireInv

LEMMA WireStep == WireInv /\ [Next]_vars => WireInv'
<1> SUFFICES ASSUME WireInv, [Next]_vars PROVE WireInv'
  OBVIOUS
<1>1. PoolInv /\ Owned /\ Pipes /\ Answered /\ Asking
  BY DEF WireInv
<1>2. PoolInv' /\ PoolStep
  BY <1>1, StepHolds, StepIs
<1>3. Owned'
  BY <1>1, <1>2, OwnedKept
<1>4. Pipes'
  BY <1>1, <1>2, PipesKept
<1>5. Answered'
  BY <1>1, <1>2, AnsweredKept
<1>6. Asking'
  BY <1>1, <1>2, AskingKept
<1> QED
  BY <1>2, <1>3, <1>4, <1>5, <1>6 DEF WireInv

LEMMA WireInvariant == Spec => []WireInv
BY WireInit, WireStep, PTL DEF Spec

\* A call that returned ok has had its own script run: no reply of another
\* call, and no late one, is ever taken for its answer.
THEOREM AnsweredCorrect == Spec => []AnsweredOnlyIfRun
<1>1. WireInv => AnsweredOnlyIfRun
  BY DEF WireInv, Answered
<1> QED
  BY <1>1, WireInvariant, PTL

\* A script runs once for a call and once more at most for each restart of the
\* store, whatever times out, is retried or is closed meanwhile.
THEOREM RerunsCorrect == Spec => []RerunsNeedRestart
<1>1. WireInv => RerunsNeedRestart
  BY DEF WireInv, Asking, RerunsNeedRestart
<1> QED
  BY <1>1, WireInvariant, PTL

=============================================================================
