-------------------------------- MODULE Usage --------------------------------
(***************************************************************************)
(* How the gateway learns what a call cost: the usage block of a JSON      *)
(* body, the usage frames of a Server-Sent Events stream read as it        *)
(* passes, and the price table that turns tokens into money.               *)
(*                                                                         *)
(* A usage block is a record of token counts; the three providers' field   *)
(* names are folded into one:  input  is OpenAI's prompt_tokens and        *)
(* Gemini's promptTokenCount,  read  is cached_tokens,  wAll  Anthropic's  *)
(* older single cache-creation figure,  thoughts  Gemini's thinking tokens.*)
(* A stream is a sequence of tokens:  a data line is  head, tail, newline; *)
(* how its bytes are cut into writes is up to the network.  Money is in    *)
(* hundredths of the unit of  Rates,  so that the table's multipliers are  *)
(* whole numbers.                                                          *)
(***************************************************************************)
EXTENDS Integers, Sequences, SequencesExt, TLC

CONSTANTS
  Rates,      \* the listed models' rates: [model -> [in, out, read, write]]
  Fallback,   \* the rate of an unlisted model
  Family,     \* the model id without a snapshot date
  BufLimit    \* the most tokens an unterminated line may hold

NoModel == "no model"
NoTokens == [input |-> 0, output |-> 0, read |-> 0, w5 |-> 0, w1 |-> 0]
Block == [input : Nat, output : Nat, read : Nat, w5 : Nat, w1 : Nat, wAll : Nat, thoughts : Nat]
NoBlock == [input |-> 0, output |-> 0, read |-> 0, w5 |-> 0, w1 |-> 0, wAll |-> 0, thoughts |-> 0]

-----------------------------------------------------------------------------
(* The usage block of a whole answer. *)

\* Anthropic's two ways to report cache writes.
Writes(u) ==
  IF u.w5 = 0 /\ u.w1 = 0 THEN [five |-> u.wAll, hour |-> 0]
  ELSE [five |-> u.w5, hour |-> u.w1]

Normal(provider, u) ==
  [input  |-> u.input,
   output |-> IF provider = "gemini" THEN u.output + u.thoughts ELSE u.output,
   read   |-> u.read,
   w5     |-> IF provider = "anthropic" THEN Writes(u).five ELSE 0,
   w1     |-> IF provider = "anthropic" THEN Writes(u).hour ELSE 0]

\* Whether a body's block says anything.
Metered(provider, u) ==
  \/ u.input # 0
  \/ u.output # 0
  \/ provider = "anthropic" /\ u.read # 0

\* What a body tells: a Gemini array of chunks is read from its end.
Extract(provider, blocks) ==
  LET said == {i \in DOMAIN blocks : Metered(provider, blocks[i])}
  IN  IF said = {} THEN [usage |-> NoTokens, got |-> FALSE]
      ELSE [usage |-> Normal(provider, blocks[Max(said)]), got |-> TRUE]

-----------------------------------------------------------------------------
(* The same, read out of a stream as it passes. *)

NewStream == [buf |-> << >>, usage |-> NoTokens, model |-> NoModel, got |-> FALSE]

NL == <<"newline">>
FrameTokens(f) == <<<<"head", f>>, <<"tail", f>>, NL>>
JunkTokens == <<<<"junk">>, <<"junk">>, <<"junk">>, NL>>

IsFrame(line) ==
  /\ Len(line) = 2
  /\ line[1][1] = "head"
  /\ line[2] = <<"tail", line[1][2]>>

\* The blocks the same answer would carry in a body: those of the frames whose
\* lines are complete, and none elsewhere; Anthropic's start and delta make one.
Blocks(provider, tokens) ==
  LET frames == {i \in 1 .. Len(tokens) - 2 : tokens[i][1] = "head"}
      starts == {i \in frames : tokens[i][2].message # NoBlock}
      deltas == {i \in frames : tokens[i][2].top.output > 0}
      start  == IF starts = {} THEN NoBlock ELSE tokens[Max(starts)][2].message
      output == IF deltas = {} THEN 0 ELSE tokens[Max(deltas)][2].top.output
  IN  IF provider = "anthropic" THEN << [start EXCEPT !.output = output] >>
      ELSE [i \in DOMAIN tokens |-> IF i \in frames THEN tokens[i][2].top ELSE NoBlock]

\* The model that body names: a Gemini chunk names its own, and the one the
\* usage is taken from counts; any other body names one.
BodyModel(provider, tokens) ==
  LET frames == {i \in 1 .. Len(tokens) - 2 : tokens[i][1] = "head"}
      naming == IF provider = "gemini"
                THEN {i \in frames : Metered(provider, tokens[i][2].top)}
                ELSE {i \in frames : tokens[i][2].model # NoModel}
  IN  IF naming = {} THEN NoModel ELSE tokens[Max(naming)][2].model

\* The totals of a late chunk replace what was seen before.
MergeTotals(provider, s, f) ==
  IF f.top.input > 0 \/ f.top.output > 0
  THEN [s EXCEPT !.usage = Normal(provider, f.top), !.got = TRUE] ELSE s

\* Anthropic: input and cache from message_start, output from message_delta.
MergeStart(s, f) ==
  LET u == f.message IN
  IF u.input > 0 \/ u.read > 0 \/ u.wAll > 0
  THEN [s EXCEPT !.usage = [Normal("anthropic", u) EXCEPT !.output = s.usage.output],
                 !.got = TRUE]
  ELSE s
MergeDelta(s, f) ==
  IF f.top.output > 0
  THEN [s EXCEPT !.usage.output = f.top.output, !.got = TRUE] ELSE s

Consume(provider, s, line) ==
  IF ~IsFrame(line) THEN s
  ELSE LET f == line[1][2]
           t == IF f.model = NoModel THEN s ELSE [s EXCEPT !.model = f.model]
       IN  IF provider = "anthropic" THEN MergeDelta(MergeStart(t, f), f)
           ELSE MergeTotals(provider, t, f)

Feed(provider, s, token) ==
  IF token = NL THEN [Consume(provider, s, s.buf) EXCEPT !.buf = << >>]
  ELSE [s EXCEPT !.buf = Append(@, token)]

\* Mutant: a line cut between two writes is forgotten.
Write_NoCarry(provider, s, p) ==
  FoldLeft(LAMBDA t, token : Feed(provider, t, token), [s EXCEPT !.buf = << >>], p)

\* One write: every line it completes is consumed; an unterminated remainder
\* over the limit is dropped.
Write(provider, s, p) ==
  LET after == FoldLeft(LAMBDA t, token : Feed(provider, t, token), s, p)
  IN  IF Len(after.buf) > BufLimit THEN [after EXCEPT !.buf = << >>] ELSE after

\* The model a call is priced as: the answer's, except where the path names it.
ModelOf(provider, asked, s) ==
  IF s.got /\ s.model # NoModel /\ ~(provider = "gemini" /\ asked # NoModel)
  THEN s.model ELSE asked

-----------------------------------------------------------------------------
(* The price table. *)

Unknown == [inclusive |-> TRUE, read |-> 50, w5 |-> 100, w1 |-> 100]
Providers ==
  [anthropic |-> [inclusive |-> FALSE, read |-> 10, w5 |-> 125, w1 |-> 200],
   openai    |-> [inclusive |-> TRUE,  read |-> 50, w5 |-> 100, w1 |-> 100],
   gemini    |-> [inclusive |-> TRUE,  read |-> 25, w5 |-> 100, w1 |-> 100]]
Semantics(provider) ==
  IF provider \in DOMAIN Providers THEN Providers[provider] ELSE Unknown

\* An exact id wins, then a dated snapshot's family, then the fallback.
Resolve(model) ==
  CASE model \in DOMAIN Rates -> Rates[model]
    [] model \notin DOMAIN Rates /\ Family[model] \in DOMAIN Rates -> Rates[Family[model]]
    [] OTHER -> Fallback

Uncached(provider, u) ==
  IF Semantics(provider).inclusive
  THEN LET rest == u.input - u.read - u.w5 - u.w1 IN IF rest < 0 THEN 0 ELSE rest
  ELSE u.input

Price(provider, model, u) ==
  LET rate  == Resolve(model)
      p     == Semantics(provider)
      read  == IF rate.read > 0 THEN rate.read ELSE p.read
      write == IF rate.write > 0 THEN rate.write ELSE p.w5
  IN  rate.in * (100 * Uncached(provider, u) + read * u.read + write * u.w5 + p.w1 * u.w1)
      + 100 * rate.out * u.output
=============================================================================
