------------------------------- MODULE MCBooks -------------------------------
(***************************************************************************)
(* Books on four days of two months,  with the price table's own figures   *)
(* for two models (in units of 10^-8 dollars a token).                     *)
(***************************************************************************)
EXTENDS Books

CONSTANTS v1, v2

MCRates == "gpt-4o-mini" :> [in |-> 15, out |-> 60, read |-> 50, write |-> 0]
        @@ "claude-haiku-4-5" :> [in |-> 100, out |-> 500, read |-> 0, write |-> 0]
MCFallback == [in |-> 300, out |-> 300, read |-> 0, write |-> 0]
MCFamily == "gpt-4o-mini" :> "gpt-4o-mini"
         @@ "claude-haiku-4-5-20251001" :> "claude-haiku-4-5"
         @@ "gemini-x" :> "gemini-x"
         @@ "claude-haiku-4-5" :> "claude-haiku-4-5"

Top(i, r, o, th) == [NoBlock EXCEPT !.input = i, !.read = r, !.output = o, !.thoughts = th]
Frame(top, message, model) == FrameTokens([top |-> top, message |-> message, model |-> model])

Start(u) == Frame(NoBlock, u, "claude-haiku-4-5-20251001")
Delta(o) == Frame(Top(0, 0, o, 0), NoBlock, NoModel)
MCScripts ==
  [anthropic |-> {Start([Top(2, 1, 1, 0) EXCEPT !.wAll = 1]) \o Delta(3)},
   openai    |-> {Frame(Top(3, 0, 1, 0), NoBlock, "gpt-4o-mini") \o JunkTokens
                   \o Frame(Top(3, 1, 2, 0), NoBlock, NoModel)},
   gemini    |-> {Frame(Top(2, 1, 1, 1), NoBlock, "gemini-x")
                   \o Frame(Top(2, 1, 2, 2), NoBlock, "gemini-x")}]

Day1 == 2    Day2 == 4    Day3 == 6
RowAt(p, id, t, cost, team) ==
  [id |-> id, provider |-> p, start |-> t, end |-> t, tokens |-> TRUE, conf |-> 0,
   team |-> team, cost |-> cost]
Bill(p, id, from, to, cost) ==
  [RowAt(p, id, from, cost, "(untagged)") EXCEPT !.end = to, !.tokens = FALSE, !.conf = 1]
MCCatalogue ==
  [p \in DOMAIN MCScripts |->
    IF p # "anthropic" THEN {}
    ELSE {RowAt(p, "day 1", Day1 + 1, 40000, "team"),
          Bill(p, "bill of the month", 0, Day2, 30000),
          Bill(p, "bill of day 2", Day2, Day3, 900000),
          Bill(p, "bill of days 1 to 3", Day1, Day3 + 1, 50000)}]

\* The relay shares nothing with the other steps, so no property sees in what
\* order they come: the file is left alone until the call is over.
CallFirst == file' # file => priced # {}

MCNames == STRING

ViewerSymmetry == Permutations(Viewers)
=============================================================================
