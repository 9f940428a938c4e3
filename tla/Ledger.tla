------------------------------- MODULE Ledger -------------------------------
(***************************************************************************)
(* The JSONL file between the gateway that appends to it and the tools     *)
(* that read it.                                                           *)
(*                                                                         *)
(* The file is a sequence of pieces, each what one call of Write has put   *)
(* there so far:  some of a row's bytes ("part"), all of its JSON but not  *)
(* the newline ("json"), or the whole line ("line").  A piece that never   *)
(* got its newline shares its line with the next.                          *)
(*                                                                         *)
(* A reader's result is the set of the rows it keeps.  They have different *)
(* ids, and every figure made from them is a sum, so their order in the    *)
(* file is left out.                                                       *)
(***************************************************************************)
EXTENDS Integers, Sequences, FiniteSets

Bytes == [part |-> 1, json |-> 2, line |-> 3]
\* Byte  s[2]  of piece  s[1]  is there.
Size(file) == Cardinality({s \in (DOMAIN file) \X (1 .. 3) : s[2] <= Bytes[file[s[1]].got]})

\* Piece i is a line of its own: nothing unterminated before it, and nothing
\* after it on the same line.
StartsLine(file, i) == i = 1 \/ file[i - 1].got = "line"
EndsLine(file, i) == file[i].got = "line" \/ i = Len(file)
Parses(file, i) == StartsLine(file, i) /\ EndsLine(file, i) /\ file[i].got # "part"

\* Mutant: the reader stops at the first line it cannot parse.
Lines_StopsAtBad(file) == {i \in DOMAIN file : \A j \in 1 .. i : Parses(file, j)}

\* The lines that parse.
Lines(file) == {i \in DOMAIN file : Parses(file, i)}

\* The first row of an id counts; a later one with the same id is the same row.
FirstOfId(file, i) ==
  \A j \in Lines(file) : file[j].row.id = file[i].row.id => i <= j

\* The console's reader skips a line it cannot parse; the command line's fails
\* on it.
ReadLive(file) == {file[i].row : i \in {j \in Lines(file) : FirstOfId(file, j)}}
Corrupt(file) == \E i \in DOMAIN file : ~Parses(file, i)
ReadStrict(file) ==
  IF Corrupt(file) THEN [ok |-> FALSE, rows |-> {}]
  ELSE [ok |-> TRUE, rows |-> ReadLive(file)]
=============================================================================
