----------------------------- MODULE Extraction -----------------------------
(***************************************************************************)
(* extract_records and _parse_lines (agents/base.py): what is taken for    *)
(* records in the text a model returned.  A text is its fenced blocks and  *)
(* the loose rest; each is a chunk, the sequence of JSON values in it.  A  *)
(* value is laid out as a "line" (one record on a line of its own), as a   *)
(* "split" (the same, with a U+2028, U+2029 or U+0085 written out in one   *)
(* of its strings, where splitlines() breaks it in two), as a "block"      *)
(* (anything else that parses: pretty-printed, an array, an object without *)
(* a bug_class) or is "broken" (looks like JSON and is not).               *)
(***************************************************************************)
EXTENDS Listing, SequencesExt

CONSTANTS Records,      \* what a record can say
          Separated     \* records with a U+2028, U+2029 or U+0085 in a string

Layouts == {"line", "split", "block", "broken"}

\* A line holds one record; a block holds any number of them.  In a line the
\* separator of a record, if it has one, is escaped.
Values ==
  {v \in [recs : Seq(Records), layout : Layouts] :
     /\ v.layout \in {"line", "split"} => Len(v.recs) = 1
     /\ v.layout = "split" => v.recs[1] \in Separated}

IsText(t) == t.fences \in Seq(Seq(Values)) /\ t.loose \in Seq(Values)

\* The records that stand on a line of their own, in order.
OnLines(chunk) ==
  LET lines == Picked(chunk, {i \in DOMAIN chunk : chunk[i].layout = "line"}) IN
    [n \in DOMAIN lines |-> lines[n].recs[1]]

\* Slip: what does not parse is passed on as the text it is.
WholeOrText(chunk) ==
  IF Len(chunk) # 1 THEN <<>>
  ELSE IF chunk[1].layout = "broken" THEN <<"text">> ELSE chunk[1].recs

\* json.loads of the chunk: it has to be a single value, and a separator inside a
\* string is nothing to it.
Whole(chunk) ==
  IF Len(chunk) = 1 /\ chunk[1].layout # "broken" THEN chunk[1].recs ELSE <<>>

\* A chunk is parsed as a whole only if no line of it is a record.
ParseLines(chunk) ==
  IF OnLines(chunk) # <<>> THEN OnLines(chunk) ELSE Whole(chunk)

\* Identical records are taken once, where they come first.
Unique(recs) ==
  Picked(recs, {i \in DOMAIN recs : \A j \in 1..(i - 1) : recs[j] # recs[i]})

Fenced(text) == Joined([i \in DOMAIN text.fences |-> ParseLines(text.fences[i])])

\* The whole text is a JSON value only if there is no fence in it.
Unfenced(text) ==
  IF text.fences = <<>> THEN ParseLines(text.loose) ELSE OnLines(text.loose)

\* Slip: only fences are read.
FencedOnly(text) == Unique(Fenced(text))

\* What stands outside the fences counts only if the fences yield nothing.
ExtractRecords(text) ==
  Unique(IF Fenced(text) # <<>> THEN Fenced(text) ELSE Unfenced(text))
=============================================================================
