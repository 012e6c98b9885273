--------------------------- MODULE MCLedgerFiles ---------------------------
(* Texts with two records at most, of every kind and every layout. *)
EXTENDS LedgerFiles

SampleRecords == {"plain", "other", "bad", "sep", "lone"}

Split(r) == [layout |-> "split", recs |-> <<r>>]
Line(r) == [layout |-> "line", recs |-> <<r>>]
Block(rs) == [layout |-> "block", recs |-> rs]
Broken == [layout |-> "broken", recs |-> <<>>]

Text(fences, loose) == [fences |-> fences, loose |-> loose]

SampleTexts == {
  Text(<<>>, <<>>),                                           \* silence
  Text(<<>>, <<Broken, Line("plain"), Line("plain")>>),        \* said twice
  Text(<<>>, <<Block(<<"plain", "bad">>)>>),                   \* an array
  Text(<<<<Split("sep")>>, <<Line("bad")>>>>, <<Line("other")>>),
  Text(<<<<Broken>>>>, <<Line("other"), Block(<<"plain">>)>>), \* a useless fence
  Text(<<<<Line("bad"), Broken, Line("lone"), Split("sep")>>>>, <<>>) }
=============================================================================
