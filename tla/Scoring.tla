------------------------------ MODULE Scoring ------------------------------
(***************************************************************************)
(* evals/score.py on one case: the records of a reduced.json against the   *)
(* bugs known to be in the contract.  The scorer has a table of synonyms   *)
(* of its own.  It reads of a record its place, its bug class, its kind,   *)
(* its final severity and its confidence; a known bug is a place with a    *)
(* bug class.  Precision, recall and F1 are quotients of what is counted   *)
(* here and are left out, and so is the agreement of the severities.       *)
(***************************************************************************)
EXTENDS Judging

Synonyms ==
  { {"reentrancy", "cross-function-reentrancy", "read-only-reentrancy",
     "reentrancy-guard-gap"},
    {"rounding-direction", "rounding-error", "precision-loss", "truncation",
     "share-inflation"},
    {"missing-access-control", "missing-guard", "unprotected-function", "access-gap",
     "missing-modifier"},
    {"missing-nonce", "signature-replay", "replay-attack", "cross-chain-replay"},
    {"stale-oracle", "oracle-staleness", "missing-staleness-check",
     "price-manipulation"},
    {"storage-collision", "storage-layout-clash", "slot-collision",
     "uninitialized-proxy"},
    {"integer-overflow", "integer-underflow", "unsafe-cast", "unchecked-math"},
    {"dos", "denial-of-service", "permanent-dos", "griefing", "unbounded-loop"},
    {"front-running", "mev", "sandwich", "missing-slippage", "missing-deadline"} }

\* Slip: classes are compared by name.
ByName(bug) == {bug}

Canon(bug) == {bug} \cup UNION {group \in Synonyms : bug \in group}

KeyOf(r) == <<r.place, Canon(r.bug)>>

\* Each x of judged is a record with its final severity.
Surviving(judged, kind) ==
  {x \in judged : x.record.kind = kind /\ x.severity # Rejected}

\* The first of a key in the file is the one that matched.
FirstOf(found) ==
  CHOOSE x \in found : \A y \in found :
    \/ x.record.claim > y.record.claim
    \/ x.record.claim = y.record.claim /\ x.record.confidence >= y.record.confidence

Matched(reported, truth) ==
  {FirstOf({x \in reported : KeyOf(x.record) = KeyOf(t)}) :
     t \in {u \in truth : \E x \in reported : KeyOf(x.record) = KeyOf(u)}}

\* Slip: a second report of a known bug counts as a false positive.
NotMatched(reported, truth) ==
  {x \in reported \ Matched(reported, truth) : \A t \in truth : x.record.place # t.place}
    \cup {x \in reported \ Matched(reported, truth) :
            \E t \in truth : KeyOf(x.record) = KeyOf(t)}

\* A report where no bug is known.
FalsePositives(reported, truth) ==
  {x \in reported : \A t \in truth : x.record.place # t.place}

\* The right place and the wrong class.
NearMisses(reported, truth) ==
  {x \in reported : /\ \E t \in truth : x.record.place = t.place
                    /\ \A t \in truth : KeyOf(x.record) # KeyOf(t)}

\* Leads to a bug that no finding matched.
LeadHits(judged, truth) ==
  {x \in Surviving(judged, "LEAD") :
     /\ \E t \in truth : KeyOf(x.record) = KeyOf(t)
     /\ \A y \in Surviving(judged, "FINDING") : KeyOf(y.record) # KeyOf(x.record)}

\* The bins of calibration, by confidence.
Bins == {0..39, 40..59, 60..69, 70..84, 85..99}

ScoreCase(judged, truth) ==
  LET reported == Surviving(judged, "FINDING")
      hits == Matched(reported, truth)
      wrong == FalsePositives(reported, truth)
  IN [tp    |-> Cardinality(hits),
      fp    |-> Cardinality(wrong),
      fn    |-> Cardinality({KeyOf(t) : t \in truth}) - Cardinality(hits),
      near  |-> Cardinality(NearMisses(reported, truth)),
      leads |-> {KeyOf(x.record) : x \in LeadHits(judged, truth)},
      found |-> {KeyOf(x.record) : x \in hits},
      bins  |-> [b \in Bins |->
                   Cardinality({x \in hits \cup wrong : x.record.confidence \in b})]]
=============================================================================
