----------------------------- MODULE Reduction -----------------------------
(***************************************************************************)
(* reduce_findings and compute_confidence (core/reduction.py): the ledger  *)
(* read back as a list of findings, grouped by place and cluster of bug    *)
(* classes, one record per group, its confidence computed and never        *)
(* claimed.                                                                *)
(*                                                                         *)
(* A finding keeps the fields the pipeline decides on.  A place is a       *)
(* (contract, function) pair; length is that of its proof; da is the set   *)
(* of Devil's Advocate dimensions that block and name no bypass, survives  *)
(* its verdict; said and root are the sets of telling words in its own     *)
(* text (path, description, proof) and in its root cause, which is all the *)
(* gates read of either; fixes are its fix and the alternatives to it.     *)
(***************************************************************************)
EXTENDS Integers, FiniteSets, Sequences

\* SEVERITY_ORDER, as positions.
Informational == 0
Low == 1
Medium == 2
High == 3
Critical == 4
Severities == 0..4

Kinds == {"FINDING", "LEAD", "AXISGAP", "COVERAGE_NOTE"}
ProofKinds == {"counterexample", "numeric-trace", "state-sequence", "quoted-code"}
PocStates == {"passing", "compiled", "sketch", "not-feasible"}
VerdictKinds == {"CONFIRMED", "WEAKENED", "NOT-RUN", "UNREACHABLE-CODE", "REFUTED"}
Axes == {"theft", "liveness", "accounting", "provenance", "boundary", "identity"}
Dimensions == {"guards", "reentrancy", "access", "by_design", "economic", "dry_run"}
Words == {"attacker", "admin", "amplifier", "self-harm", "gas-only", "trust"}

\* What Finding.model_validate lets through, after verification.
WellFormed(f) ==
  /\ f.kind \in Kinds
  /\ f.claim \in Severities
  /\ f.proof \in ProofKinds \cup {"none"} /\ f.length \in Nat
  /\ f.poc \in PocStates \cup {"none"}
  /\ f.verdict \in VerdictKinds
  /\ f.axes \subseteq Axes /\ f.da \subseteq Dimensions
  /\ f.said \subseteq Words /\ f.root \subseteq Words
  /\ f.fixes # {}
  /\ f.survives => f.da = {}
  /\ f.kind = "FINDING" => f.proof # "none" /\ f.axes # {}
  /\ f.claim >= Medium => f.poc # "none"

-----------------------------------------------------------------------------
(* Grouping *)

SynonymClusters ==
  { {"reentrancy", "cross-function-reentrancy", "read-only-reentrancy",
     "reentrancy-guard-gap"},
    {"rounding-direction", "rounding-error", "precision-loss", "truncation"},
    {"missing-access-control", "missing-guard", "unprotected-function", "access-gap"},
    {"missing-nonce", "signature-replay", "replay-attack"},
    {"stale-oracle", "oracle-staleness", "missing-staleness-check"},
    {"storage-collision", "storage-layout-clash", "slot-collision"},
    {"unchecked-return", "unchecked-call", "ignored-return-value"},
    {"integer-overflow", "integer-underflow", "unsafe-cast", "unchecked-math"},
    {"dos", "denial-of-service", "permanent-dos", "griefing"} }

\* A class is known by the classes it is a synonym of.
SynonymKey(bug) == {bug} \cup UNION {c \in SynonymClusters : bug \in c}

\* Findings are taken from a list F by their position in it.
Hunts(F) == {i \in DOMAIN F : F[i].kind \in {"FINDING", "LEAD"}}

\* Slip: the bug class alone is the key.
SameClass(f, g) == SynonymKey(f.bug) = SynonymKey(g.bug)

\* Function isolation: the place is part of the key.
SameGroup(f, g) == f.place = g.place /\ SynonymKey(f.bug) = SynonymKey(g.bug)

GroupOf(F, i) == {j \in Hunts(F) : SameGroup(F[i], F[j])}
Groups(F) == {GroupOf(F, i) : i \in Hunts(F)}

IsFinding(f) == IF f.kind = "FINDING" THEN 1 ELSE 0
ProofLength(f) == IF f.proof = "none" THEN 0 ELSE f.length

\* The sort key, most significant part first.
Outweighs(f, g) ==
  \/ IsFinding(f) > IsFinding(g)
  \/ IsFinding(f) = IsFinding(g)
     /\ \/ f.claim > g.claim
        \/ f.claim = g.claim /\ ProofLength(f) > ProofLength(g)

\* Slip: on a tie the later one comes first.
BestLatest(F, group) ==
  CHOOSE i \in group :
    \A j \in group \ {i} :
      \/ Outweighs(F[i], F[j])
      \/ ~Outweighs(F[j], F[i]) /\ i > j

\* Slip: the group is not sorted.
BestEarliest(F, group) == CHOOSE i \in group : \A j \in group : i <= j

\* members.sort(reverse=True) is stable: on a tie the earlier one stays first.
Best(F, group) ==
  CHOOSE i \in group :
    \A j \in group \ {i} :
      \/ Outweighs(F[i], F[j])
      \/ ~Outweighs(F[j], F[i]) /\ i < j

-----------------------------------------------------------------------------
(* compute_confidence *)

ProofBase(kind) ==
  CASE kind \in {"counterexample", "numeric-trace"} -> 60
    [] kind = "state-sequence" -> 55
    [] OTHER -> 45

Base(f) == IF f.kind = "FINDING" /\ f.proof # "none" THEN ProofBase(f.proof) ELSE 30

CorroborationBonus(n) ==
  IF n <= 1 THEN 0 ELSE IF n >= 4 THEN 15 ELSE 5 * (n - 1)

PocBonus(poc) ==
  CASE poc = "passing" -> 25 [] poc = "compiled" -> 15 [] poc = "sketch" -> 5
    [] OTHER -> 0

VerifierDelta(verdict) ==
  CASE verdict = "CONFIRMED" -> 15 [] verdict = "WEAKENED" -> -15
    [] verdict = "UNREACHABLE-CODE" -> -40 [] verdict = "REFUTED" -> -100
    [] OTHER -> -5

Clamp(score) == IF score < 0 THEN 0 ELSE IF score > 99 THEN 99 ELSE score

Confidence(f, n) ==
  Clamp(Base(f) + CorroborationBonus(n) + PocBonus(f.poc)
          + VerifierDelta(f.verdict) - 10 * Cardinality(f.da))

-----------------------------------------------------------------------------
(* Fixes *)

\* A line with nothing but a comment in it.
Comment == "comment"

\* The code a fix adds; the summary of one that adds none stands in for it.
NormalizeAddLines(fix) ==
  LET lines == IF fix.lines = <<>> THEN <<fix.summary>> ELSE fix.lines
      Code(line) == line # Comment
  IN SelectSeq(lines, Code)

\* Fixes with the same label that add the same code are the same fix.
FixFingerprint(fix) == <<fix.label, NormalizeAddLines(fix)>>

-----------------------------------------------------------------------------
(* One record per group *)

Agents(F, group) == {F[i].agent : i \in group}

\* Root causes (the description, for a lead without one), each once.
Mechanisms(F, group) == {F[i].root : i \in group}

Reduce(F, group) ==
  LET best == F[Best(F, group)] IN
    [place      |-> best.place,
     bug        |-> best.bug,
     key        |-> SynonymKey(best.bug),
     kind       |-> best.kind,
     claim      |-> best.claim,
     proof      |-> best.proof,
     verdict    |-> best.verdict,
     da         |-> best.da,
     said       |-> best.said,
     root       |-> best.root,
     agents     |-> Agents(F, group),
     mechanisms |-> Mechanisms(F, group),
     fixes      |-> {FixFingerprint(x) : x \in UNION {F[i].fixes : i \in group}},
     axes       |-> UNION {F[i].axes : i \in group},
     confidence |-> Confidence(best, Cardinality(Agents(F, group)))]

Reduced(F) == {Reduce(F, g) : g \in Groups(F)}

\* Places with several records, and what these are called.
Coexisting(R) ==
  {c \in {[place |-> r.place, keys |-> {q.bug : q \in {x \in R : x.place = r.place}}] :
            r \in R} : Cardinality({x \in R : x.place = c.place}) > 1}

\* Groups whose classes are to be adjudicated: several, and no synonyms.
MergeQueue(F) ==
  {g \in Groups(F) :
     /\ Cardinality({F[i].bug : i \in g}) > 1
     /\ \A i \in g : SynonymKey(F[i].bug) = {F[i].bug}}

\* Places reported and in no record.
Dropped(F, R) == {F[i].place : i \in Hunts(F)} \ {r.place : r \in R}

-----------------------------------------------------------------------------
(* axis_coverage *)

\* HotFunction: what the map leaves open follows from the weight, in percent.
RequiredAxes(hot) ==
  IF hot.required # {} THEN hot.required
  ELSE IF hot.weight >= 60 THEN Axes ELSE {"theft", "accounting", "liveness"}

\* hots is the list of hot functions; one listed twice is counted twice.
Pairs(hots) ==
  UNION {{[hot |-> n, place |-> hots[n].place, axis |-> axis] :
            axis \in RequiredAxes(hots[n])} : n \in DOMAIN hots}

\* Slip: only findings and leads cover.
CoveredByHunts(F) == UNION {{F[i].place} \X F[i].axes : i \in Hunts(F)}

\* A pair is covered by any record with that axis, a note included.
Covered(F) == UNION {{F[i].place} \X F[i].axes : i \in DOMAIN F}

AxisGaps(hots, F) == {p \in Pairs(hots) : <<p.place, p.axis>> \notin Covered(F)}
=============================================================================
