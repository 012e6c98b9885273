-------------------------- MODULE ScriptReduction --------------------------
(***************************************************************************)
(* The skill's batch twins of the service: validate_findings.py, as it     *)
(* works without the jsonschema package, and reduce.py.  Where their code  *)
(* is that of reduction.py word for word (synonym keys, fingerprints) the  *)
(* definition is shared.  owned: the agent set a field that is the         *)
(* orchestrator's; keyed: its group_key is the one its fields spell;       *)
(* jsonLength and pocLength are the lengths of its proof and its PoC as    *)
(* JSON text, in which kind, values and escapes count.                     *)
(***************************************************************************)
EXTENDS Reduction

\* structural_errors: what a record may not be.  The kind of a proof and the
\* axes of a lead are left to jsonschema.
Structural(f) ==
  /\ f.kind \in Kinds /\ f.claim \in Severities
  /\ f.keyed
  /\ f.survives => f.da = {}
  /\ f.fixes # {}
  /\ f.kind = "FINDING" => f.proof # "none" /\ f.axes # {} /\ f.axes \subseteq Axes
  /\ f.claim >= Medium => f.poc \in PocStates
  /\ f.owned => f.kind = "AXISGAP"

\* Slip: one half's constants are retuned, here the bonus per reporter.
RetunedConfidence(f, n) ==
  Clamp(Base(f) + 4 * (n - 1) + PocBonus(f.poc)
          + VerifierDelta(f.verdict) - 10 * Cardinality(f.da))

\* compute_confidence of the script, which knows no empty proof: a kind that is
\* not in its table counts 40.
RecordConfidence(f, n) ==
  LET base == IF f.kind # "FINDING" THEN 30
              ELSE IF f.proof \in ProofKinds THEN ProofBase(f.proof) ELSE 40
      support == 5 * (n - 1)
      blockers == Cardinality(f.da \cap Dimensions)
      sum == base + (IF support < 15 THEN support ELSE 15)
               + PocBonus(f.poc) + VerifierDelta(f.verdict) - 10 * blockers
  IN IF sum > 99 THEN 99 ELSE IF sum < 0 THEN 0 ELSE sum

\* rank: a fourth key decides among proofs of one length.
Rank(f) == <<IsFinding(f), f.claim, f.jsonLength, f.pocLength>>

RanksAbove(f, g) ==
  \E k \in 1..4 : Rank(f)[k] > Rank(g)[k] /\ \A j \in 1..(k - 1) : Rank(f)[j] = Rank(g)[j]

Foremost(F, group) ==
  CHOOSE i \in group :
    \A j \in group \ {i} :
      RanksAbove(F[i], F[j]) \/ (Rank(F[i]) = Rank(F[j]) /\ i < j)

\* One record of reduce_records; the group is that of the finding at i.
RecordAt(F, i) ==
  LET group == {j \in Hunts(F) : <<F[j].place, SynonymKey(F[j].bug)>>
                                   = <<F[i].place, SynonymKey(F[i].bug)>>}
      best == F[Foremost(F, group)]
      reporters == {F[j].agent : j \in group}
  IN [place      |-> best.place,
      bug        |-> best.bug,
      key        |-> SynonymKey(best.bug),
      kind       |-> best.kind,
      claim      |-> best.claim,
      proof      |-> best.proof,
      verdict    |-> best.verdict,
      da         |-> best.da,
      said       |-> best.said,
      root       |-> best.root,
      agents     |-> reporters,
      mechanisms |-> {F[j].root : j \in group},
      fixes      |-> UNION {{FixFingerprint(x) : x \in F[j].fixes} : j \in group},
      axes       |-> UNION {F[j].axes : j \in group},
      confidence |-> RecordConfidence(best, Cardinality(reporters))]

ReduceRecords(F) == {RecordAt(F, i) : i \in Hunts(F)}

\* A gap of the script's is a record of its own, with a bug_class.
GapRecord(n, hot, axis) ==
  [hot |-> n, place |-> hot.place, axis |-> axis, bug_class |-> axis]

Examined(F, place) == UNION {F[i].axes : i \in {j \in DOMAIN F : F[j].place = place}}

GapRecords(hots, F) ==
  UNION {{GapRecord(n, hots[n], axis) :
            axis \in RequiredAxes(hots[n]) \ Examined(F, hots[n].place)} : n \in DOMAIN hots}
=============================================================================
