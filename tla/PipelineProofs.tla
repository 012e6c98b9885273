--------------------------- MODULE PipelineProofs --------------------------
(***************************************************************************)
(* Theorems about the arithmetic of Reduction and Judging, for every       *)
(* finding the schema lets through and every number of reporters, and      *)
(* about Pipeline, for every pool of findings and every target.            *)
(***************************************************************************)
EXTENDS Pipeline, Orders, SequenceTheorems

LEMMA DimensionsFinite == IsFiniteSet(Dimensions)
<1> DEFINE three == {} \cup {"guards"} \cup {"reentrancy"} \cup {"access"}
           six   == three \cup {"by_design"} \cup {"economic"} \cup {"dry_run"}
<1>1. IsFiniteSet(three)
  BY FS_EmptySet, FS_AddElement, Zenon
<1> HIDE DEF three
<1>2. IsFiniteSet(six)
  BY <1>1, FS_AddElement, Zenon
<1>3. Dimensions = six
  BY DEF Dimensions, three
<1> QED
  BY <1>2, <1>3

\* The terms of the sum, each with its range.
LEMMA Terms ==
  ASSUME NEW f, WellFormed(f)
  PROVE  /\ Base(f) \in 30..60
         /\ PocBonus(f.poc) \in 0..25
         /\ VerifierDelta(f.verdict) \in {15, -15, -40, -100, -5}
         /\ f.verdict = "REFUTED" => VerifierDelta(f.verdict) = -100
         /\ Cardinality(f.da) \in Nat
<1>1. Base(f) \in 30..60
  BY DEF WellFormed, ProofKinds, Base, ProofBase
<1>2. PocBonus(f.poc) \in 0..25
  BY DEF WellFormed, PocStates, PocBonus
<1>3. /\ VerifierDelta(f.verdict) \in {15, -15, -40, -100, -5}
      /\ f.verdict = "REFUTED" => VerifierDelta(f.verdict) = -100
  BY DEF WellFormed, VerdictKinds, VerifierDelta
<1>4. Cardinality(f.da) \in Nat
  BY DimensionsFinite, FS_Subset, FS_CardinalityType DEF WellFormed
<1> QED
  BY <1>1, <1>2, <1>3, <1>4

LEMMA Bonus ==
  ASSUME NEW n \in Nat, NEW m \in Nat, n <= m
  PROVE  /\ CorroborationBonus(n) \in 0..15 /\ CorroborationBonus(m) \in 0..15
         /\ CorroborationBonus(n) <= CorroborationBonus(m)
BY DEF CorroborationBonus

\* Confidence is a percentage below certainty; more reporters never lower it; and a
\* refuted finding has none left, whatever its proof, its PoC and its support are
\* worth.
THEOREM ConfidenceComputed ==
  ASSUME NEW f, WellFormed(f), NEW n \in Nat, NEW m \in Nat, n <= m
  PROVE  /\ Confidence(f, n) \in 0..99 /\ Confidence(f, m) \in 0..99
         /\ Confidence(f, n) <= Confidence(f, m)
         /\ f.verdict = "REFUTED" => Confidence(f, n) = 0
<1> DEFINE base == Base(f)
           poc == PocBonus(f.poc)
           delta == VerifierDelta(f.verdict)
           da == Cardinality(f.da)
           bonus(k) == CorroborationBonus(k)
<1>1. /\ base \in 30..60 /\ poc \in 0..25 /\ da \in Nat
      /\ delta \in {15, -15, -40, -100, -5}
      /\ f.verdict = "REFUTED" => delta = -100
  BY Terms
<1>2. bonus(n) \in 0..15 /\ bonus(m) \in 0..15 /\ bonus(n) <= bonus(m)
  BY Bonus
<1>3. /\ Confidence(f, n) = Clamp(base + bonus(n) + poc + delta - 10 * da)
      /\ Confidence(f, m) = Clamp(base + bonus(m) + poc + delta - 10 * da)
  BY DEF Confidence
<1>4. ASSUME NEW s \in Int, NEW t \in Int, s <= t
      PROVE  /\ Clamp(s) \in 0..99 /\ Clamp(t) \in 0..99 /\ Clamp(s) <= Clamp(t)
             /\ s <= 0 => Clamp(s) = 0
  BY <1>4 DEF Clamp
<1> HIDE DEF base, poc, delta, da, bonus
<1> DEFINE low  == base + bonus(n) + poc + delta - 10 * da
           high == base + bonus(m) + poc + delta - 10 * da
<1>5. low \in Int /\ high \in Int /\ low <= high /\ (delta = -100 => low <= 0)
  BY <1>1, <1>2
<1> HIDE DEF low, high
<1>6. Confidence(f, n) = Clamp(low) /\ Confidence(f, m) = Clamp(high)
  BY <1>3 DEF low, high
<1> QED
  BY <1>1, <1>4, <1>5, <1>6

-----------------------------------------------------------------------------
(* Severity *)

LEMMA ImpactIsSeverity ==
  ASSUME NEW rec
  PROVE  Impact(rec) \in Severities
<1> DEFINE fundLoss == rec.axes \cap {"theft", "accounting"} # {}
           open == Gate1(rec) = "ALLOWS" /\ "attacker" \in Text(rec)
           live == "liveness" \in rec.axes
           prov == rec.axes \cap {"provenance", "identity"} # {}
<1>1. Impact(rec) = CASE fundLoss /\ open -> Critical
                      [] fundLoss /\ ~open -> High
                      [] ~fundLoss /\ live -> High
                      [] ~fundLoss /\ ~live /\ prov -> Medium
                      [] OTHER -> Low
  BY DEF Impact
<1> HIDE DEF fundLoss, open, live, prov
<1> QED
  BY <1>1 DEF Severities, Critical, High, Medium, Low

\* The severity the judge assigns is never above the claim, nor above the cap
\* that the reducer states for that claim at that confidence; a refuted record
\* is rejected.
THEOREM SeverityJudged ==
  ASSUME NEW rec, rec.claim \in Severities, rec.confidence \in 0..99
  PROVE  /\ Judge(rec) \in {Rejected} \cup Severities
         /\ Judge(rec) <= rec.claim
         /\ Judge(rec) <= SeverityCap(rec.claim, rec.confidence)
         /\ rec.verdict = "REFUTED" => Judge(rec) = Rejected
<1>1. Judge(rec) \in {Rejected, Doubted(Lesser(Impact(rec), rec.claim), rec.confidence)}
  BY DEF Judge, AssignSeverity
<1>2. rec.verdict = "REFUTED" => Judge(rec) = Rejected
  BY DEF Judge
<1> DEFINE impact == Impact(rec)
           claim == rec.claim
           confidence == rec.confidence
<1>3. impact \in Severities /\ claim \in Severities /\ confidence \in 0..99
  BY ImpactIsSeverity
<1> HIDE DEF impact, claim, confidence
<1>4. /\ Doubted(Lesser(impact, claim), confidence) \in Severities
      /\ Doubted(Lesser(impact, claim), confidence) <= claim
      /\ Doubted(Lesser(impact, claim), confidence) <= SeverityCap(claim, confidence)
      /\ Rejected <= claim /\ Rejected <= SeverityCap(claim, confidence)
  BY <1>3 DEF Doubted, Lesser, SeverityCap, Severities, Low, Medium, Rejected
<1> QED
  BY <1>1, <1>2, <1>4 DEF impact, claim, confidence

-----------------------------------------------------------------------------
(* The best member of a group *)

\* Numbers compared part by part, most significant first; the last is a place.
LEMMA Lexicographic ==
  ASSUME NEW S, NEW a \in [S -> Int], NEW b \in [S -> Int], NEW c \in [S -> Int],
         NEW d \in [S -> Int]
  PROVE  LET Over(i, j) ==
               \/ a[i] > a[j]
               \/ a[i] = a[j] /\ \/ b[i] > b[j]
                                 \/ b[i] = b[j] /\ \/ c[i] > c[j]
                                                   \/ c[i] = c[j] /\ d[i] > d[j]
         IN /\ \A i, j, k \in S : Over(i, j) /\ Over(j, k) => Over(i, k)
            /\ \A i, j, k \in S : Over(i, j) /\ ~Over(k, j) => Over(i, k)
            /\ \A i, j, k \in S : ~Over(j, i) /\ Over(j, k) => Over(i, k)
            /\ \A i \in S : ~Over(i, i)
            /\ \A i, j \in S : ~Over(i, j) /\ ~Over(j, i) <=>
                 a[i] = a[j] /\ b[i] = b[j] /\ c[i] = c[j] /\ d[i] = d[j]
OBVIOUS

\* What a list of findings is to each half: all of them admitted.
AllWellFormed(F) == F \in Seq(Pool) /\ \A i \in DOMAIN F : WellFormed(F[i])
AllStructural(F) == F \in Seq(Pool) /\ \A i \in DOMAIN F : Structural(F[i])

LEMMA HuntsFinite ==
  ASSUME NEW F \in Seq(Pool)
  PROVE  IsFiniteSet(Hunts(F)) /\ Hunts(F) \subseteq Nat /\ Hunts(F) \subseteq DOMAIN F
<1>1. DOMAIN F = 1..Len(F) /\ Len(F) \in Nat
  OBVIOUS
<1>2. Hunts(F) \in SUBSET (1..Len(F))
  BY <1>1 DEF Hunts
<1>3. IsFiniteSet(1..Len(F))
  BY <1>1, FS_Interval
<1> QED
  BY <1>1, <1>2, <1>3, FS_Subset

\* The service's choice: of a group some member comes first in the sort, and that
\* is the one CHOOSE takes.
LEMMA BestIsFirst ==
  ASSUME NEW F, AllWellFormed(F), NEW group \in SUBSET Hunts(F), group # {}
  PROVE  /\ Best(F, group) \in group
         /\ \A j \in group \ {Best(F, group)} :
              \/ Outweighs(F[Best(F, group)], F[j])
              \/ ~Outweighs(F[j], F[Best(F, group)]) /\ Best(F, group) < j
<1> DEFINE First(i, j) == Outweighs(F[i], F[j]) \/ (~Outweighs(F[j], F[i]) /\ i < j)
           Rel == {p \in group \X group : First(p[1], p[2])}
           a == [i \in group |-> IsFinding(F[i])]
           b == [i \in group |-> F[i].claim]
           c == [i \in group |-> ProofLength(F[i])]
           d == [i \in group |-> -i]
           Over(i, j) ==
             \/ a[i] > a[j]
             \/ a[i] = a[j] /\ \/ b[i] > b[j]
                               \/ b[i] = b[j] /\ \/ c[i] > c[j]
                                                 \/ c[i] = c[j] /\ d[i] > d[j]
<1>1. IsFiniteSet(group) /\ group \subseteq Nat /\ group \subseteq DOMAIN F
  BY HuntsFinite, FS_Subset DEF AllWellFormed
<1>2. /\ a \in [group -> Int] /\ b \in [group -> Int]
      /\ c \in [group -> Int] /\ d \in [group -> Int]
  BY <1>1 DEF AllWellFormed, WellFormed, IsFinding, ProofLength, Severities
<1>3. \A i, j \in group : First(i, j) <=> Over(i, j)
  BY <1>1, <1>2 DEF Outweighs
<1> HIDE DEF First
<1>4. /\ \A i, j, k \in group : Over(i, j) /\ Over(j, k) => Over(i, k)
      /\ \A i \in group : ~Over(i, i)
      /\ \A i, j \in group : ~Over(i, j) /\ ~Over(j, i) => d[i] = d[j]
  <2> HIDE DEF a, b, c, d
  <2> QED
    BY <1>2, Lexicographic
<1>5. \A i, j \in group : i # j => Over(i, j) \/ Over(j, i)
  BY <1>1, <1>4
<1> HIDE DEF Over
<1>6. PICK i \in group : \A j \in group \ {i} : <<i, j>> \in Rel
  <2>1. StrictlyOrders(Rel, group)
    BY <1>3, <1>4, <1>5 DEF StrictlyOrders
  <2> HIDE DEF Rel
  <2> QED
    BY <1>1, <2>1, FirstInOrder DEF StrictlyOrders
<1>7. \A j \in group \ {i} : First(i, j)
  BY <1>6
<1> QED
  BY <1>7 DEF First, Best

LEMMA RankUnfolded ==
  ASSUME NEW f, NEW g
  PROVE  /\ RanksAbove(f, g) <=>
              \/ IsFinding(f) > IsFinding(g)
              \/ IsFinding(f) = IsFinding(g)
                 /\ \/ f.claim > g.claim
                    \/ f.claim = g.claim
                       /\ \/ f.jsonLength > g.jsonLength
                          \/ f.jsonLength = g.jsonLength /\ f.pocLength > g.pocLength
         /\ Rank(f) = Rank(g) <=>
              /\ IsFinding(f) = IsFinding(g) /\ f.claim = g.claim
              /\ f.jsonLength = g.jsonLength /\ f.pocLength = g.pocLength
<1>1. Rank(f) = Rank(g) <=>
        /\ IsFinding(f) = IsFinding(g) /\ f.claim = g.claim
        /\ f.jsonLength = g.jsonLength /\ f.pocLength = g.pocLength
  BY DEF Rank
<1> DEFINE At(k) == Rank(f)[k] > Rank(g)[k] /\ \A j \in 1..(k - 1) : Rank(f)[j] = Rank(g)[j]
<1>2. /\ Rank(f)[1] = IsFinding(f) /\ Rank(g)[1] = IsFinding(g)
      /\ Rank(f)[2] = f.claim /\ Rank(g)[2] = g.claim
      /\ Rank(f)[3] = f.jsonLength /\ Rank(g)[3] = g.jsonLength
      /\ Rank(f)[4] = f.pocLength /\ Rank(g)[4] = g.pocLength
  BY DEF Rank
<1>3. RanksAbove(f, g) <=> At(1) \/ At(2) \/ At(3) \/ At(4)
  BY DEF RanksAbove
<1>4. /\ 1..(1 - 1) = {} /\ 1..(2 - 1) = {1} /\ 1..(3 - 1) = {1, 2} /\ 1..(4 - 1) = {1, 2, 3}
  OBVIOUS
<1>5. /\ At(1) <=> IsFinding(f) > IsFinding(g)
      /\ At(2) <=> f.claim > g.claim /\ IsFinding(f) = IsFinding(g)
      /\ At(3) <=> /\ f.jsonLength > g.jsonLength /\ IsFinding(f) = IsFinding(g)
                   /\ f.claim = g.claim
      /\ At(4) <=> /\ f.pocLength > g.pocLength /\ IsFinding(f) = IsFinding(g)
                   /\ f.claim = g.claim /\ f.jsonLength = g.jsonLength
  BY <1>2, <1>4
<1> HIDE DEF At
<1> QED
  BY <1>1, <1>3, <1>5

\* The same of the skill's choice.
LEMMA ForemostIsFirst ==
  ASSUME NEW F, AllStructural(F), NEW group \in SUBSET Hunts(F), group # {}
  PROVE  /\ Foremost(F, group) \in group
         /\ \A j \in group \ {Foremost(F, group)} :
              \/ RanksAbove(F[Foremost(F, group)], F[j])
              \/ Rank(F[Foremost(F, group)]) = Rank(F[j]) /\ Foremost(F, group) < j
<1> DEFINE First(i, j) == RanksAbove(F[i], F[j]) \/ (Rank(F[i]) = Rank(F[j]) /\ i < j)
           Rel == {p \in group \X group : First(p[1], p[2])}
           a == [i \in group |-> 5 * IsFinding(F[i]) + F[i].claim]
           b == [i \in group |-> F[i].jsonLength]
           c == [i \in group |-> F[i].pocLength]
           d == [i \in group |-> -i]
           Over(i, j) ==
             \/ a[i] > a[j]
             \/ a[i] = a[j] /\ \/ b[i] > b[j]
                               \/ b[i] = b[j] /\ \/ c[i] > c[j]
                                                 \/ c[i] = c[j] /\ d[i] > d[j]
<1>1. IsFiniteSet(group) /\ group \subseteq Nat /\ group \subseteq DOMAIN F
  BY HuntsFinite, FS_Subset DEF AllStructural
<1>2. \A i \in group :
        /\ F[i].claim \in 0..4 /\ IsFinding(F[i]) \in 0..1
        /\ F[i].jsonLength \in Nat /\ F[i].pocLength \in Nat
  <2>1. \A i \in group : F[i] \in Pool /\ Structural(F[i])
    BY <1>1 DEF AllStructural
  <2> QED
    BY <2>1, PoolAssumption DEF Structural, Severities, IsFinding
<1>3. /\ a \in [group -> Int] /\ b \in [group -> Int]
      /\ c \in [group -> Int] /\ d \in [group -> Int]
  BY <1>1, <1>2
<1>4. \A i, j \in group : First(i, j) <=> Over(i, j)
  BY <1>1, <1>2, RankUnfolded
<1> HIDE DEF First
<1>5. /\ \A i, j, k \in group : Over(i, j) /\ Over(j, k) => Over(i, k)
      /\ \A i \in group : ~Over(i, i)
      /\ \A i, j \in group : ~Over(i, j) /\ ~Over(j, i) => d[i] = d[j]
  <2> HIDE DEF a, b, c, d
  <2> QED
    BY <1>3, Lexicographic
<1>6. \A i, j \in group : i # j => Over(i, j) \/ Over(j, i)
  BY <1>1, <1>5
<1> HIDE DEF Over
<1>7. PICK i \in group : \A j \in group \ {i} : <<i, j>> \in Rel
  <2>1. StrictlyOrders(Rel, group)
    BY <1>4, <1>5, <1>6 DEF StrictlyOrders
  <2> HIDE DEF Rel
  <2> QED
    BY <1>1, <2>1, FirstInOrder DEF StrictlyOrders
<1>8. \A j \in group \ {i} : First(i, j)
  BY <1>7
<1> QED
  BY <1>8 DEF First, Foremost

-----------------------------------------------------------------------------
(* The records of either half *)

LEMMA GroupsOfHunts ==
  ASSUME NEW F
  PROVE  \A i \in Hunts(F) : GroupOf(F, i) \in SUBSET Hunts(F) /\ i \in GroupOf(F, i)
BY DEF GroupOf, SameGroup

LEMMA ReportersCounted ==
  ASSUME NEW F \in Seq(Pool), NEW group \in SUBSET Hunts(F)
  PROVE  Cardinality({F[i].agent : i \in group}) \in Nat
<1> DEFINE by == [i \in group |-> F[i].agent]
<1>1. IsFiniteSet(group)
  BY HuntsFinite, FS_Subset
<1>2. by \in Surjection(group, {F[i].agent : i \in group})
  BY DEF Surjection
<1> QED
  BY <1>1, <1>2, FS_Surjection, FS_CardinalityType

\* A record of the service is judged by one finding of its group, with the
\* confidence of that finding at the number of its reporters.
LEMMA ServiceRecord ==
  ASSUME NEW F, AllWellFormed(F), NEW r \in Reduced(F)
  PROVE  \E f \in Pool, n \in Nat :
           /\ WellFormed(f)
           /\ r.claim = f.claim /\ r.verdict = f.verdict /\ r.confidence = Confidence(f, n)
<1>1. PICK i \in Hunts(F) : r = Reduce(F, GroupOf(F, i))
  BY DEF Reduced, Groups
<1> DEFINE group == GroupOf(F, i)
           best == F[Best(F, group)]
<1>2. group \in SUBSET Hunts(F) /\ group # {}
  BY GroupsOfHunts
<1>3. Best(F, group) \in group
  BY <1>2, BestIsFirst
<1>4. Hunts(F) \subseteq DOMAIN F /\ F \in Seq(Pool)
  BY HuntsFinite DEF AllWellFormed
<1>5. best \in Pool /\ WellFormed(best)
  BY <1>2, <1>3, <1>4 DEF AllWellFormed
<1>6. Cardinality(Agents(F, group)) \in Nat
  BY <1>2, <1>4, ReportersCounted DEF Agents
<1>7. /\ r.claim = best.claim /\ r.verdict = best.verdict
      /\ r.confidence = Confidence(best, Cardinality(Agents(F, group)))
  BY <1>1 DEF Reduce
<1> QED
  BY <1>5, <1>6, <1>7

\* So is one of the skill's.
LEMMA SkillRecord ==
  ASSUME NEW F, AllStructural(F), NEW r \in ReduceRecords(F)
  PROVE  \E f \in Pool, n \in Nat :
           /\ Structural(f)
           /\ r.claim = f.claim /\ r.verdict = f.verdict
           /\ r.confidence = RecordConfidence(f, n)
<1>1. PICK i \in Hunts(F) : r = RecordAt(F, i)
  BY DEF ReduceRecords
<1> DEFINE group == {j \in Hunts(F) : <<F[j].place, SynonymKey(F[j].bug)>>
                                        = <<F[i].place, SynonymKey(F[i].bug)>>}
           best == F[Foremost(F, group)]
           n == Cardinality({F[j].agent : j \in group})
<1>2. group \in SUBSET Hunts(F) /\ group # {}
  OBVIOUS
<1>3. /\ r.claim = best.claim /\ r.verdict = best.verdict
      /\ r.confidence = RecordConfidence(best, n)
  BY <1>1 DEF RecordAt
<1> HIDE DEF group
<1>4. Foremost(F, group) \in group
  BY <1>2, ForemostIsFirst
<1>5. Hunts(F) \subseteq DOMAIN F /\ F \in Seq(Pool)
  BY HuntsFinite DEF AllStructural
<1>6. best \in Pool /\ Structural(best)
  BY <1>2, <1>4, <1>5 DEF AllStructural
<1>7. n \in Nat
  BY <1>2, <1>5, ReportersCounted
<1> QED
  BY <1>3, <1>6, <1>7

\* The skill's arithmetic keeps the same bounds, whatever its validator let through.
LEMMA SkillConfidence ==
  ASSUME NEW f, NEW n \in Nat
  PROVE  /\ RecordConfidence(f, n) \in 0..99
         /\ f.verdict = "REFUTED" => RecordConfidence(f, n) = 0
<1> DEFINE base == IF f.kind # "FINDING" THEN 30
                   ELSE IF f.proof \in ProofKinds THEN ProofBase(f.proof) ELSE 40
           support == IF 5 * (n - 1) < 15 THEN 5 * (n - 1) ELSE 15
           poc == PocBonus(f.poc)
           delta == VerifierDelta(f.verdict)
           blockers == Cardinality(f.da \cap Dimensions)
           sum == base + support + poc + delta - 10 * blockers
<1>1. base \in 30..60 /\ poc \in 0..25
  <2>1. ProofBase(f.proof) \in 45..60
    BY DEF ProofBase
  <2>2. base \in 30..60
    BY <2>1
  <2>3. poc \in 0..25
    BY DEF PocBonus
  <2> QED
    BY <2>2, <2>3
<1>2. delta \in {15, -15, -40, -100, -5} /\ (f.verdict = "REFUTED" => delta = -100)
  BY DEF VerifierDelta
<1>3. blockers \in Nat
  BY DimensionsFinite, FS_Subset, FS_CardinalityType
<1>4. support \in Int /\ support <= 15
  OBVIOUS
<1>5. RecordConfidence(f, n) = IF sum > 99 THEN 99 ELSE IF sum < 0 THEN 0 ELSE sum
  BY DEF RecordConfidence
<1> HIDE DEF base, support, poc, delta, blockers
<1>6. sum \in Int /\ (delta = -100 => sum <= 0)
  BY <1>1, <1>2, <1>3, <1>4
<1> HIDE DEF sum
<1> QED
  BY <1>2, <1>5, <1>6

-----------------------------------------------------------------------------
(* What the report says *)

\* Either half has admitted what it reduces.
Admitted ==
  /\ findings \in Seq(Pool)
  /\ AllWellFormed(accepted) /\ AllStructural(validated)

LEMMA AdmittedNext == Admitted /\ [Next]_pipelineVars => Admitted'
<1> SUFFICES ASSUME Admitted, [Next]_pipelineVars
             PROVE  Admitted'
  OBVIOUS
<1>1. ASSUME UNCHANGED <<findings, accepted, validated>>
      PROVE  Admitted'
  BY <1>1 DEF Admitted, AllWellFormed, AllStructural
<1>2. ASSUME NEW f \in Pool, Record(f)
      PROVE  Admitted'
  <2>1. /\ findings' = Append(findings, f)
        /\ accepted' = IF WellFormed(f) THEN Append(accepted, f) ELSE accepted
        /\ validated' = IF Structural(f) THEN Append(validated, f) ELSE validated
    BY <1>2 DEF Record, Accepting, Validating
  <2>2. ASSUME NEW F \in Seq(Pool)
        PROVE  /\ Append(F, f) \in Seq(Pool)
               /\ \A i \in DOMAIN Append(F, f) :
                    Append(F, f)[i] = f \/ (i \in DOMAIN F /\ Append(F, f)[i] = F[i])
    OBVIOUS
  <2>3. AllWellFormed(accepted')
    <3>1. CASE WellFormed(f)
      BY <2>1, <2>2, <3>1 DEF Admitted, AllWellFormed
    <3>2. CASE ~WellFormed(f)
      BY <2>1, <3>2 DEF Admitted
    <3> QED
      BY <3>1, <3>2
  <2>4. AllStructural(validated')
    <3>1. CASE Structural(f)
      BY <2>1, <2>2, <3>1 DEF Admitted, AllStructural
    <3>2. CASE ~Structural(f)
      BY <2>1, <3>2 DEF Admitted
    <3> QED
      BY <3>1, <3>2
  <2> QED
    BY <2>1, <2>2, <2>3, <2>4 DEF Admitted
<1>3. CASE ReduceAndJudge
  BY <1>1, <1>3 DEF ReduceAndJudge
<1>4. CASE ReduceByScript
  BY <1>1, <1>4 DEF ReduceByScript
<1>5. CASE Render
  BY <1>1, <1>5 DEF Render
<1>6. CASE Score
  BY <1>1, <1>6 DEF Score
<1>7. CASE UNCHANGED pipelineVars
  BY <1>1, <1>7 DEF pipelineVars
<1> QED
  BY <1>2, <1>3, <1>4, <1>5, <1>6, <1>7 DEF Next

\* What either half admits, it has found well formed or structurally sound.
THEOREM OnlyAdmittedReduced == Spec => []Admitted
<1>1. Init => Admitted
  BY DEF Init, Admitted, AllWellFormed, AllStructural
<1> QED
  BY <1>1, AdmittedNext, PTL DEF Spec

\* The properties a judged record has to have, of a report by the given half.
WithinCap(half, x) ==
  /\ x.record.confidence \in 0..99
  /\ x.record.verdict = "REFUTED" => x.record.confidence = 0
  /\ half = "service" =>
       /\ x.severity <= SeverityCap(x.record.claim, x.record.confidence)
       /\ x.record.verdict = "REFUTED" => x.severity = Rejected

LEMMA ServiceWithinCap ==
  ASSUME NEW F, AllWellFormed(F), NEW r \in Reduced(F)
  PROVE  WithinCap("service", [record |-> r, severity |-> Judge(r)])
<1>1. PICK f \in Pool, n \in Nat :
        /\ WellFormed(f)
        /\ r.claim = f.claim /\ r.verdict = f.verdict /\ r.confidence = Confidence(f, n)
  BY ServiceRecord
<1>2. r.confidence \in 0..99 /\ (r.verdict = "REFUTED" => r.confidence = 0)
  BY <1>1, ConfidenceComputed
<1>3. r.claim \in Severities
  BY <1>1 DEF WellFormed
<1>4. /\ Judge(r) <= SeverityCap(r.claim, r.confidence)
      /\ r.verdict = "REFUTED" => Judge(r) = Rejected
  BY <1>2, <1>3, SeverityJudged
<1> QED
  BY <1>2, <1>4 DEF WithinCap

LEMMA SkillWithinCap ==
  ASSUME NEW F, AllStructural(F), NEW r \in ReduceRecords(F)
  PROVE  WithinCap("skill", [record |-> r, severity |-> r.claim])
<1>1. PICK f \in Pool, n \in Nat :
        r.verdict = f.verdict /\ r.confidence = RecordConfidence(f, n)
  BY SkillRecord
<1>2. r.confidence \in 0..99 /\ (r.verdict = "REFUTED" => r.confidence = 0)
  BY <1>1, SkillConfidence
<1> QED
  BY <1>2 DEF WithinCap

\* The severity and the confidence of a record cannot contradict each other, whatever
\* was reported: what the judge assigns is within the cap the reducer states on
\* its own, and what the verifier refuted has no confidence left and is rejected.
THEOREM SeverityCapped == Spec => []SeverityWithinCap
<1> DEFINE Capped == \A x \in Judged : WithinCap(report.half, x)
<1>1. Init => Capped
  BY DEF Init, Judged
<1>2. Admitted /\ Capped /\ [Next]_pipelineVars => Capped'
  <2> SUFFICES ASSUME Admitted, Capped, [Next]_pipelineVars
               PROVE  Capped'
    OBVIOUS
  <2>1. ASSUME UNCHANGED report
        PROVE  Capped'
    BY <2>1 DEF Judged
  <2>2. CASE ReduceAndJudge
    <3>1. /\ report'.half = "service"
          /\ report'.judged = {[record |-> r, severity |-> Judge(r)] : r \in Reduced(accepted)}
      BY <2>2 DEF ReduceAndJudge, Summary
    <3>2. \A x \in report'.judged : WithinCap("service", x)
      BY <3>1, ServiceWithinCap DEF Admitted
    <3> QED
      BY <3>1, <3>2 DEF Judged
  <2>3. CASE ReduceByScript
    <3>1. /\ report'.half = "skill"
          /\ report'.judged = {[record |-> r, severity |-> r.claim] :
                                 r \in ReduceRecords(validated)}
      BY <2>3 DEF ReduceByScript, Summary
    <3>2. \A x \in report'.judged : WithinCap("skill", x)
      BY <3>1, SkillWithinCap DEF Admitted
    <3> QED
      BY <3>1, <3>2 DEF Judged
  <2> HIDE DEF Capped
  <2>4. ASSUME NEW f \in Pool, Record(f)
        PROVE  Capped'
    BY <2>1, <2>4 DEF Record
  <2>5. CASE Render
    BY <2>1, <2>5 DEF Render
  <2>6. CASE Score
    BY <2>1, <2>6 DEF Score
  <2>7. CASE UNCHANGED pipelineVars
    BY <2>1, <2>7 DEF pipelineVars
  <2> QED
    BY <2>2, <2>3, <2>4, <2>5, <2>6, <2>7 DEF Next
<1>3. Capped => SeverityWithinCap
  BY DEF SeverityWithinCap, WithinCap
<1> HIDE DEF Capped
<1> QED
  BY <1>1, <1>2, <1>3, OnlyAdmittedReduced, PTL DEF Spec

-----------------------------------------------------------------------------
(* Function isolation *)

\* The clusters of synonyms are disjoint.
LEMMA ClustersDisjoint ==
  ASSUME NEW c \in SynonymClusters, NEW d \in SynonymClusters, NEW bug \in c, bug \in d
  PROVE  c = d
BY DEF SynonymClusters

\* So being synonyms is an equivalence: a class in the key of another has its key.
LEMMA KeysPartition ==
  ASSUME NEW a, NEW b, a \in SynonymKey(b)
  PROVE  SynonymKey(a) = SynonymKey(b)
<1>1. CASE a = b
  BY <1>1
<1>2. CASE a # b
  <2>1. PICK c \in SynonymClusters : a \in c /\ b \in c
    BY <1>2 DEF SynonymKey
  <2>2. \A x \in {a, b} : UNION {d \in SynonymClusters : x \in d} = c
    <3> SUFFICES ASSUME NEW x \in {a, b}
                 PROVE  {d \in SynonymClusters : x \in d} = {c}
      OBVIOUS
    <3> QED
      BY <2>1, ClustersDisjoint
  <2> QED
    BY <2>1, <2>2 DEF SynonymKey
<1> QED
  BY <1>1, <1>2

\* What the two halves agree a record of the group of the finding at i to be.
IsRecordOf(F, i, r) ==
  LET group == GroupOf(F, i) IN
    /\ r.place = F[i].place /\ r.key = SynonymKey(F[i].bug)
    /\ r.bug \in {F[j].bug : j \in group}
    /\ r.agents = {F[j].agent : j \in group}
    /\ r.mechanisms = {F[j].root : j \in group}
    /\ r.axes = UNION {F[j].axes : j \in group}
    /\ \A j \in group : \A x \in F[j].fixes : FixFingerprint(x) \in r.fixes

LEMMA ServiceRecordOf ==
  ASSUME NEW F, AllWellFormed(F), NEW i \in Hunts(F)
  PROVE  IsRecordOf(F, i, Reduce(F, GroupOf(F, i)))
<1> DEFINE group == GroupOf(F, i)
           first == Best(F, group)
           r == Reduce(F, group)
<1>1. first \in group
  BY GroupsOfHunts, BestIsFirst
<1>2. F[first].place = F[i].place /\ SynonymKey(F[first].bug) = SynonymKey(F[i].bug)
  BY <1>1 DEF GroupOf, SameGroup
<1>3. /\ r.place = F[first].place /\ r.key = SynonymKey(F[first].bug) /\ r.bug = F[first].bug
      /\ r.agents = {F[j].agent : j \in group}
      /\ r.mechanisms = {F[j].root : j \in group}
      /\ r.axes = UNION {F[j].axes : j \in group}
      /\ r.fixes = {FixFingerprint(x) : x \in UNION {F[j].fixes : j \in group}}
  BY DEF Reduce, Agents, Mechanisms
<1> HIDE DEF group, first, r
<1>4. \A j \in group : \A x \in F[j].fixes : FixFingerprint(x) \in r.fixes
  BY <1>3
<1> QED
  BY <1>1, <1>2, <1>3, <1>4 DEF IsRecordOf, group, r

LEMMA SkillRecordOf ==
  ASSUME NEW F, AllStructural(F), NEW i \in Hunts(F)
  PROVE  IsRecordOf(F, i, RecordAt(F, i))
<1> DEFINE group == {j \in Hunts(F) : <<F[j].place, SynonymKey(F[j].bug)>>
                                        = <<F[i].place, SynonymKey(F[i].bug)>>}
           first == Foremost(F, group)
           r == RecordAt(F, i)
<1>1. group = GroupOf(F, i)
  BY DEF GroupOf, SameGroup
<1>2. /\ r.place = F[first].place /\ r.key = SynonymKey(F[first].bug) /\ r.bug = F[first].bug
      /\ r.agents = {F[j].agent : j \in group}
      /\ r.mechanisms = {F[j].root : j \in group}
      /\ r.axes = UNION {F[j].axes : j \in group}
      /\ r.fixes = UNION {{FixFingerprint(x) : x \in F[j].fixes} : j \in group}
  BY DEF RecordAt
<1> HIDE DEF group, r
<1>3. first \in group
  BY <1>1, GroupsOfHunts, ForemostIsFirst
<1>4. F[first].place = F[i].place /\ SynonymKey(F[first].bug) = SynonymKey(F[i].bug)
  BY <1>1, <1>3 DEF GroupOf, SameGroup
<1> HIDE DEF first
<1>5. \A j \in group : \A x \in F[j].fixes : FixFingerprint(x) \in r.fixes
  BY <1>2
<1> QED
  BY <1>1, <1>2, <1>3, <1>4, <1>5 DEF IsRecordOf, r

\* The records R of a list F, rec[i] being that of the finding at i.
Partition(F, R, rec) ==
  /\ F \in Seq(Pool)
  /\ R = {rec[i] : i \in Hunts(F)}
  /\ \A i \in Hunts(F) : IsRecordOf(F, i, rec[i])
  /\ \A i, j \in Hunts(F) : SameGroup(F[i], F[j]) => rec[i] = rec[j]

LEMMA ServicePartition ==
  ASSUME NEW F, AllWellFormed(F)
  PROVE  Partition(F, Reduced(F), [i \in Hunts(F) |-> Reduce(F, GroupOf(F, i))])
<1>1. \A i, j \in Hunts(F) : SameGroup(F[i], F[j]) => GroupOf(F, i) = GroupOf(F, j)
  BY DEF GroupOf, SameGroup
<1>2. Reduced(F) = {Reduce(F, GroupOf(F, i)) : i \in Hunts(F)}
  BY DEF Reduced, Groups
<1> QED
  BY <1>1, <1>2, ServiceRecordOf DEF Partition, AllWellFormed

LEMMA SkillPartition ==
  ASSUME NEW F, AllStructural(F)
  PROVE  Partition(F, ReduceRecords(F), [i \in Hunts(F) |-> RecordAt(F, i)])
<1>1. ASSUME NEW i \in Hunts(F), NEW j \in Hunts(F), SameGroup(F[i], F[j])
      PROVE  RecordAt(F, i) = RecordAt(F, j)
  <2>1. F[i].place = F[j].place /\ SynonymKey(F[i].bug) = SynonymKey(F[j].bug)
    BY <1>1 DEF SameGroup
  <2>2. <<F[i].place, SynonymKey(F[i].bug)>> = <<F[j].place, SynonymKey(F[j].bug)>>
    BY <2>1
  <2> QED
    BY <2>2 DEF RecordAt
<1> QED
  BY <1>1, SkillRecordOf DEF Partition, AllStructural, ReduceRecords

LEMMA CarriedOnce ==
  ASSUME NEW F, NEW R, NEW rec, Partition(F, R, rec), NEW i \in Hunts(F)
  PROVE  /\ Carries(rec[i], F[i])
         /\ Cardinality({r \in R : Carries(r, F[i])}) = 1
<1>1. i \in GroupOf(F, i)
  BY GroupsOfHunts
<1>2. Carries(rec[i], F[i])
  <2>1. /\ rec[i].place = F[i].place /\ F[i].bug \in rec[i].key
        /\ F[i].agent \in rec[i].agents /\ F[i].root \in rec[i].mechanisms
        /\ F[i].axes \subseteq rec[i].axes
    BY <1>1 DEF Partition, IsRecordOf, SynonymKey
  <2>2. \A x \in F[i].fixes : FixFingerprint(x) \in rec[i].fixes
    BY <1>1 DEF Partition, IsRecordOf
  <2>3. \A x \in F[i].fixes :
          \E fp \in rec[i].fixes : fp[1] = x.label /\ fp[2] = NormalizeAddLines(x)
    <3> TAKE x \in F[i].fixes
    <3>1. FixFingerprint(x)[1] = x.label /\ FixFingerprint(x)[2] = NormalizeAddLines(x)
      BY DEF FixFingerprint
    <3> QED
      BY <2>2, <3>1
  <2> QED
    BY <2>1, <2>3 DEF Carries
<1>3. ASSUME NEW j \in Hunts(F), Carries(rec[j], F[i])
      PROVE  rec[j] = rec[i]
  <2>1. F[j].place = F[i].place /\ F[i].bug \in SynonymKey(F[j].bug)
    BY <1>3 DEF Carries, Partition, IsRecordOf
  <2>2. SameGroup(F[j], F[i])
    BY <2>1, KeysPartition DEF SameGroup
  <2> QED
    BY <2>2 DEF Partition
<1>4. {r \in R : Carries(r, F[i])} = {rec[i]}
  BY <1>2, <1>3 DEF Partition
<1> QED
  BY <1>2, <1>4, FS_Singleton

LEMMA ReportersCarried ==
  ASSUME NEW F, NEW R, NEW rec, Partition(F, R, rec), NEW r \in R, NEW a \in r.agents
  PROVE  \E i \in Hunts(F) : F[i].agent = a /\ Carries(r, F[i])
<1>1. PICK k \in Hunts(F) : r = rec[k]
  BY DEF Partition
<1>2. PICK i \in GroupOf(F, k) : a = F[i].agent
  BY <1>1 DEF Partition, IsRecordOf
<1>3. i \in Hunts(F) /\ rec[i] = r
  BY <1>1, <1>2 DEF GroupOf, Partition
<1> QED
  BY <1>2, <1>3, CarriedOnce

\* Records of one place go by different names.
LEMMA NamesDiffer ==
  ASSUME NEW F, NEW R, NEW rec, Partition(F, R, rec), NEW x \in R, NEW y \in R,
         x.place = y.place, x.bug = y.bug
  PROVE  x = y
<1>1. PICK i \in Hunts(F), j \in Hunts(F) : x = rec[i] /\ y = rec[j]
  BY DEF Partition
<1>2. PICK k \in GroupOf(F, i), l \in GroupOf(F, j) : x.bug = F[k].bug /\ y.bug = F[l].bug
  BY <1>1 DEF Partition, IsRecordOf
<1>3. SynonymKey(F[i].bug) = SynonymKey(F[j].bug)
  BY <1>2 DEF GroupOf, SameGroup
<1>4. F[i].place = F[j].place
  BY <1>1 DEF Partition, IsRecordOf
<1> QED
  BY <1>1, <1>3, <1>4 DEF Partition, SameGroup

LEMMA EachByName ==
  ASSUME NEW F, NEW R, NEW rec, Partition(F, R, rec), NEW c \in Coexisting(R)
  PROVE  Cardinality(c.keys) = Cardinality({r \in R : r.place = c.place})
<1>1. PICK r \in R : c = [place |-> r.place,
                         keys |-> {q.bug : q \in {x \in R : x.place = r.place}}]
  BY DEF Coexisting
<1> DEFINE here == {x \in R : x.place = c.place}
           name == [x \in here |-> x.bug]
<1>2. c.keys = {x.bug : x \in here}
  BY <1>1
<1>3. IsFiniteSet(R)
  <2> DEFINE f == [i \in Hunts(F) |-> rec[i]]
  <2>1. f \in Surjection(Hunts(F), R)
    BY DEF Surjection, Partition
  <2>2. IsFiniteSet(Hunts(F))
    BY HuntsFinite DEF Partition
  <2> HIDE DEF f
  <2> QED
    BY <2>1, <2>2, FS_Surjection
<1>4. IsFiniteSet(here)
  BY <1>3, FS_Subset
<1>5. \A x, y \in here : x.bug = y.bug => x = y
  BY NamesDiffer
<1> HIDE DEF here
<1>6. name \in Bijection(here, c.keys)
  BY <1>2, <1>5 DEF Bijection, Injection, IsInjective, Surjection
<1>7. Cardinality(here) = Cardinality(c.keys)
  BY <1>4, <1>6, FS_Bijection DEF ExistsBijection
<1> QED
  BY <1>7 DEF here

\* Classes that share a group are synonyms, so none is left for adjudication.
LEMMA NothingQueued ==
  ASSUME NEW F
  PROVE  MergeQueue(F) = {}
<1> SUFFICES ASSUME NEW g \in Groups(F), Cardinality({F[i].bug : i \in g}) > 1,
                    \A i \in g : SynonymKey(F[i].bug) = {F[i].bug}
             PROVE  FALSE
  BY DEF MergeQueue
<1>1. PICK k \in Hunts(F) : g = GroupOf(F, k)
  BY DEF Groups
<1>2. k \in g /\ \A i \in g : SynonymKey(F[i].bug) = SynonymKey(F[k].bug)
  BY <1>1, GroupsOfHunts DEF GroupOf, SameGroup
<1>3. \A i \in g : F[i].bug = F[k].bug
  BY <1>2
<1> DEFINE bugs == {F[i].bug : i \in g}
<1>4. bugs = {F[k].bug}
  BY <1>2, <1>3
<1>5. Cardinality(bugs) > 1
  OBVIOUS
<1> HIDE DEF bugs
<1>6. Cardinality(bugs) = 1
  BY <1>4, FS_Singleton
<1> QED
  BY <1>5, <1>6

LEMMA NothingDropped ==
  ASSUME NEW F, NEW R, NEW rec, Partition(F, R, rec)
  PROVE  Dropped(F, R) = {}
BY DEF Dropped, Partition, IsRecordOf

\* Nothing is merged away and nothing crosses functions, in either half and for any
\* findings it admits.
THEOREM FunctionsIsolated == Spec => []FunctionIsolation
<1>1. Admitted => FunctionIsolation
  <2> SUFFICES ASSUME Admitted,
                      NEW case \in {<<accepted, Reduced(accepted)>>,
                                    <<validated, ReduceRecords(validated)>>}
               PROVE  LET F == case[1]  R == case[2] IN
                        /\ \A i \in Hunts(F) : Cardinality({r \in R : Carries(r, F[i])}) = 1
                        /\ \A r \in R, a \in {f.agent : f \in Pool} :
                             a \in r.agents =>
                               \E i \in Hunts(F) : F[i].agent = a /\ Carries(r, F[i])
                        /\ \A c \in Coexisting(R) :
                             Cardinality(c.keys) = Cardinality({r \in R : r.place = c.place})
                        /\ MergeQueue(F) = {} /\ Dropped(F, R) = {}
    BY DEF FunctionIsolation
  <2> DEFINE F == case[1]
             R == case[2]
  <2>1. PICK rec : Partition(F, R, rec)
    <3>1. \E rec : Partition(accepted, Reduced(accepted), rec)
      BY ServicePartition DEF Admitted
    <3>2. \E rec : Partition(validated, ReduceRecords(validated), rec)
      BY SkillPartition DEF Admitted
    <3>3. \/ F = accepted /\ R = Reduced(accepted)
          \/ F = validated /\ R = ReduceRecords(validated)
      OBVIOUS
    <3> HIDE DEF F, R
    <3> QED
      BY <3>1, <3>2, <3>3
  <2> HIDE DEF F, R
  <2>2. \A i \in Hunts(F) : Cardinality({r \in R : Carries(r, F[i])}) = 1
    BY <2>1, CarriedOnce
  <2>3. \A r \in R : \A a \in r.agents :
          \E i \in Hunts(F) : F[i].agent = a /\ Carries(r, F[i])
    BY <2>1, ReportersCarried
  <2>4. \A c \in Coexisting(R) :
          Cardinality(c.keys) = Cardinality({r \in R : r.place = c.place})
    BY <2>1, EachByName
  <2>5. MergeQueue(F) = {} /\ Dropped(F, R) = {}
    BY <2>1, NothingQueued, NothingDropped
  <2> QED
    BY <2>2, <2>3, <2>4, <2>5 DEF F, R
<1> QED
  BY <1>1, OnlyAdmittedReduced, PTL

-----------------------------------------------------------------------------
(* Agreement *)

\* Only one member of a group comes before all others.
LEMMA BestIsUnique ==
  ASSUME NEW F, AllWellFormed(F), NEW group \in SUBSET Hunts(F), NEW b \in group,
         \A j \in group \ {b} : Outweighs(F[b], F[j]) \/ (~Outweighs(F[j], F[b]) /\ b < j)
  PROVE  Best(F, group) = b
<1>1. /\ Best(F, group) \in group
      /\ \A j \in group \ {Best(F, group)} :
           \/ Outweighs(F[Best(F, group)], F[j])
           \/ ~Outweighs(F[j], F[Best(F, group)]) /\ Best(F, group) < j
  BY BestIsFirst
<1> DEFINE a == Best(F, group)
<1> HIDE DEF a
<1> SUFFICES ASSUME a # b
             PROVE  FALSE
  BY DEF a
<1>2. a \in group /\ a \in Nat /\ b \in Nat /\ WellFormed(F[a]) /\ WellFormed(F[b])
  BY <1>1, HuntsFinite DEF a, AllWellFormed
<1>3. /\ Outweighs(F[a], F[b]) \/ (~Outweighs(F[b], F[a]) /\ a < b)
      /\ Outweighs(F[b], F[a]) \/ (~Outweighs(F[a], F[b]) /\ b < a)
  BY <1>1, <1>2 DEF a
<1>4. ~(Outweighs(F[a], F[b]) /\ Outweighs(F[b], F[a]))
  <2>1. /\ F[a].claim \in Int /\ ProofLength(F[a]) \in Int /\ IsFinding(F[a]) \in Int
        /\ F[b].claim \in Int /\ ProofLength(F[b]) \in Int /\ IsFinding(F[b]) \in Int
    BY <1>2 DEF WellFormed, Severities, ProofLength, IsFinding
  <2> QED
    BY <2>1 DEF Outweighs
<1> QED
  BY <1>2, <1>3, <1>4

\* F is the list B with one more finding, the nth.
OneMore(B, F, n) ==
  AllWellFormed(F) /\ n = Len(F) /\ n > 0 /\ B = SubSeq(F, 1, n - 1)

\* The group of an earlier finding keeps its members, and gains the new one at most.
LEMMA GroupGrows ==
  ASSUME NEW F, NEW B, NEW n, OneMore(B, F, n), NEW i \in Hunts(B)
  PROVE  /\ AllWellFormed(B) /\ i \in Hunts(F)
         /\ GroupOf(B, i) \subseteq GroupOf(F, i)
         /\ GroupOf(F, i) \subseteq GroupOf(B, i) \cup {n}
         /\ \A j \in GroupOf(B, i) : B[j] = F[j] /\ j < n
         /\ n \in GroupOf(F, i) => F[n].kind \in {"FINDING", "LEAD"}
<1>1. F \in Seq(Pool) /\ DOMAIN F = 1..n /\ n \in Nat \ {0} /\ AllWellFormed(F)
      /\ B = SubSeq(F, 1, n - 1)
  BY DEF AllWellFormed, OneMore
<1>2. B \in Seq(Pool) /\ DOMAIN B = 1..(n - 1) /\ \A j \in 1..(n - 1) : B[j] = F[j]
  BY <1>1
<1>3. AllWellFormed(B)
  BY <1>1, <1>2 DEF AllWellFormed
<1>4. Hunts(B) = {j \in 1..(n - 1) : F[j].kind \in {"FINDING", "LEAD"}}
      /\ Hunts(F) = {j \in 1..n : F[j].kind \in {"FINDING", "LEAD"}}
  BY <1>1, <1>2 DEF Hunts
<1>5. /\ GroupOf(B, i) = {j \in Hunts(B) : SameGroup(F[i], F[j])}
      /\ GroupOf(F, i) = {j \in Hunts(F) : SameGroup(F[i], F[j])}
  BY <1>2, <1>4 DEF GroupOf
<1>6. \A j \in 1..n : j \in 1..(n - 1) \/ j = n
  BY <1>1
<1>7. \A j \in 1..(n - 1) : j \in 1..n /\ j < n
  BY <1>1
<1> QED
  BY <1>2, <1>3, <1>4, <1>5, <1>6, <1>7

LEMMA AgreementOf ==
  ASSUME NEW F, NEW B, NEW n, OneMore(B, F, n), NEW i \in Hunts(B),
         F[n].kind = "AXISGAP" \/ ~Outweighs(F[n], B[Best(B, GroupOf(B, i))])
  PROVE  /\ Best(F, GroupOf(F, i)) = Best(B, GroupOf(B, i))
         /\ ConfidenceOf(F, i) >= ConfidenceOf(B, i)
<1> DEFINE old == GroupOf(B, i)
           new == GroupOf(F, i)
           b == Best(B, old)
<1>1. AllWellFormed(F)
  BY DEF OneMore
<1>2. F[n].kind = "AXISGAP" \/ ~Outweighs(F[n], B[b])
  OBVIOUS
<1>3. /\ AllWellFormed(B) /\ i \in Hunts(F)
      /\ old \subseteq new /\ new \subseteq old \cup {n}
      /\ \A j \in old : B[j] = F[j] /\ j < n
      /\ n \in new => F[n].kind \in {"FINDING", "LEAD"}
  BY GroupGrows
<1>4. old \in SUBSET Hunts(B) /\ i \in old /\ new \in SUBSET Hunts(F)
  BY <1>3, GroupsOfHunts
<1>5. /\ b \in old
      /\ \A j \in old \ {b} : Outweighs(B[b], B[j]) \/ (~Outweighs(B[j], B[b]) /\ b < j)
  BY <1>3, <1>4, BestIsFirst
<1> HIDE DEF old, new, b
<1>6. \A j \in new \ {b} : Outweighs(F[b], F[j]) \/ (~Outweighs(F[j], F[b]) /\ b < j)
  BY <1>2, <1>3, <1>5
<1>7. Best(F, new) = b
  BY <1>1, <1>3, <1>4, <1>5, <1>6, BestIsUnique
<1>8. B[b] = F[b] /\ WellFormed(F[b])
  BY <1>1, <1>3, <1>4, <1>5, HuntsFinite DEF AllWellFormed
<1> DEFINE few == Cardinality(Agents(B, old))
           many == Cardinality(Agents(F, new))
<1>9. few \in Nat /\ many \in Nat /\ few <= many
  <2>1. Agents(B, old) \in SUBSET Agents(F, new)
    BY <1>3 DEF Agents
  <2>2. IsFiniteSet(Agents(F, new))
    <3> DEFINE by == [j \in new |-> F[j].agent]
    <3>1. IsFiniteSet(new)
      BY <1>1, <1>4, HuntsFinite, FS_Subset DEF AllWellFormed
    <3>2. by \in Surjection(new, Agents(F, new))
      BY DEF Surjection, Agents
    <3> HIDE DEF by
    <3> QED
      BY <3>1, <3>2, FS_Surjection
  <2> QED
    BY <2>1, <2>2, FS_Subset, FS_CardinalityType
<1>10. /\ ConfidenceOf(B, i) = Confidence(B[b], few)
       /\ ConfidenceOf(F, i) = Confidence(F[b], many)
  BY <1>7 DEF ConfidenceOf, Reduce, b, old, new
<1> HIDE DEF few, many
<1>11. Confidence(F[b], few) <= Confidence(F[b], many)
       /\ Confidence(F[b], few) \in 0..99 /\ Confidence(F[b], many) \in 0..99
  BY <1>8, <1>9, ConfidenceComputed
<1>12. ConfidenceOf(F, i) >= ConfidenceOf(B, i)
  BY <1>8, <1>10, <1>11
<1> QED
  BY <1>7, <1>12 DEF new, b, old

\* Agreement never hurts: a finding that does not outweigh the best of its group
\* leaves it the best, with no less confidence.
THEOREM AgreementNeverHurts == Spec => []AgreementHelps
<1>1. Admitted => AgreementHelps
  <2> DEFINE n == Len(findings)
             before == SubSeq(findings, 1, n - 1)
  <2> SUFFICES ASSUME Admitted, n > 1, accepted = findings, NEW i \in Hunts(before),
                      \/ findings[n].kind = "AXISGAP"
                      \/ ~Outweighs(findings[n], before[Best(before, GroupOf(before, i))])
               PROVE  /\ Best(findings, GroupOf(findings, i))
                           = Best(before, GroupOf(before, i))
                      /\ ConfidenceOf(findings, i) >= ConfidenceOf(before, i)
    BY DEF AgreementHelps
  <2>1. OneMore(before, findings, n)
    BY DEF Admitted, OneMore
  <2> HIDE DEF n, before
  <2> QED
    BY <2>1, AgreementOf
<1> QED
  BY <1>1, OnlyAdmittedReduced, PTL

-----------------------------------------------------------------------------
(* The order of the files *)

\* A record is determined by which findings are in its group and which of them is
\* the best, wherever they stand in the list.
LEMMA SameRecord ==
  ASSUME NEW F, NEW g, NEW B, NEW h,
         \A i \in g : \E j \in h : B[j] = F[i],
         \A j \in h : \E i \in g : F[i] = B[j],
         F[Best(F, g)] = B[Best(B, h)]
  PROVE  Reduce(F, g) = Reduce(B, h)
<1>1. {F[i].agent : i \in g} = {B[j].agent : j \in h}
  OBVIOUS
<1>2. {F[i].root : i \in g} = {B[j].root : j \in h}
  OBVIOUS
<1>3. UNION {F[i].fixes : i \in g} = UNION {B[j].fixes : j \in h}
  OBVIOUS
<1>4. UNION {F[i].axes : i \in g} = UNION {B[j].axes : j \in h}
  OBVIOUS
<1> QED
  BY <1>1, <1>2, <1>3, <1>4 DEF Reduce, Agents, Mechanisms

\* B is F in reverse, and no two findings of a group are tied.
Backwards(F, B) ==
  /\ AllWellFormed(F) /\ AllWellFormed(B) /\ Len(F) = Len(B)
  /\ \A i \in 1..Len(F) : B[i] = F[Len(F) + 1 - i]

NoTies(F) ==
  \A i, j \in Hunts(F) :
    i # j /\ SameGroup(F[i], F[j]) => Outweighs(F[i], F[j]) \/ Outweighs(F[j], F[i])

LEMMA ReverseBack ==
  ASSUME NEW F, NEW B, Backwards(F, B), NoTies(F)
  PROVE  Backwards(B, F) /\ NoTies(B)
<1> DEFINE n == Len(F)
           other(i) == n + 1 - i
<1>1. n \in Nat /\ DOMAIN F = 1..n /\ DOMAIN B = 1..n /\ n = Len(B)
  BY DEF Backwards, AllWellFormed
<1>2. \A i \in 1..n : other(i) \in 1..n /\ other(other(i)) = i
  BY <1>1
<1>3. \A i \in 1..n : B[i] = F[other(i)]
  BY DEF Backwards
<1>4. \A i, j \in 1..n : other(i) = other(j) => i = j
  BY <1>1
<1> HIDE DEF n, other
<1>5. \A i \in 1..n : F[i] = B[other(i)]
  BY <1>2, <1>3
<1>6. Backwards(B, F)
  BY <1>1, <1>5 DEF Backwards, n, other
<1>7. NoTies(B)
  <2> SUFFICES ASSUME NEW i \in Hunts(B), NEW j \in Hunts(B), i # j,
                      SameGroup(B[i], B[j])
               PROVE  Outweighs(B[i], B[j]) \/ Outweighs(B[j], B[i])
    BY DEF NoTies
  <2>1. i \in 1..n /\ j \in 1..n
    BY <1>1 DEF Hunts
  <2>2. other(i) \in Hunts(F) /\ other(j) \in Hunts(F) /\ other(i) # other(j)
    BY <1>1, <1>2, <1>3, <1>4, <2>1 DEF Hunts
  <2> QED
    BY <1>3, <2>1, <2>2 DEF NoTies
<1> QED
  BY <1>6, <1>7

LEMMA ReversedRecords ==
  ASSUME NEW F, NEW B, Backwards(F, B), NoTies(F)
  PROVE  Reduced(B) \subseteq Reduced(F)
<1> DEFINE n == Len(F)
           other == [i \in 1..n |-> n + 1 - i]
<1>1. n \in Nat /\ DOMAIN F = 1..n /\ DOMAIN B = 1..n /\ AllWellFormed(F) /\ AllWellFormed(B)
  BY DEF Backwards, AllWellFormed
<1>2. \A i \in 1..n : other[i] \in 1..n /\ other[other[i]] = i
  BY <1>1
<1>3. \A i \in 1..n : B[i] = F[other[i]]
  BY DEF Backwards
<1> HIDE DEF n, other
<1>4. \A i \in Hunts(B) : other[i] \in Hunts(F) /\ i \in 1..n
  BY <1>1, <1>2, <1>3 DEF Hunts
<1> SUFFICES ASSUME NEW k \in Hunts(B)
             PROVE  Reduce(B, GroupOf(B, k)) \in Reduced(F)
  BY DEF Reduced, Groups
<1> DEFINE h == GroupOf(B, k)
           g == GroupOf(F, other[k])
<1>5. /\ \A j \in h : other[j] \in g /\ F[other[j]] = B[j]
      /\ \A i \in g : other[i] \in h /\ B[other[i]] = F[i] /\ i \in 1..n
  <2>1. ASSUME NEW j \in h
        PROVE  other[j] \in g /\ F[other[j]] = B[j]
    BY <1>3, <1>4 DEF GroupOf, SameGroup
  <2>2. ASSUME NEW i \in g
        PROVE  other[i] \in h /\ B[other[i]] = F[i] /\ i \in 1..n
    <3>1. i \in 1..n /\ i \in Hunts(F) /\ SameGroup(F[other[k]], F[i])
      BY <1>1 DEF GroupOf, Hunts
    <3>2. other[i] \in 1..n /\ B[other[i]] = F[i]
      BY <1>2, <1>3, <3>1
    <3>3. other[i] \in Hunts(B)
      BY <1>1, <3>1, <3>2 DEF Hunts
    <3> QED
      BY <1>3, <1>4, <3>1, <3>2, <3>3 DEF GroupOf
  <2> QED
    BY <2>1, <2>2
<1>6. /\ h \in SUBSET Hunts(B) /\ h # {} /\ g \in SUBSET Hunts(F)
  BY <1>4, GroupsOfHunts
<1> DEFINE b == Best(B, h)
<1>7. /\ b \in h
      /\ \A j \in h \ {b} : Outweighs(B[b], B[j]) \/ (~Outweighs(B[j], B[b]) /\ b < j)
  BY <1>1, <1>6, BestIsFirst
<1>8. \A i, j \in g : SameGroup(F[i], F[j])
  BY DEF GroupOf, SameGroup
<1> HIDE DEF h, g, b
<1>9. \A i \in g \ {other[b]} : Outweighs(F[other[b]], F[i])
  <2> SUFFICES ASSUME NEW i \in g, i # other[b]
               PROVE  Outweighs(F[other[b]], F[i])
    OBVIOUS
  <2>1. other[i] \in h /\ B[other[i]] = F[i] /\ other[b] \in g /\ F[other[b]] = B[b]
    BY <1>5, <1>7
  <2>2. other[i] # b
    BY <1>2, <1>5
  <2>3. Outweighs(F[other[b]], F[i]) \/ ~Outweighs(F[i], F[other[b]])
    BY <1>7, <2>1, <2>2
  <2>4. Outweighs(F[other[b]], F[i]) \/ Outweighs(F[i], F[other[b]])
    BY <1>6, <1>8, <2>1 DEF NoTies
  <2> QED
    BY <2>3, <2>4
<1>10. Best(F, g) = other[b]
  BY <1>1, <1>5, <1>6, <1>7, <1>9, BestIsUnique
<1>11. Reduce(F, g) = Reduce(B, h)
  BY <1>5, <1>7, <1>10, SameRecord DEF b
<1> QED
  BY <1>4, <1>11 DEF Reduced, Groups, g, h

\* But for ties inside a group, what is made of the findings does not depend on the
\* order in which the files are read.
THEOREM OrderImmaterial == Spec => []OrderOnlyBreaksTies
<1>1. Admitted => OrderOnlyBreaksTies
  <2> DEFINE n == Len(findings)
             backwards == [i \in 1..n |-> findings[n + 1 - i]]
  <2> SUFFICES ASSUME Admitted, accepted = findings, ~SomeMembers(Tie)
               PROVE  Reduced(backwards) = Reduced(findings)
    BY DEF OrderOnlyBreaksTies
  <2>1. NoTies(findings)
    BY DEF SomeMembers, Tie, NoTies
  <2>2. Backwards(findings, backwards)
    <3>1. findings \in Seq(Pool) /\ n \in Nat /\ DOMAIN findings = 1..n
          /\ \A i \in 1..n : WellFormed(findings[i]) /\ findings[i] \in Pool
      BY DEF Admitted, AllWellFormed
    <3>2. \A i \in 1..n : n + 1 - i \in 1..n
      BY <3>1
    <3>3. /\ backwards \in [1..n -> Pool] /\ DOMAIN backwards = 1..n
          /\ \A i \in 1..n : backwards[i] = findings[n + 1 - i]
      BY <3>1, <3>2
    <3> HIDE DEF backwards
    <3>4. backwards \in Seq(Pool) /\ Len(backwards) = n
      BY <3>1, <3>3
    <3> QED
      BY <3>1, <3>2, <3>3, <3>4 DEF Backwards, AllWellFormed
  <2> HIDE DEF n, backwards
  <2> QED
    BY <2>1, <2>2, ReverseBack, ReversedRecords
<1> QED
  BY <1>1, OnlyAdmittedReduced, PTL

-----------------------------------------------------------------------------
(* The service and the skill *)

\* What both halves admit, at one reporter or more, they give the same confidence.
LEMMA SameConfidence ==
  ASSUME NEW f, WellFormed(f), NEW n \in Nat, n >= 1
  PROVE  RecordConfidence(f, n) = Confidence(f, n)
<1> DEFINE base == IF f.kind # "FINDING" THEN 30
                   ELSE IF f.proof \in ProofKinds THEN ProofBase(f.proof) ELSE 40
           support == IF 5 * (n - 1) < 15 THEN 5 * (n - 1) ELSE 15
           poc == PocBonus(f.poc)
           delta == VerifierDelta(f.verdict)
           blockers == Cardinality(f.da \cap Dimensions)
           sum == base + support + poc + delta - 10 * blockers
<1>1. base = Base(f) /\ base \in 30..60
  BY Terms DEF Base, WellFormed
<1>2. support = CorroborationBonus(n) /\ support \in 0..15
  BY DEF CorroborationBonus
<1>3. f.da \cap Dimensions = f.da
  BY DEF WellFormed
<1>4. poc \in 0..25 /\ delta \in {15, -15, -40, -100, -5} /\ blockers \in Nat
  BY <1>3, Terms
<1>5. RecordConfidence(f, n) = IF sum > 99 THEN 99 ELSE IF sum < 0 THEN 0 ELSE sum
  BY Zenon DEF RecordConfidence
<1>6. Confidence(f, n) = Clamp(sum)
  BY <1>1, <1>2, <1>3 DEF Confidence
<1> HIDE DEF base, support, poc, delta, blockers
<1>7. sum \in Int
  BY <1>1, <1>2, <1>4
<1> HIDE DEF sum
<1> QED
  BY <1>5, <1>6, <1>7 DEF Clamp

\* What a record is of, but for the finding chosen to stand for its group.
NameOf(r) == <<r.place, r.key, r.agents, r.mechanisms, r.fixes, r.axes>>

LEMMA SameNames ==
  ASSUME NEW F, AllWellFormed(F), AllStructural(F), NEW i \in Hunts(F)
  PROVE  NameOf(Reduce(F, GroupOf(F, i))) = NameOf(RecordAt(F, i))
<1> DEFINE group == GroupOf(F, i)
           r == Reduce(F, group)
           q == RecordAt(F, i)
<1>1. IsRecordOf(F, i, r) /\ IsRecordOf(F, i, q)
  BY ServiceRecordOf, SkillRecordOf
<1>2. group = {j \in Hunts(F) : <<F[j].place, SynonymKey(F[j].bug)>>
                                  = <<F[i].place, SynonymKey(F[i].bug)>>}
  BY DEF GroupOf, SameGroup
<1>3. r.fixes = {FixFingerprint(x) : x \in UNION {F[j].fixes : j \in group}}
  BY DEF Reduce
<1>4. q.fixes = UNION {{FixFingerprint(x) : x \in F[j].fixes} : j \in group}
  BY <1>2 DEF RecordAt
<1> HIDE DEF group, r, q
<1>5. r.fixes = q.fixes
  BY <1>3, <1>4
<1> QED
  BY <1>1, <1>5 DEF IsRecordOf, NameOf, r, q, group

\* A pair of a hot function and an axis it requires, and whether it is a gap.
PairOf(hots, n, axis) == [hot |-> n, place |-> hots[n].place, axis |-> axis]

OpenAt(hots, F, n, axis) ==
  n \in DOMAIN hots /\ axis \in RequiredAxes(hots[n]) \ Examined(F, hots[n].place)

LEMMA ServiceGaps ==
  ASSUME NEW hots, NEW F
  PROVE  /\ \A g \in AxisGaps(hots, F) :
              \E n, axis : OpenAt(hots, F, n, axis) /\ g = PairOf(hots, n, axis)
         /\ \A n, axis : OpenAt(hots, F, n, axis) => PairOf(hots, n, axis) \in AxisGaps(hots, F)
<1>1. ASSUME NEW place, NEW axis
      PROVE  <<place, axis>> \in Covered(F) <=> axis \in Examined(F, place)
  BY DEF Covered, Examined
<1>2. ASSUME NEW n \in DOMAIN hots, NEW axis \in RequiredAxes(hots[n])
      PROVE  /\ PairOf(hots, n, axis) \in Pairs(hots)
             /\ PairOf(hots, n, axis).place = hots[n].place
             /\ PairOf(hots, n, axis).axis = axis
  BY DEF Pairs, PairOf
<1>3. ASSUME NEW g \in Pairs(hots)
      PROVE  \E n \in DOMAIN hots : \E axis \in RequiredAxes(hots[n]) : g = PairOf(hots, n, axis)
  BY DEF Pairs, PairOf
<1>4. ASSUME NEW n \in DOMAIN hots, NEW axis \in RequiredAxes(hots[n])
      PROVE  PairOf(hots, n, axis) \in AxisGaps(hots, F) <=> axis \notin Examined(F, hots[n].place)
  <2> DEFINE p == PairOf(hots, n, axis)
  <2>1. p \in Pairs(hots) /\ p.place = hots[n].place /\ p.axis = axis
    BY <1>2
  <2>2. p \in AxisGaps(hots, F) <=> <<p.place, p.axis>> \notin Covered(F)
    BY <2>1 DEF AxisGaps
  <2> HIDE DEF p
  <2>3. p \in AxisGaps(hots, F) <=> <<hots[n].place, axis>> \notin Covered(F)
    BY <2>1, <2>2
  <2> QED
    BY <1>1, <2>3 DEF p
<1>5. ASSUME NEW g \in AxisGaps(hots, F)
      PROVE  \E n, axis : OpenAt(hots, F, n, axis) /\ g = PairOf(hots, n, axis)
  <2>1. g \in Pairs(hots)
    BY DEF AxisGaps
  <2>2. PICK n \in DOMAIN hots : \E axis \in RequiredAxes(hots[n]) : g = PairOf(hots, n, axis)
    BY <1>3, <2>1
  <2>3. PICK axis \in RequiredAxes(hots[n]) : g = PairOf(hots, n, axis)
    BY <2>2
  <2> QED
    BY <1>4, <2>3 DEF OpenAt
<1> QED
  BY <1>4, <1>5 DEF OpenAt

\* Both halves find the same gaps, by place and axis.
LEMMA SameGaps ==
  ASSUME NEW hots, NEW F
  PROVE  {<<g.place, g.axis>> : g \in AxisGaps(hots, F)}
           = {<<g.place, g.axis>> : g \in GapRecords(hots, F)}
<1>1. ASSUME NEW n, NEW axis
      PROVE  /\ PairOf(hots, n, axis).place = GapRecord(n, hots[n], axis).place
             /\ PairOf(hots, n, axis).axis = GapRecord(n, hots[n], axis).axis
  BY DEF GapRecord, PairOf
<1>2. ASSUME NEW g \in AxisGaps(hots, F)
      PROVE  \E q \in GapRecords(hots, F) : g.place = q.place /\ g.axis = q.axis
  <2>1. PICK n, axis : OpenAt(hots, F, n, axis) /\ g = PairOf(hots, n, axis)
    BY ServiceGaps
  <2>2. GapRecord(n, hots[n], axis) \in GapRecords(hots, F)
    BY <2>1 DEF GapRecords, OpenAt
  <2> QED
    BY <1>1, <2>1, <2>2
<1>3. ASSUME NEW q \in GapRecords(hots, F)
      PROVE  \E g \in AxisGaps(hots, F) : g.place = q.place /\ g.axis = q.axis
  <2>1. PICK n, axis : OpenAt(hots, F, n, axis) /\ q = GapRecord(n, hots[n], axis)
    BY DEF GapRecords, OpenAt
  <2>2. PairOf(hots, n, axis) \in AxisGaps(hots, F)
    BY <2>1, ServiceGaps
  <2> QED
    BY <1>1, <2>1, <2>2
<1> QED
  BY <1>2, <1>3

\* Where the keys order the group alike, both halves choose the same finding.
LEMMA SameChoice ==
  ASSUME NEW F, AllWellFormed(F), AllStructural(F), NEW i \in Hunts(F),
         \A j, k \in GroupOf(F, i) :
           j # k => (Outweighs(F[j], F[k]) <=> RanksAbove(F[j], F[k]))
  PROVE  Reduce(F, GroupOf(F, i)) = RecordAt(F, i)
<1> DEFINE group == GroupOf(F, i)
           first == Foremost(F, group)
           reporters == {F[j].agent : j \in group}
<1>1. group \in SUBSET Hunts(F) /\ group # {} /\ F \in Seq(Pool) /\ Hunts(F) \subseteq Nat
      /\ Hunts(F) \subseteq DOMAIN F
  BY GroupsOfHunts, HuntsFinite DEF AllWellFormed
<1>2. /\ first \in group
      /\ \A j \in group \ {first} :
           \/ RanksAbove(F[first], F[j])
           \/ Rank(F[first]) = Rank(F[j]) /\ first < j
  BY <1>1, ForemostIsFirst
<1>3. \A j \in group \ {first} :
        \/ Outweighs(F[first], F[j])
        \/ ~Outweighs(F[j], F[first]) /\ first < j
  <2> SUFFICES ASSUME NEW j \in group \ {first}, ~Outweighs(F[first], F[j])
               PROVE  ~Outweighs(F[j], F[first]) /\ first < j
    OBVIOUS
  <2>1. Rank(F[first]) = Rank(F[j]) /\ first < j
    BY <1>2
  <2>2. ASSUME RanksAbove(F[j], F[first])
        PROVE  FALSE
    <3>1. PICK k \in 1..4 : Rank(F[j])[k] > Rank(F[first])[k]
      BY <2>2 DEF RanksAbove
    <3>2. /\ IsFinding(F[j]) \in Int /\ F[j].claim \in Int
          /\ F[j].jsonLength \in Int /\ F[j].pocLength \in Int
      <4>1. F[j] \in Pool /\ Structural(F[j])
        BY <1>1 DEF AllStructural
      <4> QED
        BY <4>1, PoolAssumption DEF Structural, Severities, IsFinding
    <3>3. Rank(F[j])[k] \in Int
      BY <3>2 DEF Rank
    <3> QED
      BY <2>1, <3>1, <3>3
  <2> QED
    BY <1>2, <2>1, <2>2
<1>4. Best(F, group) = first
  BY <1>1, <1>2, <1>3, BestIsUnique
<1>5. WellFormed(F[first])
  BY <1>1, <1>2 DEF AllWellFormed
<1>6. Cardinality(reporters) \in Nat /\ Cardinality(reporters) >= 1
  <2>1. IsFiniteSet(group)
    BY <1>1, HuntsFinite, FS_Subset
  <2>2. [j \in group |-> F[j].agent] \in Surjection(group, reporters)
    BY DEF Surjection
  <2>3. IsFiniteSet(reporters) /\ reporters # {}
    BY <1>1, <2>1, <2>2, FS_Surjection
  <2> HIDE DEF reporters
  <2>4. Cardinality(reporters) \in Nat /\ Cardinality(reporters) # 0
    BY <2>3, FS_EmptySet, FS_CardinalityType
  <2> QED
    BY <2>4
<1>7. RecordConfidence(F[first], Cardinality(reporters))
        = Confidence(F[first], Cardinality(reporters))
  BY <1>5, <1>6, SameConfidence
<1>8. group = {j \in Hunts(F) : <<F[j].place, SynonymKey(F[j].bug)>>
                                  = <<F[i].place, SynonymKey(F[i].bug)>>}
  BY DEF GroupOf, SameGroup
<1>9. Agents(F, group) = reporters /\ Mechanisms(F, group) = {F[j].root : j \in group}
  BY DEF Agents, Mechanisms
<1>10. {FixFingerprint(x) : x \in UNION {F[j].fixes : j \in group}}
         = UNION {{FixFingerprint(x) : x \in F[j].fixes} : j \in group}
  OBVIOUS
<1> HIDE DEF group, first, reporters
<1> QED
  BY <1>4, <1>7, <1>8, <1>9, <1>10 DEF Reduce, RecordAt, first, reporters, group

\* The skill and the service make the same of the same findings, but where their sort
\* keys order the members of a group differently.
THEOREM TwinsAgreed == Spec => []TwinsAgree
<1>1. Admitted => TwinsAgree
  <2> SUFFICES ASSUME Admitted, accepted = findings, validated = findings
               PROVE  /\ {NameOf(r) : r \in Reduced(findings)}
                           = {NameOf(r) : r \in ReduceRecords(findings)}
                      /\ {<<g.place, g.axis>> : g \in AxisGaps(HotFunctions, findings)}
                           = {<<g.place, g.axis>> : g \in GapRecords(HotFunctions, findings)}
                      /\ SomeMembers(Drift) \/ Reduced(findings) = ReduceRecords(findings)
    BY DEF TwinsAgree, NameOf
  <2>1. AllWellFormed(findings) /\ AllStructural(findings)
    BY DEF Admitted
  <2>2. /\ Reduced(findings) = {Reduce(findings, GroupOf(findings, i)) : i \in Hunts(findings)}
        /\ ReduceRecords(findings) = {RecordAt(findings, i) : i \in Hunts(findings)}
    BY DEF Reduced, Groups, ReduceRecords
  <2>3. {NameOf(r) : r \in Reduced(findings)} = {NameOf(r) : r \in ReduceRecords(findings)}
    BY <2>1, <2>2, SameNames
  <2>4. ASSUME ~SomeMembers(Drift)
        PROVE  Reduced(findings) = ReduceRecords(findings)
    <3>1. ASSUME NEW i \in Hunts(findings)
          PROVE  Reduce(findings, GroupOf(findings, i)) = RecordAt(findings, i)
      <4>1. ASSUME NEW j \in GroupOf(findings, i), NEW k \in GroupOf(findings, i), j # k
            PROVE  Outweighs(findings[j], findings[k]) <=> RanksAbove(findings[j], findings[k])
        <5>1. j \in Hunts(findings) /\ k \in Hunts(findings) /\ SameGroup(findings[j], findings[k])
          BY DEF GroupOf, SameGroup
        <5>2. ~Drift(findings[j], findings[k])
          BY <2>4, <4>1, <5>1 DEF SomeMembers
        <5> QED
          BY <5>2 DEF Drift, Outweighs, RanksAbove
      <4> QED
        BY <2>1, <4>1, SameChoice
    <3> QED
      BY <2>2, <3>1
  <2> QED
    BY <2>3, <2>4, SameGaps
<1> QED
  BY <1>1, OnlyAdmittedReduced, PTL

-----------------------------------------------------------------------------
(* What the report, the page and the scorecard are of *)

ServiceReport ==
  Summary("service", accepted, Reduced(accepted),
          {[record |-> r, severity |-> Judge(r)] : r \in Reduced(accepted)},
          AxisGaps(HotFunctions, accepted))

SkillReport ==
  Summary("skill", validated, ReduceRecords(validated),
          {[record |-> r, severity |-> r.claim] : r \in ReduceRecords(validated)},
          GapRecords(HotFunctions, validated))

PageOf(rep) ==
  IF \A g \in rep.gaps : "bug_class" \in DOMAIN g
  THEN [findings |-> Surviving(rep.judged, "FINDING"),
        leads    |-> Surviving(rep.judged, "LEAD"),
        rejected |-> {x \in rep.judged : x.severity = Rejected}]
  ELSE [raised |-> "KeyError"]

\* The report is of what was admitted, and page and scorecard are of the report.
Told ==
  /\ report \in {Nothing, ServiceReport, SkillReport}
  /\ page \in {Nothing, PageOf(report)}
  /\ score \in {Nothing, ScoreCase(report.judged, Truth)}
  /\ report = Nothing => page = Nothing /\ score = Nothing

LEMMA ToldNext == Told /\ [Next]_pipelineVars => Told'
<1> SUFFICES ASSUME Told, [Next]_pipelineVars
             PROVE  Told'
  OBVIOUS
<1>1. ASSUME NEW f \in Pool, Record(f)
      PROVE  Told'
  <2>1. report = Nothing /\ UNCHANGED <<report, page, score>>
    BY <1>1 DEF Record
  <2> QED
    BY <2>1 DEF Told
<1>2. CASE ReduceAndJudge
  <2>1. report = Nothing /\ UNCHANGED <<findings, accepted, validated, page, score>>
    BY <1>2 DEF ReduceAndJudge
  <2>2. report' = ServiceReport
    BY <1>2 DEF ReduceAndJudge, ServiceReport
  <2>3. ServiceReport' = ServiceReport
    BY <2>1 DEF ServiceReport
  <2> QED
    BY <2>1, <2>2, <2>3 DEF Told
<1>3. CASE ReduceByScript
  <2>1. report = Nothing /\ UNCHANGED <<findings, accepted, validated, page, score>>
    BY <1>3 DEF ReduceByScript
  <2>2. report' = SkillReport
    BY <1>3 DEF ReduceByScript, SkillReport
  <2>3. SkillReport' = SkillReport
    BY <2>1 DEF SkillReport
  <2> QED
    BY <2>1, <2>2, <2>3 DEF Told
<1>4. CASE Render
  <2>1. /\ UNCHANGED <<findings, accepted, validated, report, score>>
        /\ report # Nothing /\ page' = PageOf(report)
    BY <1>4 DEF Render, PageOf
  <2>2. ServiceReport' = ServiceReport /\ SkillReport' = SkillReport
    BY <2>1 DEF ServiceReport, SkillReport
  <2> QED
    BY <2>1, <2>2 DEF Told
<1>5. CASE Score
  <2>1. /\ UNCHANGED <<findings, accepted, validated, report, page>>
        /\ report # Nothing /\ score' = ScoreCase(report.judged, Truth)
    BY <1>5 DEF Score
  <2>2. ServiceReport' = ServiceReport /\ SkillReport' = SkillReport
    BY <2>1 DEF ServiceReport, SkillReport
  <2> QED
    BY <2>1, <2>2 DEF Told
<1>6. CASE UNCHANGED pipelineVars
  <2>1. UNCHANGED <<findings, accepted, validated, report, page, score>>
    BY <1>6 DEF pipelineVars
  <2>2. ServiceReport' = ServiceReport /\ SkillReport' = SkillReport
    BY <2>1 DEF ServiceReport, SkillReport
  <2> QED
    BY <2>1, <2>2 DEF Told
<1> QED
  BY <1>1, <1>2, <1>3, <1>4, <1>5, <1>6 DEF Next

\* Nothing is told but what follows from what was admitted.
THEOREM ReportFollows == Spec => []Told
<1>1. Init => Told
  BY DEF Init, Told
<1> QED
  BY <1>1, ToldNext, PTL DEF Spec

-----------------------------------------------------------------------------
(* The scorecard *)

\* What is judged can be ranked: few, each with a severity claimed and a percentage.
Rankable(J) ==
  /\ IsFiniteSet(J)
  /\ \A x \in J : x.record.claim \in Severities /\ x.record.confidence \in 0..99

LEMMA HuntsCounted ==
  ASSUME NEW F \in Seq(Pool), NEW rec, NEW J, J = {rec[i] : i \in Hunts(F)}
  PROVE  IsFiniteSet(J)
BY HuntsFinite, FiniteImage

LEMMA ServiceRankable ==
  ASSUME NEW F, AllWellFormed(F)
  PROVE  Rankable({[record |-> r, severity |-> Judge(r)] : r \in Reduced(F)})
<1> DEFINE J == {[record |-> r, severity |-> Judge(r)] : r \in Reduced(F)}
           rec == [i \in Hunts(F) |-> LET r == Reduce(F, GroupOf(F, i)) IN
                                        [record |-> r, severity |-> Judge(r)]]
<1>1. J = {rec[i] : i \in Hunts(F)}
  BY DEF Reduced, Groups
<1>2. F \in Seq(Pool)
  BY DEF AllWellFormed
<1>3. ASSUME NEW r \in Reduced(F)
      PROVE  r.claim \in Severities /\ r.confidence \in 0..99
  <2>1. PICK f \in Pool, n \in Nat :
          WellFormed(f) /\ r.claim = f.claim /\ r.confidence = Confidence(f, n)
    BY ServiceRecord
  <2> QED
    BY <2>1, ConfidenceComputed DEF WellFormed
<1>4. \A x \in J : x.record \in Reduced(F)
  OBVIOUS
<1> HIDE DEF J, rec
<1>5. IsFiniteSet(J)
  BY <1>1, <1>2, HuntsCounted
<1> QED
  BY <1>3, <1>4, <1>5 DEF Rankable, J

LEMMA SkillRankable ==
  ASSUME NEW F, AllStructural(F)
  PROVE  Rankable({[record |-> r, severity |-> r.claim] : r \in ReduceRecords(F)})
<1> DEFINE J == {[record |-> r, severity |-> r.claim] : r \in ReduceRecords(F)}
           rec == [i \in Hunts(F) |-> LET r == RecordAt(F, i) IN
                                        [record |-> r, severity |-> r.claim]]
<1>1. J = {rec[i] : i \in Hunts(F)}
  BY DEF ReduceRecords
<1>2. F \in Seq(Pool)
  BY DEF AllStructural
<1>3. ASSUME NEW r \in ReduceRecords(F)
      PROVE  r.claim \in Severities /\ r.confidence \in 0..99
  <2>1. PICK f \in Pool, n \in Nat :
          Structural(f) /\ r.claim = f.claim /\ r.confidence = RecordConfidence(f, n)
    BY SkillRecord
  <2> QED
    BY <2>1, SkillConfidence DEF Structural
<1>4. \A x \in J : x.record \in ReduceRecords(F)
  OBVIOUS
<1> HIDE DEF J, rec
<1>5. IsFiniteSet(J)
  BY <1>1, <1>2, HuntsCounted
<1> QED
  BY <1>3, <1>4, <1>5 DEF Rankable, J

LEMMA ReportRankable ==
  ASSUME Admitted, Told, report # Nothing
  PROVE  Rankable(report.judged)
<1>1. CASE report = ServiceReport
  <2>1. report.judged = {[record |-> r, severity |-> Judge(r)] : r \in Reduced(accepted)}
    BY <1>1 DEF ServiceReport, Summary
  <2> QED
    BY <2>1, ServiceRankable DEF Admitted
<1>2. CASE report = SkillReport
  <2>1. report.judged = {[record |-> r, severity |-> r.claim] : r \in ReduceRecords(validated)}
    BY <1>2 DEF SkillReport, Summary
  <2> QED
    BY <2>1, SkillRankable DEF Admitted
<1> QED
  BY <1>1, <1>2 DEF Told

\* The scorer's choice among reports of one bug.
LEMMA FirstIsOne ==
  ASSUME NEW S, S # {},
         \A x \in S : x.record.claim \in Severities /\ x.record.confidence \in 0..99
  PROVE  FirstOf(S) \in S
<1> DEFINE far == [x \in S |-> 499 - (100 * x.record.claim + x.record.confidence)]
           T == {far[x] : x \in S}
<1>1. ASSUME NEW x \in S PROVE far[x] \in Nat
  <2> DEFINE c == x.record.claim
             p == x.record.confidence
  <2>1. c \in 0..4 /\ p \in 0..99
    BY DEF Severities
  <2> HIDE DEF c, p
  <2>2. 499 - (100 * c + p) \in Nat
    BY <2>1
  <2> QED
    BY <2>2 DEF c, p
<1> HIDE DEF far
<1>2. T \in SUBSET Nat /\ T # {}
  BY <1>1
<1>3. PICK m \in T : \A n \in T : m <= n
  BY <1>2, LeastNumber
<1>4. PICK x \in S : \A y \in S : far[x] <= far[y]
  BY <1>3
<1>5. ASSUME NEW y \in S
      PROVE  \/ x.record.claim > y.record.claim
             \/ x.record.claim = y.record.claim /\ x.record.confidence >= y.record.confidence
  <2>1. 499 - (100 * x.record.claim + x.record.confidence)
          <= 499 - (100 * y.record.claim + y.record.confidence)
    BY <1>4 DEF far
  <2> DEFINE c == x.record.claim
             p == x.record.confidence
             d == y.record.claim
             q == y.record.confidence
  <2>2. c \in 0..4 /\ p \in 0..99 /\ d \in 0..4 /\ q \in 0..99
    BY DEF Severities
  <2> HIDE DEF c, p, d, q
  <2>3. 499 - (100 * c + p) <= 499 - (100 * d + q) => c > d \/ (c = d /\ p >= q)
    BY <2>2, SMT
  <2> QED
    BY <2>1, <2>3 DEF c, p, d, q
<1> QED
  BY <1>5 DEF FirstOf

\* Each known bug that a finding names is matched by one of them, and by one only.
LEMMA OneMatchEach ==
  ASSUME NEW J, Rankable(J), NEW T
  PROVE  LET reported == Surviving(J, "FINDING")
             hits == Matched(reported, T)
         IN /\ hits \subseteq reported
            /\ \A x \in hits : \E t \in T : KeyOf(x.record) = KeyOf(t)
            /\ \A x, y \in hits : KeyOf(x.record) = KeyOf(y.record) => x = y
            /\ \A t \in T, x \in reported : KeyOf(x.record) = KeyOf(t) =>
                 \E y \in hits : KeyOf(y.record) = KeyOf(t)
<1> DEFINE reported == Surviving(J, "FINDING")
           hits == Matched(reported, T)
           Named(t) == {x \in reported : KeyOf(x.record) = KeyOf(t)}
<1>1. \A x \in reported : x.record.claim \in Severities /\ x.record.confidence \in 0..99
  BY DEF Surviving, Rankable
<1>2. \A x : x \in hits <=> \E t \in T : Named(t) # {} /\ x = FirstOf(Named(t))
  BY DEF Matched
<1> HIDE DEF reported, hits
<1>3. ASSUME NEW t \in T, Named(t) # {}
      PROVE  FirstOf(Named(t)) \in reported /\ KeyOf(FirstOf(Named(t)).record) = KeyOf(t)
  <2>1. FirstOf(Named(t)) \in Named(t)
    BY <1>1, <1>3, FirstIsOne
  <2> QED
    BY <2>1
<1>4. ASSUME NEW x \in hits, NEW y \in hits, KeyOf(x.record) = KeyOf(y.record)
      PROVE  x = y
  <2>1. PICK t \in T : Named(t) # {} /\ x = FirstOf(Named(t))
    BY <1>2
  <2>2. PICK u \in T : Named(u) # {} /\ y = FirstOf(Named(u))
    BY <1>2
  <2>3. KeyOf(t) = KeyOf(u)
    BY <1>3, <1>4, <2>1, <2>2
  <2>4. Named(t) = Named(u)
    BY <2>3
  <2> QED
    BY <2>1, <2>2, <2>4
<1>5. ASSUME NEW t \in T, NEW x \in reported, KeyOf(x.record) = KeyOf(t)
      PROVE  \E y \in hits : KeyOf(y.record) = KeyOf(t)
  <2>1. Named(t) # {}
    BY <1>5
  <2> QED
    BY <1>2, <1>3, <2>1
<1>6. ASSUME NEW x \in hits
      PROVE  x \in reported /\ \E t \in T : KeyOf(x.record) = KeyOf(t)
  <2>1. PICK t \in T : Named(t) # {} /\ x = FirstOf(Named(t))
    BY <1>2
  <2> QED
    BY <1>3, <2>1
<1> QED
  BY <1>4, <1>5, <1>6 DEF reported, hits

LEMMA DisjointSum ==
  ASSUME NEW A, NEW B, IsFiniteSet(A), IsFiniteSet(B), A \cap B = {}
  PROVE  IsFiniteSet(A \cup B) /\ Cardinality(A \cup B) = Cardinality(A) + Cardinality(B)
<1>1. Cardinality(A \cap B) = 0
  BY FS_EmptySet
<1>2. Cardinality(A) \in Nat /\ Cardinality(B) \in Nat
  BY FS_CardinalityType
<1>3. /\ IsFiniteSet(A \cup B)
      /\ Cardinality(A \cup B) = Cardinality(A) + Cardinality(B) - Cardinality(A \cap B)
  BY FS_Union
<1> QED
  BY <1>1, <1>2, <1>3

\* The reports of known bugs: those that match, and second ones.
Reports(J, T) ==
  {x \in Surviving(J, "FINDING") : \E t \in T : KeyOf(x.record) = KeyOf(t)}

\* What is reported is a second report or a match, a near miss, or wrong.
LEMMA ReportedSplit ==
  ASSUME NEW J, Rankable(J), NEW T
  PROVE  LET reported == Surviving(J, "FINDING")
             again == Reports(J, T)
             near == NearMisses(reported, T)
             wrong == FalsePositives(reported, T)
         IN /\ IsFiniteSet(again) /\ IsFiniteSet(wrong)
            /\ Cardinality(again) \in Nat
            /\ Cardinality(reported) = Cardinality(again) + Cardinality(near) + Cardinality(wrong)
            /\ again \cap wrong = {}
<1> DEFINE reported == Surviving(J, "FINDING")
           again == Reports(J, T)
           near == NearMisses(reported, T)
           wrong == FalsePositives(reported, T)
<1>1. IsFiniteSet(reported)
  BY FS_Subset DEF Surviving, Rankable
<1>2. \A x, t : KeyOf(x.record) = KeyOf(t) => x.record.place = t.place
  BY DEF KeyOf
<1>3. /\ near = {x \in reported : /\ \E t \in T : x.record.place = t.place
                                  /\ \A t \in T : KeyOf(x.record) # KeyOf(t)}
      /\ wrong = {x \in reported : \A t \in T : x.record.place # t.place}
      /\ again = {x \in reported : \E t \in T : KeyOf(x.record) = KeyOf(t)}
  BY DEF NearMisses, FalsePositives, Reports
<1> HIDE DEF reported, near, wrong, again
<1>4. /\ reported = (again \cup near) \cup wrong
      /\ again \cap near = {} /\ (again \cup near) \cap wrong = {} /\ again \cap wrong = {}
  BY <1>2, <1>3
<1>5. again \in SUBSET reported /\ near \in SUBSET reported /\ wrong \in SUBSET reported
  BY <1>3
<1>6. IsFiniteSet(again) /\ IsFiniteSet(near) /\ IsFiniteSet(wrong)
  BY <1>1, <1>5, FS_Subset
<1>7. /\ IsFiniteSet(again \cup near)
      /\ Cardinality(again \cup near) = Cardinality(again) + Cardinality(near)
      /\ Cardinality(reported) = Cardinality(again \cup near) + Cardinality(wrong)
  BY <1>4, <1>6, DisjointSum
<1>8. Cardinality(again) \in Nat
  BY <1>6, FS_CardinalityType
<1> QED
  BY <1>4, <1>6, <1>7, <1>8 DEF again, near, wrong, reported

\* Every percentage is in one bin.
LEMMA BinsSplit ==
  ASSUME NEW S, IsFiniteSet(S), \A x \in S : x.record.confidence \in 0..99
  PROVE  LET In(b) == Cardinality({x \in S : x.record.confidence \in b})
         IN In(0..39) + In(40..59) + In(60..69) + In(70..84) + In(85..99) = Cardinality(S)
<1> DEFINE A == {x \in S : x.record.confidence \in 0..39}
           B == {x \in S : x.record.confidence \in 40..59}
           C == {x \in S : x.record.confidence \in 60..69}
           D == {x \in S : x.record.confidence \in 70..84}
           E == {x \in S : x.record.confidence \in 85..99}
<1>1. /\ A \in SUBSET S /\ B \in SUBSET S /\ C \in SUBSET S /\ D \in SUBSET S /\ E \in SUBSET S
      /\ A \cap B = {} /\ (A \cup B) \cap C = {} /\ ((A \cup B) \cup C) \cap D = {}
      /\ (((A \cup B) \cup C) \cup D) \cap E = {}
      /\ (((A \cup B) \cup C) \cup D) \cup E = S
  OBVIOUS
<1> HIDE DEF A, B, C, D, E
<1>2. IsFiniteSet(A) /\ IsFiniteSet(B) /\ IsFiniteSet(C) /\ IsFiniteSet(D) /\ IsFiniteSet(E)
  BY <1>1, FS_Subset
<1>3. IsFiniteSet(A \cup B) /\ Cardinality(A \cup B) = Cardinality(A) + Cardinality(B)
  BY <1>1, <1>2, DisjointSum
<1>4. /\ IsFiniteSet((A \cup B) \cup C)
      /\ Cardinality((A \cup B) \cup C) = Cardinality(A \cup B) + Cardinality(C)
  BY <1>1, <1>2, <1>3, DisjointSum
<1>5. /\ IsFiniteSet(((A \cup B) \cup C) \cup D)
      /\ Cardinality(((A \cup B) \cup C) \cup D)
           = Cardinality((A \cup B) \cup C) + Cardinality(D)
  BY <1>1, <1>2, <1>4, DisjointSum
<1>6. Cardinality(S) = Cardinality(((A \cup B) \cup C) \cup D) + Cardinality(E)
  BY <1>1, <1>2, <1>5, DisjointSum
<1>7. /\ Cardinality(A) \in Nat /\ Cardinality(B) \in Nat /\ Cardinality(C) \in Nat
      /\ Cardinality(D) \in Nat /\ Cardinality(E) \in Nat
  BY <1>2, FS_CardinalityType
<1>8. Cardinality(A) + Cardinality(B) + Cardinality(C) + Cardinality(D) + Cardinality(E)
        = Cardinality(S)
  BY <1>3, <1>4, <1>5, <1>6, <1>7
<1> QED
  BY <1>8 DEF A, B, C, D, E

\* What the numbers of a scorecard have to say of what was reported.
AddsUp(reported, card, T) ==
  LET again == {x \in reported : KeyOf(x.record) \in card.found}
      bins == card.bins
  IN /\ Cardinality(reported) = Cardinality(again) + card.near + card.fp
     /\ card.tp = Cardinality(card.found) /\ card.tp <= Cardinality(again)
     /\ card.tp + card.fn = Cardinality({KeyOf(t) : t \in T})
     /\ Cardinality(card.leads) <= card.fn
     /\ bins[0..39] + bins[40..59] + bins[60..69] + bins[70..84] + bins[85..99]
          = card.tp + card.fp

LEMMA ScoreSums ==
  ASSUME NEW J, Rankable(J), NEW T, IsFiniteSet(T)
  PROVE  AddsUp(Surviving(J, "FINDING"), ScoreCase(J, T), T)
<1> DEFINE reported == Surviving(J, "FINDING")
           hits == Matched(reported, T)
           near == NearMisses(reported, T)
           wrong == FalsePositives(reported, T)
           known == {KeyOf(t) : t \in T}
           found == {KeyOf(x.record) : x \in hits}
           leads == {KeyOf(x.record) : x \in LeadHits(J, T)}
           card == ScoreCase(J, T)
           again == Reports(J, T)
<1>1. /\ card.tp = Cardinality(hits) /\ card.fp = Cardinality(wrong)
      /\ card.fn = Cardinality(known) - Cardinality(hits) /\ card.near = Cardinality(near)
      /\ card.leads = leads /\ card.found = found
      /\ card.bins = [b \in Bins |-> Cardinality({x \in hits \cup wrong :
                                                   x.record.confidence \in b})]
  BY DEF ScoreCase
<1>2. /\ hits \subseteq reported
      /\ \A x \in hits : \E t \in T : KeyOf(x.record) = KeyOf(t)
      /\ \A x, y \in hits : KeyOf(x.record) = KeyOf(y.record) => x = y
      /\ \A t \in T, x \in reported : KeyOf(x.record) = KeyOf(t) =>
           \E y \in hits : KeyOf(y.record) = KeyOf(t)
  BY OneMatchEach
<1>3. /\ IsFiniteSet(again) /\ IsFiniteSet(wrong) /\ Cardinality(again) \in Nat
      /\ Cardinality(reported) = Cardinality(again) + Cardinality(near) + Cardinality(wrong)
      /\ again \cap wrong = {}
  BY ReportedSplit
<1>4. /\ \A x \in reported : x.record.confidence \in 0..99
      /\ wrong \subseteq reported
  BY DEF Surviving, Rankable, FalsePositives
<1>5. leads \subseteq known /\ leads \cap found = {}
  <2>1. \A x \in LeadHits(J, T) : /\ \E t \in T : KeyOf(x.record) = KeyOf(t)
                                  /\ \A y \in reported : KeyOf(y.record) # KeyOf(x.record)
    BY DEF LeadHits
  <2> HIDE DEF reported, hits
  <2> QED
    BY <1>2, <2>1
<1>6. again = {x \in reported : \E t \in T : KeyOf(x.record) = KeyOf(t)}
  BY DEF Reports
<1> HIDE DEF reported, hits, near, wrong, card, leads, again
<1>6a. {x \in reported : KeyOf(x.record) \in found} = again
  BY <1>2, <1>6
<1>7. hits \in SUBSET again /\ found \in SUBSET known
  BY <1>2, <1>6
<1>8. IsFiniteSet(hits) /\ Cardinality(hits) \in Nat /\ Cardinality(hits) <= Cardinality(again)
  BY <1>3, <1>7, FS_Subset, FS_CardinalityType
<1>9. Cardinality(found) = Cardinality(hits)
  <2> DEFINE to == [x \in hits |-> KeyOf(x.record)]
  <2>1. to \in Surjection(hits, found) /\ to \in Injection(hits, found)
    BY <1>2 DEF Surjection, Injection, IsInjective
  <2> QED
    BY <1>8, <2>1, FS_Surjection
<1>10. IsFiniteSet(known) /\ Cardinality(known) \in Nat
  <2> DEFINE to == [t \in T |-> KeyOf(t)]
  <2>1. to \in Surjection(T, known)
    BY DEF Surjection
  <2> HIDE DEF known
  <2> QED
    BY <2>1, FS_Surjection, FS_CardinalityType
<1> HIDE DEF known, found
<1>11. Cardinality(leads) <= Cardinality(known) - Cardinality(found)
  <2>1. leads \in SUBSET (known \ found) /\ known \cap found = found
    BY <1>5, <1>7
  <2>2. IsFiniteSet(known \ found) /\ Cardinality(known \ found) = Cardinality(known) - Cardinality(found)
    BY <1>10, <2>1, FS_Difference
  <2> QED
    BY <2>1, <2>2, FS_Subset
<1>12. LET In(b) == Cardinality({x \in hits \cup wrong : x.record.confidence \in b})
       IN In(0..39) + In(40..59) + In(60..69) + In(70..84) + In(85..99)
            = Cardinality(hits) + Cardinality(wrong)
  <2>1. hits \cap wrong = {} /\ \A x \in hits \cup wrong : x.record.confidence \in 0..99
    BY <1>2, <1>3, <1>4, <1>7
  <2>2. /\ IsFiniteSet(hits \cup wrong)
        /\ Cardinality(hits \cup wrong) = Cardinality(hits) + Cardinality(wrong)
    BY <1>3, <1>8, <2>1, DisjointSum
  <2> QED
    BY <2>1, <2>2, BinsSplit
<1>13. LET bins == card.bins IN
         bins[0..39] + bins[40..59] + bins[60..69] + bins[70..84] + bins[85..99]
           = card.tp + card.fp
  BY <1>1, <1>12 DEF Bins
<1>14. /\ Cardinality(reported) = Cardinality(again) + card.near + card.fp
       /\ card.tp = Cardinality(card.found) /\ card.tp <= Cardinality(again)
       /\ card.tp + card.fn = Cardinality(known)
       /\ Cardinality(card.leads) <= card.fn
  BY <1>1, <1>3, <1>8, <1>9, <1>10, <1>11
<1>15. {x \in reported : KeyOf(x.record) \in card.found} = again
  BY <1>1, <1>6a
<1> QED
  BY <1>13, <1>14, <1>15 DEF AddsUp, reported, card, known

\* Whatever was reported and whatever is known, each finding on the page is scored
\* exactly once, and nothing is credited twice.
THEOREM ScoreComplete == Spec => []ScoreAddsUp
<1>1. Admitted /\ Told => ScoreAddsUp
  <2> SUFFICES ASSUME Admitted, Told, score # Nothing, page # Nothing,
                      "findings" \in DOMAIN page
               PROVE  AddsUp(page.findings, score, Truth)
    BY DEF ScoreAddsUp, AddsUp
  <2>1. score = ScoreCase(report.judged, Truth) /\ page = PageOf(report) /\ report # Nothing
    BY DEF Told
  <2>2. page.findings = Surviving(report.judged, "FINDING")
    <3>1. CASE \A g \in report.gaps : "bug_class" \in DOMAIN g
      BY <2>1, <3>1 DEF PageOf
    <3>2. CASE ~\A g \in report.gaps : "bug_class" \in DOMAIN g
      BY <2>1, <3>2 DEF PageOf
    <3> QED
      BY <3>1, <3>2
  <2>3. Rankable(report.judged) /\ IsFiniteSet(Truth)
    BY <2>1, ReportRankable, TargetAssumption
  <2> QED
    BY <2>1, <2>2, <2>3, ScoreSums
<1> QED
  BY <1>1, OnlyAdmittedReduced, ReportFollows, PTL

\* The scorer's classes of synonyms are disjoint too, and all but one of the
\* reducer's are within one of them.
LEMMA SynonymsDisjoint ==
  ASSUME NEW c \in Synonyms, NEW d \in Synonyms, NEW bug \in c, bug \in d
  PROVE  c = d
BY DEF Synonyms

LEMMA ClustersWithin ==
  ASSUME NEW c \in SynonymClusters
  PROVE  c = UncheckedReturn \/ \E d \in Synonyms : c \subseteq d
<1>1. SynonymClusters =
        { {"reentrancy", "cross-function-reentrancy", "read-only-reentrancy",
           "reentrancy-guard-gap"},
          {"rounding-direction", "rounding-error", "precision-loss", "truncation"},
          {"missing-access-control", "missing-guard", "unprotected-function", "access-gap"},
          {"missing-nonce", "signature-replay", "replay-attack"},
          {"stale-oracle", "oracle-staleness", "missing-staleness-check"},
          {"storage-collision", "storage-layout-clash", "slot-collision"},
          UncheckedReturn,
          {"integer-overflow", "integer-underflow", "unsafe-cast", "unchecked-math"},
          {"dos", "denial-of-service", "permanent-dos", "griefing"} }
  BY DEF SynonymClusters, UncheckedReturn
<1> QED
  BY <1>1 DEF Synonyms

LEMMA KeyIsCanon ==
  ASSUME NEW a, NEW b, a \in SynonymKey(b), a \notin UncheckedReturn
  PROVE  Canon(a) = Canon(b)
<1>1. CASE a = b
  BY <1>1
<1>2. CASE a # b
  <2>1. PICK c \in SynonymClusters : a \in c /\ b \in c
    BY <1>2 DEF SynonymKey
  <2>2. PICK d \in Synonyms : a \in d /\ b \in d
    BY <2>1, ClustersWithin
  <2>3. \A x \in {a, b} : UNION {e \in Synonyms : x \in e} = d
    <3> SUFFICES ASSUME NEW x \in {a, b}
                 PROVE  {e \in Synonyms : x \in e} = {d}
      OBVIOUS
    <3> QED
      BY <2>2, SynonymsDisjoint
  <2> QED
    BY <2>2, <2>3 DEF Canon
<1> QED
  BY <1>1, <1>2

\* A record is known by the synonyms of its own class.
LEMMA RecordsKeyed ==
  ASSUME Told, report # Nothing, NEW x \in report.judged
  PROVE  x.record.key = SynonymKey(x.record.bug)
<1>1. CASE report = ServiceReport
  <2>1. PICK r \in Reduced(accepted) : x.record = r
    BY <1>1 DEF ServiceReport, Summary
  <2>2. PICK g \in Groups(accepted) : r = Reduce(accepted, g)
    BY <2>1 DEF Reduced
  <2> QED
    BY <2>1, <2>2 DEF Reduce
<1>2. CASE report = SkillReport
  <2>1. PICK r \in ReduceRecords(validated) : x.record = r
    BY <1>2 DEF SkillReport, Summary
  <2>2. PICK i \in Hunts(validated) : r = RecordAt(validated, i)
    BY <2>1 DEF ReduceRecords
  <2>3. RecordAt(validated, i).key = SynonymKey(RecordAt(validated, i).bug)
    BY DEF RecordAt
  <2> QED
    BY <2>1, <2>2, <2>3
<1> QED
  BY <1>1, <1>2 DEF Told

\* What either reducer takes for a report of a known bug, the scorer finds, but for
\* the one class its table lacks.
THEOREM MergedFound == Spec => []MergedIsFound
<1>1. Admitted /\ Told => MergedIsFound
  <2> SUFFICES ASSUME Admitted, Told, score # Nothing,
                      NEW t \in Truth, NEW x \in Surviving(Judged, "FINDING"),
                      x.record.place = t.place, t.bug \in x.record.key,
                      t.bug \notin UncheckedReturn
               PROVE  KeyOf(t) \in score.found
    BY DEF MergedIsFound
  <2>1. report # Nothing /\ score = ScoreCase(report.judged, Truth)
    BY DEF Told
  <2>2. x \in Surviving(report.judged, "FINDING") /\ x \in report.judged
    BY <2>1 DEF Judged, Surviving
  <2>3. KeyOf(x.record) = KeyOf(t)
    BY <2>1, <2>2, RecordsKeyed, KeyIsCanon DEF KeyOf
  <2>4. PICK y \in Matched(Surviving(report.judged, "FINDING"), Truth) :
          KeyOf(y.record) = KeyOf(t)
    BY <2>1, <2>2, <2>3, ReportRankable, OneMatchEach
  <2>5. score.found
          = {KeyOf(z.record) : z \in Matched(Surviving(report.judged, "FINDING"), Truth)}
    BY <2>1 DEF ScoreCase
  <2> QED
    BY <2>4, <2>5
<1> QED
  BY <1>1, OnlyAdmittedReduced, ReportFollows, PTL

-----------------------------------------------------------------------------
(* The hot functions *)

LEMMA PointsAdd ==
  \A a \in {0, 20}, b \in {0, 25}, c \in {0, 15}, d \in {0, 15}, e \in {0, 10} :
    LET sum == 30 + a + b + c + d + e
        weight == IF sum > 100 THEN 100 ELSE sum
    IN weight \in Int /\ (b = 25 /\ e = 10 => weight >= 60)
OBVIOUS

LEMMA WeightIsPercent ==
  ASSUME NEW fn
  PROVE  /\ RiskWeight(fn) \in Int
         /\ "moves value" \in fn.signs /\ "guard" \notin fn.signs => RiskWeight(fn) >= 60
<1> DEFINE Sign(s, points) == IF s \in fn.signs THEN points ELSE 0
           a == Sign("payable", 20)
           b == Sign("moves value", 25)
           c == Sign("writes mapping", 15)
           d == Sign("external call", 15)
           e == IF "guard" \in fn.signs THEN 0 ELSE 10
           sum == 30 + a + b + c + d + e
<1>1. RiskWeight(fn) = IF sum > 100 THEN 100 ELSE sum
  BY DEF RiskWeight
<1>2. a \in {0, 20} /\ b \in {0, 25} /\ c \in {0, 15} /\ d \in {0, 15} /\ e \in {0, 10}
  OBVIOUS
<1>3. /\ "moves value" \in fn.signs => b = 25
      /\ "guard" \notin fn.signs => e = 10
  OBVIOUS
<1> HIDE DEF a, b, c, d, e
<1>4. LET weight == IF sum > 100 THEN 100 ELSE sum
      IN weight \in Int /\ (b = 25 /\ e = 10 => weight >= 60)
  BY <1>2, PointsAdd
<1> QED
  BY <1>1, <1>3, <1>4

\* What is listed of a target, by where it stands.
LEMMA ListedAt ==
  ASSUME NEW x
  PROVE  x \in Listed(Sources) <=>
           \E i \in DOMAIN Sources : \E j \in DOMAIN Sources[i].functions :
             /\ Sources[i].functions[j].exposed
             /\ x = [at |-> <<i, j>>, contract |-> Owner(Sources[i]),
                     fn |-> Sources[i].functions[j]]
BY DEF Listed

LEMMA ListedFinite == IsFiniteSet(Listed(Sources))
<1> DEFINE Entry(i, j) == [at |-> <<i, j>>, contract |-> Owner(Sources[i]),
                           fn |-> Sources[i].functions[j]]
           Shown(i) == {j \in DOMAIN Sources[i].functions : Sources[i].functions[j].exposed}
           of == [i \in DOMAIN Sources |-> {Entry(i, j) : j \in Shown(i)}]
<1>1. ASSUME NEW i \in DOMAIN Sources
      PROVE  IsFiniteSet(of[i])
  <2> DEFINE entry == [j \in Shown(i) |-> Entry(i, j)]
  <2>1. Len(Sources[i].functions) \in Int /\ 1 \in Int
    BY TargetAssumption
  <2>2. IsFiniteSet(1..Len(Sources[i].functions))
    BY <2>1, FS_Interval
  <2>3. Shown(i) \in SUBSET (1..Len(Sources[i].functions))
    BY TargetAssumption
  <2>4. of[i] = {entry[j] : j \in Shown(i)}
    OBVIOUS
  <2> HIDE DEF entry, Shown
  <2>5. IsFiniteSet(Shown(i))
    BY <2>2, <2>3, FS_Subset
  <2> QED
    BY <2>4, <2>5, FiniteImage
<1>2. Listed(Sources) = UNION {of[i] : i \in DOMAIN Sources}
  BY DEF Listed
<1>3. IsFiniteSet(DOMAIN Sources)
  BY TargetAssumption, FS_Interval
<1> HIDE DEF of
<1> QED
  BY <1>1, <1>2, <1>3, FiniteUnion

\* The sort is total: no two entries share a place in the source.
LEMMA RanksOrder ==
  LET L == Listed(Sources)
      Rel == {p \in L \X L : RanksBefore(p[1], p[2])}
  IN /\ StrictlyOrders(Rel, L)
     /\ \A x \in L : Prior(Rel, L, x) = {y \in L : RanksBefore(y, x)}
<1> DEFINE L == Listed(Sources)
           Rel == {p \in L \X L : RanksBefore(p[1], p[2])}
           w == [x \in L |-> RiskWeight(x.fn)]
           file == [x \in L |-> -x.at[1]]
           line == [x \in L |-> -x.at[2]]
           same == [x \in L |-> 0]
           Over(x, y) ==
             \/ w[x] > w[y]
             \/ w[x] = w[y] /\ \/ file[x] > file[y]
                               \/ file[x] = file[y] /\ \/ line[x] > line[y]
                                                       \/ line[x] = line[y] /\ same[x] > same[y]
<1>1. ASSUME NEW x \in L
      PROVE  /\ x.at[1] \in Int /\ x.at[2] \in Int /\ RiskWeight(x.fn) \in Int
             /\ x = [at |-> x.at, contract |-> Owner(Sources[x.at[1]]),
                     fn |-> Sources[x.at[1]].functions[x.at[2]]]
             /\ x.at = <<x.at[1], x.at[2]>>
  <2>1. PICK m \in DOMAIN Sources : \E n \in DOMAIN Sources[m].functions :
          x = [at |-> <<m, n>>, contract |-> Owner(Sources[m]),
               fn |-> Sources[m].functions[n]]
    BY ListedAt
  <2>2. PICK n \in DOMAIN Sources[m].functions :
          x = [at |-> <<m, n>>, contract |-> Owner(Sources[m]),
               fn |-> Sources[m].functions[n]]
    BY <2>1
  <2>3. m \in Int /\ n \in Int
    BY TargetAssumption
  <2>4. x.at = <<m, n>> /\ x.at[1] = m /\ x.at[2] = n
    BY <2>2
  <2>5. RiskWeight(x.fn) \in Int
    BY WeightIsPercent
  <2> QED
    BY <2>2, <2>3, <2>4, <2>5
<1>2. \A x, y \in L : x.at[1] = y.at[1] /\ x.at[2] = y.at[2] => x = y
  BY <1>1
<1> HIDE DEF L
<1>3. w \in [L -> Int] /\ file \in [L -> Int] /\ line \in [L -> Int] /\ same \in [L -> Int]
  BY <1>1
<1>4. \A x, y \in L : RanksBefore(x, y) <=> Over(x, y)
  <2>1. \A x \in L : /\ w[x] = RiskWeight(x.fn) /\ file[x] = -x.at[1] /\ line[x] = -x.at[2]
                     /\ same[x] = 0
    OBVIOUS
  <2> HIDE DEF w, file, line, same
  <2>2. \A m, n \in Int : -m > -n <=> m < n
    OBVIOUS
  <2>3. \A m, n \in Int : -m = -n <=> m = n
    OBVIOUS
  <2> QED
    BY <1>1, <2>1, <2>2, <2>3 DEF RanksBefore
<1>5. /\ \A x, y, z \in L : Over(x, y) /\ Over(y, z) => Over(x, z)
      /\ \A x \in L : ~Over(x, x)
      /\ \A x, y \in L : ~Over(x, y) /\ ~Over(y, x) => file[x] = file[y] /\ line[x] = line[y]
  <2> HIDE DEF w, file, line, same
  <2>1. /\ \A x, y, z \in L : Over(x, y) /\ Over(y, z) => Over(x, z)
        /\ \A x \in L : ~Over(x, x)
    BY <1>3, Lexicographic
  <2>2. \A x, y \in L : ~Over(x, y) /\ ~Over(y, x) => w[x] = w[y] /\ file[x] = file[y] /\ line[x] = line[y]
    BY <1>3, Lexicographic
  <2> QED
    BY <2>1, <2>2
<1>6. \A x, y \in L : file[x] = file[y] /\ line[x] = line[y] => x = y
  BY <1>1, <1>2
<1> HIDE DEF Over, file, line
<1>7. StrictlyOrders(Rel, L)
  BY <1>4, <1>5, <1>6 DEF StrictlyOrders
<1>8. \A x \in L : Prior(Rel, L, x) = {y \in L : RanksBefore(y, x)}
  BY DEF Prior
<1> QED
  BY <1>7, <1>8 DEF L

\* What has fewer functions before it than the limit is hot.
LEMMA HotEnough ==
  ASSUME NEW x \in Listed(Sources),
         Cardinality({y \in Listed(Sources) : RanksBefore(y, x)}) < HotLimit
  PROVE  \E n \in DOMAIN HotFunctions :
           HotFunctions[n] = [place    |-> <<x.contract, x.fn.name>>,
                              weight   |-> RiskWeight(x.fn),
                              required |-> {}]
<1> DEFINE L == Listed(Sources)
           Rel == {p \in L \X L : RanksBefore(p[1], p[2])}
           before(y) == Cardinality({z \in L : RanksBefore(z, y)})
           Nth(m) == CHOOSE y \in L : before(y) = m - 1
           shown == IF Cardinality(L) < HotLimit THEN Cardinality(L) ELSE HotLimit
           n == before(x) + 1
<1>1. /\ StrictlyOrders(Rel, L) /\ IsFiniteSet(L)
      /\ \A y \in L : Cardinality(Prior(Rel, L, y)) = before(y)
  BY RanksOrder, ListedFinite
<1>2. HotFunctions = [m \in 1..shown |->
                        [place    |-> <<Nth(m).contract, Nth(m).fn.name>>,
                         weight   |-> RiskWeight(Nth(m).fn),
                         required |-> {}]]
  BY DEF HotFunctions, RankHotFunctions
<1>3. x \in L /\ before(x) < HotLimit /\ HotLimit \in Nat
  BY TargetAssumption
<1> HIDE DEF L, Rel, before
<1>4. /\ Cardinality(L) \in Nat
      /\ \A y \in L : before(y) \in 0..(Cardinality(L) - 1)
      /\ \A y, z \in L : before(y) = before(z) => y = z
  BY <1>1, Numbered
<1>5. n \in 1..shown /\ n - 1 = before(x)
  BY <1>3, <1>4
<1>6. Nth(n) = x
  BY <1>3, <1>4, <1>5
<1> HIDE DEF Nth, shown, n
<1> QED
  BY <1>2, <1>5, <1>6

LEMMA AxesFinite == IsFiniteSet(Axes)
<1> DEFINE three == {} \cup {"theft"} \cup {"liveness"} \cup {"accounting"}
           six   == three \cup {"provenance"} \cup {"boundary"} \cup {"identity"}
<1>1. IsFiniteSet(three)
  BY FS_EmptySet, FS_AddElement, Zenon
<1> HIDE DEF three
<1>2. IsFiniteSet(six)
  BY <1>1, FS_AddElement, Zenon
<1>3. Axes = six
  BY DEF Axes, three
<1> QED
  BY <1>2, <1>3

\* The axes a hot function requires are some of the six, and a hot enough one all.
LEMMA HotRequires ==
  ASSUME NEW n \in DOMAIN HotFunctions
  PROVE  /\ RequiredAxes(HotFunctions[n]) \subseteq Axes
         /\ HotFunctions[n].weight >= 60 => RequiredAxes(HotFunctions[n]) = Axes
<1>1. HotFunctions[n].required = {}
  BY DEF HotFunctions, RankHotFunctions
<1> QED
  BY <1>1 DEF RequiredAxes, Axes

LEMMA HotFinite == IsFiniteSet(DOMAIN HotFunctions)
<1> DEFINE size == Cardinality(Listed(Sources))
           shown == IF size < HotLimit THEN size ELSE HotLimit
<1>1. size \in Nat /\ HotLimit \in Nat
  BY ListedFinite, FS_CardinalityType, TargetAssumption
<1>2. DOMAIN HotFunctions = 1..shown
  BY DEF HotFunctions, RankHotFunctions
<1> HIDE DEF size
<1>3. shown \in Int /\ 1 \in Int
  BY <1>1
<1> HIDE DEF shown
<1> QED
  BY <1>2, <1>3, FS_Interval

\* So the numbers of the coverage line are numbers.
LEMMA PairsCounted ==
  ASSUME NEW F
  PROVE  /\ IsFiniteSet(Pairs(HotFunctions))
         /\ IsFiniteSet(AxisGaps(HotFunctions, F))
         /\ IsFiniteSet(GapRecords(HotFunctions, F))
<1> DEFINE hots == HotFunctions
           Due(n) == RequiredAxes(hots[n])
           Missing(n) == Due(n) \ Examined(F, hots[n].place)
           pairs == [n \in DOMAIN hots |-> {PairOf(hots, n, axis) : axis \in Due(n)}]
           gaps == [n \in DOMAIN hots |-> {GapRecord(n, hots[n], axis) : axis \in Missing(n)}]
<1>1. ASSUME NEW n \in DOMAIN hots
      PROVE  IsFiniteSet(pairs[n]) /\ IsFiniteSet(gaps[n])
  <2> DEFINE pair == [axis \in Due(n) |-> PairOf(hots, n, axis)]
             gap == [axis \in Missing(n) |-> GapRecord(n, hots[n], axis)]
  <2>1. pairs[n] = {pair[axis] : axis \in Due(n)} /\ gaps[n] = {gap[axis] : axis \in Missing(n)}
    OBVIOUS
  <2>2. Due(n) \in SUBSET Axes /\ Missing(n) \in SUBSET Axes
    BY HotRequires
  <2> HIDE DEF Due, Missing, pair, gap
  <2>3. IsFiniteSet(Due(n)) /\ IsFiniteSet(Missing(n))
    BY <2>2, AxesFinite, FS_Subset
  <2>4. IsFiniteSet({pair[axis] : axis \in Due(n)})
    BY <2>3, FiniteImage
  <2>5. IsFiniteSet({gap[axis] : axis \in Missing(n)})
    BY <2>3, FiniteImage
  <2> HIDE DEF pairs, gaps
  <2> QED
    BY <2>1, <2>4, <2>5
<1>2. /\ Pairs(hots) = UNION {pairs[n] : n \in DOMAIN hots}
      /\ GapRecords(hots, F) = UNION {gaps[n] : n \in DOMAIN hots}
  BY DEF Pairs, PairOf, GapRecords
<1>3. AxisGaps(hots, F) \in SUBSET Pairs(hots)
  BY DEF AxisGaps
<1>4. IsFiniteSet(DOMAIN hots)
  BY HotFinite
<1> HIDE DEF hots, pairs, gaps
<1>5. IsFiniteSet(Pairs(hots)) /\ IsFiniteSet(GapRecords(hots, F))
  BY <1>1, <1>2, <1>4, FiniteUnion
<1> QED
  BY <1>3, <1>5, FS_Subset DEF hots

-----------------------------------------------------------------------------
(* The gaps of the report *)

\* An axis is looked at at a place if a record names it there, or a note does.
LEMMA ExaminedIsSeen ==
  ASSUME NEW F, NEW R, NEW rec, Partition(F, R, rec),
         \A i \in DOMAIN F : F[i].kind \in Kinds,
         NEW place, NEW axis
  PROVE  axis \in Examined(F, place) <=>
           \/ \E r \in R : r.place = place /\ axis \in r.axes
           \/ \E i \in DOMAIN F : /\ F[i].kind \in {"COVERAGE_NOTE", "AXISGAP"}
                                  /\ F[i].place = place /\ axis \in F[i].axes
<1>1. axis \in Examined(F, place) <=>
        \E i \in DOMAIN F : F[i].place = place /\ axis \in F[i].axes
  BY DEF Examined
<1>2. \A i \in DOMAIN F : i \notin Hunts(F) => F[i].kind \in {"COVERAGE_NOTE", "AXISGAP"}
  BY DEF Hunts, Kinds
<1>3. ASSUME NEW i \in Hunts(F), F[i].place = place, axis \in F[i].axes
      PROVE  \E r \in R : r.place = place /\ axis \in r.axes
  <2>1. rec[i] \in R /\ IsRecordOf(F, i, rec[i])
    BY DEF Partition
  <2>2. rec[i].place = place
    BY <1>3, <2>1 DEF IsRecordOf
  <2>3. rec[i].axes = UNION {F[j].axes : j \in GroupOf(F, i)}
    BY <2>1 DEF IsRecordOf
  <2>4. i \in GroupOf(F, i)
    BY GroupsOfHunts
  <2>5. axis \in rec[i].axes
    BY <1>3, <2>3, <2>4
  <2> QED
    BY <2>1, <2>2, <2>5
<1>4. ASSUME NEW r \in R, r.place = place, axis \in r.axes
      PROVE  \E j \in DOMAIN F : F[j].place = place /\ axis \in F[j].axes
  <2>1. PICK i \in Hunts(F) : r = rec[i] /\ IsRecordOf(F, i, r)
    BY DEF Partition
  <2>2. PICK j \in GroupOf(F, i) : axis \in F[j].axes
    BY <1>4, <2>1 DEF IsRecordOf
  <2>3. j \in DOMAIN F /\ F[j].place = F[i].place
    BY DEF GroupOf, SameGroup, Hunts
  <2> QED
    BY <1>4, <2>1, <2>2, <2>3 DEF IsRecordOf
<1> QED
  BY <1>1, <1>2, <1>3, <1>4

\* The gaps are the pairs that nobody looked at.
LEMMA GapIsOpen ==
  ASSUME NEW hots, NEW F, NEW p \in Pairs(hots)
  PROVE  (\E g \in AxisGaps(hots, F) : g.place = p.place /\ g.axis = p.axis)
           <=> p.axis \notin Examined(F, p.place)
<1>1. PICK n \in DOMAIN hots : \E axis \in RequiredAxes(hots[n]) : p = PairOf(hots, n, axis)
  BY DEF Pairs, PairOf
<1>2. PICK axis \in RequiredAxes(hots[n]) : p = PairOf(hots, n, axis)
  BY <1>1
<1>3. ASSUME NEW m, NEW x
      PROVE  PairOf(hots, m, x).place = hots[m].place /\ PairOf(hots, m, x).axis = x
  BY DEF PairOf
<1>4. p.place = hots[n].place /\ p.axis = axis
  BY <1>2, <1>3
<1>5. ASSUME NEW g \in AxisGaps(hots, F), g.place = p.place, g.axis = p.axis
      PROVE  p.axis \notin Examined(F, p.place)
  <2>1. PICK m, x : OpenAt(hots, F, m, x) /\ g = PairOf(hots, m, x)
    BY ServiceGaps
  <2>2. g.place = hots[m].place /\ g.axis = x
    BY <1>3, <2>1
  <2> QED
    BY <1>5, <2>1, <2>2 DEF OpenAt
<1>6. ASSUME p.axis \notin Examined(F, p.place)
      PROVE  p \in AxisGaps(hots, F)
  <2>1. OpenAt(hots, F, n, axis)
    BY <1>2, <1>4, <1>6 DEF OpenAt
  <2> QED
    BY <1>2, <2>1, ServiceGaps
<1> QED
  BY <1>5, <1>6

\* What a report of either half says of the findings F that half admitted.
Accounts(F) ==
  /\ \A p \in Pairs(HotFunctions) :
       (\E g \in report.gaps : g.place = p.place /\ g.axis = p.axis)
         <=> p.axis \notin Examined(F, p.place)
  /\ report.total = Cardinality(Pairs(HotFunctions))
  /\ report.covered = Cardinality(Pairs(HotFunctions)) - Cardinality(report.gaps)
  /\ IsFiniteSet(report.gaps)
  /\ \A place, axis :
       axis \in Examined(F, place) <=>
         \/ \E x \in report.judged : x.record.place = place /\ axis \in x.record.axes
         \/ \E i \in DOMAIN F : /\ F[i].kind \in {"COVERAGE_NOTE", "AXISGAP"}
                                /\ F[i].place = place /\ axis \in F[i].axes

LEMMA ServiceAccounts ==
  ASSUME Admitted, report = ServiceReport
  PROVE  Accounts(accepted) /\ report.half = "service"
<1> DEFINE hots == HotFunctions
           F == accepted
           R == Reduced(F)
<1>1. /\ report.half = "service" /\ report.gaps = AxisGaps(hots, F)
      /\ report.total = Cardinality(Pairs(hots))
      /\ report.covered = Cardinality(Pairs(hots)) - Cardinality(report.gaps)
      /\ report.judged = {[record |-> r, severity |-> Judge(r)] : r \in R}
  BY DEF ServiceReport, Summary
<1>2. AllWellFormed(F)
  BY DEF Admitted
<1>3. \A i \in DOMAIN F : F[i].kind \in Kinds
  BY <1>2 DEF AllWellFormed, WellFormed
<1>4. ASSUME NEW place, NEW axis
      PROVE  (\E x \in report.judged : x.record.place = place /\ axis \in x.record.axes)
               <=> \E r \in R : r.place = place /\ axis \in r.axes
  <2>1. \A x \in report.judged : x.record \in R
    BY <1>1
  <2>2. ASSUME NEW r \in R
        PROVE  \E x \in report.judged : x.record = r
    <3>1. [record |-> r, severity |-> Judge(r)] \in report.judged
      BY <1>1
    <3> QED
      BY <3>1
  <2> HIDE DEF R
  <2> QED
    BY <2>1, <2>2
<1> HIDE DEF hots, F, R
<1>5. Partition(F, R, [i \in Hunts(F) |-> Reduce(F, GroupOf(F, i))])
  BY <1>2, ServicePartition DEF R
<1>6. ASSUME NEW place, NEW axis
      PROVE  axis \in Examined(F, place) <=>
               \/ \E x \in report.judged : x.record.place = place /\ axis \in x.record.axes
               \/ \E i \in DOMAIN F : /\ F[i].kind \in {"COVERAGE_NOTE", "AXISGAP"}
                                      /\ F[i].place = place /\ axis \in F[i].axes
  BY <1>3, <1>4, <1>5, ExaminedIsSeen
<1>7. \A p \in Pairs(hots) :
        (\E g \in report.gaps : g.place = p.place /\ g.axis = p.axis)
          <=> p.axis \notin Examined(F, p.place)
  BY <1>1, GapIsOpen
<1>8. IsFiniteSet(report.gaps)
  BY <1>1, PairsCounted DEF hots
<1> QED
  BY <1>1, <1>6, <1>7, <1>8 DEF Accounts, hots, F

LEMMA SkillAccounts ==
  ASSUME Admitted, report = SkillReport
  PROVE  Accounts(validated) /\ report.half = "skill"
<1> DEFINE hots == HotFunctions
           F == validated
           R == ReduceRecords(F)
<1>1. /\ report.half = "skill" /\ report.gaps = GapRecords(hots, F)
      /\ report.total = Cardinality(Pairs(hots))
      /\ report.covered = Cardinality(Pairs(hots)) - Cardinality(report.gaps)
      /\ report.judged = {[record |-> r, severity |-> r.claim] : r \in R}
  BY DEF SkillReport, Summary
<1>2. AllStructural(F)
  BY DEF Admitted
<1>3. \A i \in DOMAIN F : F[i].kind \in Kinds
  BY <1>2 DEF AllStructural, Structural
<1>4. ASSUME NEW place, NEW axis
      PROVE  (\E x \in report.judged : x.record.place = place /\ axis \in x.record.axes)
               <=> \E r \in R : r.place = place /\ axis \in r.axes
  <2>1. \A x \in report.judged : x.record \in R
    BY <1>1
  <2>2. ASSUME NEW r \in R
        PROVE  \E x \in report.judged : x.record = r
    <3>1. [record |-> r, severity |-> r.claim] \in report.judged
      BY <1>1
    <3> QED
      BY <3>1
  <2> HIDE DEF R
  <2> QED
    BY <2>1, <2>2
<1> HIDE DEF hots, F, R
<1>5. Partition(F, R, [i \in Hunts(F) |-> RecordAt(F, i)])
  BY <1>2, SkillPartition DEF R
<1>6. ASSUME NEW place, NEW axis
      PROVE  axis \in Examined(F, place) <=>
               \/ \E x \in report.judged : x.record.place = place /\ axis \in x.record.axes
               \/ \E i \in DOMAIN F : /\ F[i].kind \in {"COVERAGE_NOTE", "AXISGAP"}
                                      /\ F[i].place = place /\ axis \in F[i].axes
  BY <1>3, <1>4, <1>5, ExaminedIsSeen
<1>7. ASSUME NEW p \in Pairs(hots)
      PROVE  (\E g \in report.gaps : g.place = p.place /\ g.axis = p.axis)
               <=> p.axis \notin Examined(F, p.place)
  <2>1. (\E g \in GapRecords(hots, F) : g.place = p.place /\ g.axis = p.axis)
          <=> \E g \in AxisGaps(hots, F) : g.place = p.place /\ g.axis = p.axis
    <3>1. ASSUME NEW g \in GapRecords(hots, F)
          PROVE  \E q \in AxisGaps(hots, F) : q.place = g.place /\ q.axis = g.axis
      <4>1. <<g.place, g.axis>> \in {<<q.place, q.axis>> : q \in GapRecords(hots, F)}
        OBVIOUS
      <4>2. <<g.place, g.axis>> \in {<<q.place, q.axis>> : q \in AxisGaps(hots, F)}
        BY <4>1, SameGaps
      <4> QED
        BY <4>2
    <3>2. ASSUME NEW q \in AxisGaps(hots, F)
          PROVE  \E g \in GapRecords(hots, F) : q.place = g.place /\ q.axis = g.axis
      <4>1. <<q.place, q.axis>> \in {<<g.place, g.axis>> : g \in AxisGaps(hots, F)}
        OBVIOUS
      <4>2. <<q.place, q.axis>> \in {<<g.place, g.axis>> : g \in GapRecords(hots, F)}
        BY <4>1, SameGaps
      <4> QED
        BY <4>2
    <3> QED
      BY <3>1, <3>2
  <2> QED
    BY <1>1, <2>1, GapIsOpen
<1>8. IsFiniteSet(report.gaps)
  BY <1>1, PairsCounted DEF hots
<1> QED
  BY <1>1, <1>6, <1>7, <1>8 DEF Accounts, hots, F

\* The report does not contradict itself about coverage, whatever the target is and
\* whatever was reported.
THEOREM GapsReal == Spec => []GapsAreReal
<1>1. Admitted /\ Told => GapsAreReal
  <2> DEFINE F == IF report.half = "service" THEN accepted ELSE validated
             Named(place, axis) ==
               \E x \in Judged : x.record.place = place /\ axis \in x.record.axes
             Noted(place, axis) ==
               \E i \in DOMAIN F :
                 /\ F[i].kind \in {"COVERAGE_NOTE", "AXISGAP"}
                 /\ F[i].place = place /\ axis \in F[i].axes
             Gap(place, axis) == \E g \in report.gaps : g.place = place /\ g.axis = axis
             Seen(place, axis) == Named(place, axis) \/ Noted(place, axis)
  <2> SUFFICES ASSUME Admitted, Told, report # Nothing
               PROVE
         /\ \A p \in Pairs(HotFunctions) : Gap(p.place, p.axis) <=> ~Seen(p.place, p.axis)
         /\ report.total = report.covered + Cardinality(report.gaps)
         /\ \A x \in Listed(Sources), axis \in Axes :
              "moves value" \in x.fn.signs /\ "guard" \notin x.fn.signs =>
                \/ Gap(<<x.contract, x.fn.name>>, axis)
                \/ Seen(<<x.contract, x.fn.name>>, axis)
                \/ Cardinality({y \in Listed(Sources) : RanksBefore(y, x)}) >= HotLimit
    BY DEF GapsAreReal
  <2>1. Accounts(F)
    <3>1. report = ServiceReport \/ report = SkillReport
      BY DEF Told
    <3>2. CASE report = ServiceReport
      BY <3>2, ServiceAccounts
    <3>3. CASE report = SkillReport
      BY <3>3, SkillAccounts
    <3> QED
      BY <3>1, <3>2, <3>3
  <2>2. Judged = report.judged
    BY DEF Judged
  <2> HIDE DEF F
  <2>3. ASSUME NEW place, NEW axis
        PROVE  axis \in Examined(F, place) <=> Seen(place, axis)
    BY <2>1, <2>2 DEF Accounts
  <2> HIDE DEF Seen, Named, Noted
  <2>4. \A p \in Pairs(HotFunctions) : Gap(p.place, p.axis) <=> ~Seen(p.place, p.axis)
    BY <2>1, <2>3 DEF Accounts
  <2> HIDE DEF Gap
  <2>5. report.total = report.covered + Cardinality(report.gaps)
    <3>1. /\ Cardinality(Pairs(HotFunctions)) \in Nat
          /\ Cardinality(report.gaps) \in Nat
      BY <2>1, PairsCounted, FS_CardinalityType DEF Accounts
    <3> QED
      BY <2>1, <3>1 DEF Accounts
  <2>6. ASSUME NEW x \in Listed(Sources), NEW axis \in Axes,
               "moves value" \in x.fn.signs, "guard" \notin x.fn.signs,
               ~(Cardinality({y \in Listed(Sources) : RanksBefore(y, x)}) >= HotLimit)
        PROVE  \/ Gap(<<x.contract, x.fn.name>>, axis)
               \/ Seen(<<x.contract, x.fn.name>>, axis)
    <3>1. Cardinality({y \in Listed(Sources) : RanksBefore(y, x)}) < HotLimit
      <4> DEFINE hotter == {y \in Listed(Sources) : RanksBefore(y, x)}
      <4>1. hotter \in SUBSET Listed(Sources) /\ ~(Cardinality(hotter) >= HotLimit)
        BY <2>6
      <4> HIDE DEF hotter
      <4>2. Cardinality(hotter) \in Nat /\ HotLimit \in Nat
        BY <4>1, ListedFinite, FS_Subset, FS_CardinalityType, TargetAssumption
      <4>3. Cardinality(hotter) < HotLimit
        BY <4>1, <4>2
      <4> QED
        BY <4>3 DEF hotter
    <3>2. PICK n \in DOMAIN HotFunctions :
            HotFunctions[n] = [place    |-> <<x.contract, x.fn.name>>,
                               weight   |-> RiskWeight(x.fn),
                               required |-> {}]
      BY <3>1, HotEnough
    <3>2a. RiskWeight(x.fn) >= 60
      BY <2>6, WeightIsPercent
    <3>3. HotFunctions[n].weight >= 60
      BY <3>2, <3>2a
    <3>4. axis \in RequiredAxes(HotFunctions[n])
      BY <3>3, HotRequires
    <3>5. PairOf(HotFunctions, n, axis) \in Pairs(HotFunctions)
      BY <3>4 DEF Pairs, PairOf
    <3>6. /\ PairOf(HotFunctions, n, axis).place = <<x.contract, x.fn.name>>
          /\ PairOf(HotFunctions, n, axis).axis = axis
      BY <3>2 DEF PairOf
    <3> QED
      BY <2>4, <3>5, <3>6
  <2> QED
    BY <2>4, <2>5, <2>6
<1> QED
  BY <1>1, OnlyAdmittedReduced, ReportFollows, PTL
=============================================================================
