------------------------------ MODULE Pipeline ------------------------------
(***************************************************************************)
(* From the findings of a run to a report and a score.  In the service,    *)
(* Orchestrator.reduce_and_judge reads verified.json back, reduces it and  *)
(* judges every record; in the skill, validate_findings.py and reduce.py   *)
(* do, and the judging is a model's.  Either leaves a reduced.json, which  *)
(* render_report.py and evals/score.py read.  Findings enter one at a      *)
(* time, so that what one more finding does can be stated.                 *)
(***************************************************************************)
EXTENDS Scoring, ScriptReduction, Ingest

CONSTANTS Pool,         \* the findings that may be reported
          Sources,      \* the files of the target, see Ingest
          HotLimit,     \* how many functions are hot
          Truth,        \* the bugs known to be in the contract
          MaxFindings   \* bound: findings in the list

ASSUME PoolAssumption ==
  /\ \A f \in Pool : WellFormed(f) \/ Structural(f)
  /\ \A f \in Pool : f.jsonLength \in Nat /\ f.pocLength \in Nat
  /\ MaxFindings \in Nat

\* The target is files of source, in order, and what is known of it is a list.
ASSUME TargetAssumption ==
  /\ Len(Sources) \in Nat /\ DOMAIN Sources = 1..Len(Sources)
  /\ \A i \in DOMAIN Sources :
       /\ Len(Sources[i].functions) \in Nat
       /\ DOMAIN Sources[i].functions = 1..Len(Sources[i].functions)
  /\ HotLimit \in Nat
  /\ IsFiniteSet(Truth)

VARIABLES findings,     \* what the agents reported, in the order of the files
          accepted,     \* the findings the ledger accepted
          validated,    \* the findings validate_findings.py let through
          report,       \* reduced.json
          page,         \* report.md
          score         \* the scorecard of the case

pipelineVars == <<findings, accepted, validated, report, page, score>>

HotFunctions == RankHotFunctions(Sources, HotLimit)

Nothing == [none |-> TRUE]

Init ==
  /\ findings = <<>> /\ accepted = <<>> /\ validated = <<>>
  /\ report = Nothing /\ page = Nothing /\ score = Nothing

\* What either half admits of the findings is in the order of the files too.
Accepting(f) == IF WellFormed(f) THEN Append(accepted, f) ELSE accepted
Validating(f) == IF Structural(f) THEN Append(validated, f) ELSE validated

Record(f) ==
  /\ report = Nothing /\ Len(findings) < MaxFindings
  /\ findings' = Append(findings, f)
  /\ accepted' = Accepting(f) /\ validated' = Validating(f)
  /\ UNCHANGED <<report, page, score>>

\* What both reducers leave: the records with their severities, and accounts
\* of places and axes.
Summary(half, F, R, judged, gaps) ==
  [half       |-> half,
   judged     |-> judged,
   coexisting |-> Coexisting(R),
   queue      |-> MergeQueue(F),
   dropped    |-> Dropped(F, R),
   gaps       |-> gaps,
   total      |-> Cardinality(Pairs(HotFunctions)),
   covered    |-> Cardinality(Pairs(HotFunctions)) - Cardinality(gaps)]

ReduceAndJudge ==
  /\ report = Nothing /\ findings # <<>>
  /\ LET R == Reduced(accepted) IN
       report' = Summary("service", accepted, R,
                         {[record |-> r, severity |-> Judge(r)] : r \in R},
                         AxisGaps(HotFunctions, accepted))
  /\ UNCHANGED <<findings, accepted, validated, page, score>>

\* Until the model has judged, the claims are the severities.
ReduceByScript ==
  /\ report = Nothing /\ findings # <<>>
  /\ LET R == ReduceRecords(validated) IN
       report' = Summary("skill", validated, R,
                         {[record |-> r, severity |-> r.claim] : r \in R},
                         GapRecords(HotFunctions, validated))
  /\ UNCHANGED <<findings, accepted, validated, page, score>>

\* The list of coverage gaps names each by its bug_class; where a gap has none
\* the script raises and writes nothing.
Render ==
  /\ report # Nothing /\ page = Nothing
  /\ page' = IF \A g \in report.gaps : "bug_class" \in DOMAIN g
             THEN [findings |-> Surviving(report.judged, "FINDING"),
                   leads    |-> Surviving(report.judged, "LEAD"),
                   rejected |-> {x \in report.judged : x.severity = Rejected}]
             ELSE [raised |-> "KeyError"]
  /\ UNCHANGED <<findings, accepted, validated, report, score>>

Score ==
  /\ report # Nothing /\ score = Nothing
  /\ score' = ScoreCase(report.judged, Truth)
  /\ UNCHANGED <<findings, accepted, validated, report, page>>

Next ==
  (\E f \in Pool : Record(f)) \/ ReduceAndJudge \/ ReduceByScript \/ Render \/ Score

Spec == Init /\ [][Next]_pipelineVars

-----------------------------------------------------------------------------
(* Properties *)

\* Whether record r stands for finding f: its place and class, its reporter, its
\* root cause, its axes and the code of its fixes are all there.
Carries(r, f) ==
  /\ r.place = f.place /\ f.bug \in r.key
  /\ f.agent \in r.agents /\ f.root \in r.mechanisms /\ f.axes \subseteq r.axes
  /\ \A x \in f.fixes : \E fp \in r.fixes : fp[1] = x.label /\ fp[2] = NormalizeAddLines(x)

\* The records of the report, by whichever half.
Judged == IF report = Nothing THEN {} ELSE report.judged

\* Nothing is merged away and nothing crosses functions: each hunt is carried by
\* exactly one record, and whoever a record names as corroborating reported that
\* class at that very place.  A place with several records is listed with each,
\* by a name of its own, and classes never share a record but as synonyms, so
\* that the queue for adjudication stays empty.
FunctionIsolation ==
  \A case \in {<<accepted, Reduced(accepted)>>, <<validated, ReduceRecords(validated)>>} :
    LET F == case[1]  R == case[2] IN
      /\ \A i \in Hunts(F) : Cardinality({r \in R : Carries(r, F[i])}) = 1
      /\ \A r \in R, a \in {f.agent : f \in Pool} :
           a \in r.agents => \E i \in Hunts(F) : F[i].agent = a /\ Carries(r, F[i])
      /\ \A c \in Coexisting(R) :
           Cardinality(c.keys) = Cardinality({r \in R : r.place = c.place})
      /\ MergeQueue(F) = {} /\ Dropped(F, R) = {}

\* Severity and confidence cannot contradict each other: what the judge assigns
\* is within the claim and the cap the reducer states on its own; and what the
\* verifier refuted is rejected with no confidence left, however strong its
\* proof, its PoC and its support were.
SeverityWithinCap ==
  \A x \in Judged :
    /\ x.record.confidence \in 0..99
    /\ x.record.verdict = "REFUTED" => x.record.confidence = 0
    /\ report.half = "service" =>
         /\ x.severity <= SeverityCap(x.record.claim, x.record.confidence)
         /\ x.record.verdict = "REFUTED" => x.severity = Rejected

\* The confidence a list F gives the group of the finding at i.
ConfidenceOf(F, i) == Reduce(F, GroupOf(F, i)).confidence

\* Agreement only ever helps: one more finding that does not outweigh the best
\* of its group leaves that one the best, and takes nothing off its confidence.
AgreementHelps ==
  Len(findings) > 1 /\ accepted = findings =>
    LET n == Len(findings)
        before == SubSeq(findings, 1, n - 1)
    IN \A i \in Hunts(before) :
         LET best == Best(before, GroupOf(before, i)) IN
           (findings[n].kind = "AXISGAP" \/ ~Outweighs(findings[n], before[best])) =>
             /\ Best(findings, GroupOf(findings, i)) = best
             /\ ConfidenceOf(findings, i) >= ConfidenceOf(before, i)

\* Members of one group that a sort key leaves undecided, or that the two
\* halves' keys order differently.
Tie(f, g) == ~Outweighs(f, g) /\ ~Outweighs(g, f)
Drift(f, g) == Outweighs(f, g) # RanksAbove(f, g)

SomeMembers(Related(_, _)) ==
  \E i, j \in Hunts(findings) :
    i # j /\ SameGroup(findings[i], findings[j]) /\ Related(findings[i], findings[j])

\* The files are read in name order, which says nothing about the findings: but
\* for ties of the sort key inside a group, the records do not depend on it.
OrderOnlyBreaksTies ==
  LET n == Len(findings)
      backwards == [i \in 1..n |-> findings[n + 1 - i]]
  IN accepted = findings /\ ~SomeMembers(Tie) => Reduced(backwards) = Reduced(findings)

\* The skill and the service make the same of the same findings: where both
\* admit all of them, they form the same groups and find the same gaps, and
\* their records and confidences are the same but where the length of a proof
\* as JSON (or, on a tie, of a PoC) orders members otherwise than the content.
TwinsAgree ==
  accepted = findings /\ validated = findings =>
    LET Names(R) == {<<r.place, r.key, r.agents, r.mechanisms, r.fixes, r.axes>> : r \in R}
        service == Reduced(findings)
        script == ReduceRecords(findings)
    IN /\ Names(service) = Names(script)
       /\ {<<g.place, g.axis>> : g \in AxisGaps(HotFunctions, findings)}
            = {<<g.place, g.axis>> : g \in GapRecords(HotFunctions, findings)}
       /\ SomeMembers(Drift) \/ service = script

\* The report does not contradict itself about coverage: a pair of a hot function
\* and an axis it requires is a gap unless a record of the report names that axis
\* at that place, or an admitted note does, which is in no record; the numbers of
\* the coverage line add up; and a function through which anyone can move value is
\* looked at along every axis or listed, unless as many functions are hotter.
GapsAreReal ==
  report # Nothing =>
    LET F == IF report.half = "service" THEN accepted ELSE validated
        Named(place, axis) ==
          \E x \in Judged : x.record.place = place /\ axis \in x.record.axes
        Noted(place, axis) ==
          \E i \in DOMAIN F :
            /\ F[i].kind \in {"COVERAGE_NOTE", "AXISGAP"}
            /\ F[i].place = place /\ axis \in F[i].axes
        Gap(place, axis) == \E g \in report.gaps : g.place = place /\ g.axis = axis
        Seen(place, axis) == Named(place, axis) \/ Noted(place, axis)
    IN /\ \A p \in Pairs(HotFunctions) : Gap(p.place, p.axis) <=> ~Seen(p.place, p.axis)
       /\ report.total = report.covered + Cardinality(report.gaps)
       /\ \A x \in Listed(Sources), axis \in Axes :
            "moves value" \in x.fn.signs /\ "guard" \notin x.fn.signs =>
              \/ Gap(<<x.contract, x.fn.name>>, axis) \/ Seen(<<x.contract, x.fn.name>>, axis)
              \/ Cardinality({y \in Listed(Sources) : RanksBefore(y, x)}) >= HotLimit

\* Each finding a reader sees on the page is scored exactly once, as a match,
\* as a second report of a matched bug, as a near miss or as wrong; each bug is
\* found or missed; what a lead is credited for was missed; and each score of
\* the calibration is in one bin.
ScoreAddsUp ==
  score # Nothing /\ page # Nothing /\ "findings" \in DOMAIN page =>
    LET again == {x \in page.findings : KeyOf(x.record) \in score.found}
        bins == score.bins
    IN
      /\ Cardinality(page.findings) = Cardinality(again) + score.near + score.fp
      /\ score.tp = Cardinality(score.found) /\ score.tp <= Cardinality(again)
      /\ score.tp + score.fn = Cardinality({KeyOf(t) : t \in Truth})
      /\ Cardinality(score.leads) <= score.fn
      /\ bins[0..39] + bins[40..59] + bins[60..69] + bins[70..84] + bins[85..99]
           = score.tp + score.fp

\* The class of synonyms the scorer does not have.
UncheckedReturn == {"unchecked-return", "unchecked-call", "ignored-return-value"}

\* What the reducer takes for reports of one bug, the scorer does too: a finding
\* in the class and at the place of a known bug counts as that bug found, but
\* for the one class of synonyms the scorer's table lacks.
MergedIsFound ==
  score # Nothing =>
    \A t \in Truth, x \in Surviving(Judged, "FINDING") :
      /\ x.record.place = t.place /\ t.bug \in x.record.key
      /\ t.bug \notin UncheckedReturn
      => KeyOf(t) \in score.found

\* What the service's README says of reduced.json: the skill's script renders it.
ReportRenders == "raised" \notin DOMAIN page

=============================================================================
