------------------------------ MODULE Judging ------------------------------
(***************************************************************************)
(* judge (core/judging.py): four gates in fixed order over a reduced       *)
(* record, the admin amplifier, and a severity that neither the claim nor  *)
(* the computed confidence lets rise.  The regular expressions over the    *)
(* record's text are abstracted to the telling words in it.  Gate 4 is     *)
(* left out: judge records its verdict and nothing ever reads it.          *)
(***************************************************************************)
EXTENDS Reduction

CONSTANTS Acquirable    \* a privileged role of the target can be acquired

ASSUME AcquirableAssumption == Acquirable \in BOOLEAN

Rejected == -1

\* Everything a gate might want to read: the record's own text and the root
\* cause of every mechanism, whoever reported it.
Text(rec) == rec.said \cup rec.root \cup UNION rec.mechanisms

Gate1(rec) ==
  CASE rec.verdict = "UNREACHABLE-CODE"          -> "BLOCKS"
    [] rec.verdict # "UNREACHABLE-CODE" /\ "access" \in rec.da -> "BLOCKS"
    [] OTHER -> IF \/ "attacker" \in Text(rec)
                   \/ "admin" \in Text(rec) /\ Acquirable
                THEN "ALLOWS" ELSE "UNCERTAIN"

HarmAxes == {"theft", "accounting", "liveness", "provenance"}

Gate2(rec) ==
  IF "by_design" \in rec.da THEN "IRRELEVANT"
  ELSE IF \/ "self-harm" \in Text(rec)
          \/ "gas-only" \in Text(rec) /\ rec.axes \cap {"theft", "accounting"} = {}
          \/ "economic" \in rec.da
       THEN "BLOCKS"
  ELSE IF rec.axes \cap HarmAxes # {} THEN "ALLOWS" ELSE "UNCERTAIN"

\* A finding that passed the schema has a root cause.
Gate3(rec) ==
  IF rec.kind = "LEAD" \/ rec.proof = "none" THEN "UNCERTAIN"
  ELSE IF "trust" \in Text(rec) THEN "BLOCKS" ELSE "ALLOWS"

AdminAmplifier(rec) ==
  IF "admin" \notin Text(rec) THEN "not-applicable"
  ELSE IF "amplifier" \in Text(rec) THEN "named"
  ELSE IF "attacker" \in Text(rec) THEN "not-applicable" ELSE "none-named"

Lesser(a, b) == IF a <= b THEN a ELSE b

\* What the axes alone would make of it.
Impact(rec) ==
  LET fundLoss == rec.axes \cap {"theft", "accounting"} # {} IN
    CASE fundLoss /\ Gate1(rec) = "ALLOWS" /\ "attacker" \in Text(rec) -> Critical
      [] fundLoss /\ ~(Gate1(rec) = "ALLOWS" /\ "attacker" \in Text(rec)) -> High
      [] ~fundLoss /\ "liveness" \in rec.axes -> High
      [] ~fundLoss /\ "liveness" \notin rec.axes
           /\ rec.axes \cap {"provenance", "identity"} # {} -> Medium
      [] OTHER -> Low

\* Slip: the cap is applied at 40 alone.
DoubtAt40(severity, confidence) ==
  IF confidence < 40 THEN Lesser(severity, Low) ELSE severity

\* Never present a claim as more certain than the arithmetic supports.
Doubted(severity, confidence) ==
  IF confidence < 40 THEN Lesser(severity, Low)
  ELSE IF confidence < 60 THEN Lesser(severity, Medium)
  ELSE severity

AssignSeverity(rec) ==
  IF "BLOCKS" \in {Gate1(rec), Gate2(rec), Gate3(rec)} \/ Gate2(rec) = "IRRELEVANT"
  THEN Rejected
  ELSE Doubted(Lesser(Impact(rec), rec.claim), rec.confidence)

\* The final severity: a refutation is terminal, and so is an admin action
\* without an amplifier.
Judge(rec) ==
  IF rec.verdict = "REFUTED" \/ AdminAmplifier(rec) = "none-named"
  THEN Rejected ELSE AssignSeverity(rec)

\* core/reduction.py's statement of the same caps.
SeverityCap(severity, confidence) ==
  IF confidence < 40 THEN (IF severity > Low THEN Low ELSE severity)
  ELSE IF confidence < 60 THEN (IF severity > Medium THEN Medium ELSE severity)
  ELSE severity
=============================================================================
