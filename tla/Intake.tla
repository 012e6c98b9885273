------------------------------- MODULE Intake -------------------------------
(***************************************************************************)
(* From the source of a target to the roster of its audit.  The command    *)
(* line ingests the source and routes what comes out; a caller of the      *)
(* orchestrator may hand it any map, which a MAP phase has refined.        *)
(***************************************************************************)
EXTENDS Router, Ingest

CONSTANTS Texts         \* sets of telling words, the sources to ingest

ASSUME TextsAssumption == Texts \subseteq SUBSET Vocabulary

VARIABLE words          \* the words of the source, or FromCaller

intakeVars == <<words, smap, budgetOf, roster, skipped>>

FromCaller == {"from-caller"}

\* build_system_map: what a headless run does not know stays empty.
IngestedMap(text) ==
  [evidence    |-> ExtractEvidence(text) \cap EvidenceFields,
   invariants  |-> 0,
   semitrusted |-> 0,
   compiles    |-> FALSE]

IntakeInit ==
  /\ words \in Texts \cup {FromCaller}
  /\ smap \in IF words = FromCaller THEN Maps ELSE {IngestedMap(words)}
  /\ budgetOf \in Budgets
  /\ roster = {} /\ skipped = {}

IntakeSpec == IntakeInit /\ [][BuildRoster /\ UNCHANGED words]_intakeVars

\* A false negative costs a whole specialty, so every heuristic errs towards
\* firing: one more word in the source never takes a lane away, and what a
\* target does fires the lane and the EIP expert though it names no number.
EvidenceFires ==
  words # FromCaller =>
    LET Lanes(text) == Triggered(IngestedMap(text), budgetOf) IN
      /\ \A w \in Vocabulary : Lanes(words) \subseteq Lanes(words \cup {w})
      /\ "tstore" \in words => {"transient-storage", "eip-expert"} \subseteq Lanes(words)
      /\ "UserOperation" \in words =>
           {"account-abstraction", "eip-expert"} \subseteq Lanes(words)
=============================================================================
