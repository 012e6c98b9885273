------------------------------ MODULE Verifier ------------------------------
(***************************************************************************)
(* The adversarial verifier (agents/verifier.py): verify_all fans the      *)
(* findings at or above the budget's threshold out under a semaphore,      *)
(* verify_one argues with a critic for at most VerifyIterations rounds,    *)
(* and what was below the threshold gets a default verdict unless it       *)
(* already carries one.  The critic's text is abstracted to the verdict    *)
(* _parse_verdict finds in it, or none.                                    *)
(***************************************************************************)
EXTENDS Integers, Sequences, FiniteSets

CONSTANTS
  Findings,       \* positions in the list verify_all is given
  Budgets,        \* the budgets a run may be made with
  Claims,         \* the severities the findings may claim
  Concurrency     \* permits of the semaphore

ASSUME VerifierAssumption ==
  /\ Findings \subseteq Nat /\ IsFiniteSet(Findings)
  /\ Budgets \subseteq {"quick", "standard", "deep", "exhaustive"} /\ Budgets # {}
  /\ Claims \subseteq {"critical", "high", "medium", "low", "informational"} /\ Claims # {}
  /\ Concurrency \in Nat \ {0}

Verdicts == {"CONFIRMED", "WEAKENED", "REFUTED", "UNREACHABLE-CODE", "NOT-RUN"}
None == "none"

\* BUDGETS[budget]["verify_iterations"]
VerifyIterations(b) ==
  CASE b = "quick" -> 1 [] b = "exhaustive" -> 3 [] OTHER -> 2

Threshold(b) ==
  {"critical", "high", "medium"}
    \cup (IF b \in {"deep", "exhaustive"} THEN {"low"} ELSE {})
    \cup (IF b = "exhaustive" THEN {"informational"} ELSE {})

Terminal == {"CONFIRMED", "REFUTED", "UNREACHABLE-CODE"}

VARIABLES
  budget,         \* the budget of the run
  claim,          \* severity_claim of each finding
  preset,         \* the verification a finding came with, or None
  pc,             \* "start", "arguing", "tallied"
  task,           \* per finding: "idle", "queued", "arguing", "done"
  local,          \* the Verification verify_one is building
  verification,   \* the finding's verification, or None
  said,           \* what the critic answered: verdicts, "prose" and "error"
  billed,         \* completions added to the verifier's usage
  stats           \* what verify_all returns

verifierVars ==
  <<budget, claim, preset, pc, task, local, verification, said, billed, stats>>

\* Slip: the name of the enumeration's member where its value is meant.
MemberName == "NOT_RUN"

Unverified == "NOT-RUN"

NotRun == [verdict |-> Unverified, iterations |-> 0]
NoStats == [sent |-> 0, of |-> [v \in Verdicts |-> 0]]

Targets == {f \in Findings : claim[f] \in Threshold(budget)}

Init ==
  /\ budget \in Budgets
  /\ claim \in [Findings -> Claims]
  /\ preset \in [Findings -> {None, "CONFIRMED"}]
  /\ pc = "start"
  /\ task = [f \in Findings |-> "idle"]
  /\ local = [f \in Findings |-> NotRun]
  /\ verification = preset
  /\ said = [f \in Findings |-> <<>>]
  /\ billed = 0
  /\ stats = NoStats

\* Slip: a finding that already carries a verification is not argued.
OnlyBare == {f \in Targets : preset[f] = None}

ToArgue == Targets

FanOut ==
  /\ pc = "start" /\ pc' = "arguing"
  /\ task' = [f \in Findings |-> IF f \in ToArgue THEN "queued" ELSE "idle"]
  /\ UNCHANGED <<budget, claim, preset, local, verification, said, billed, stats>>

Queued == {f \in Findings : task[f] = "queued"}

\* Slip: a permit is not given back.
HoldingForEver == {f \in Findings : task[f] \in {"arguing", "done"}}

Holding == {f \in Findings : task[f] = "arguing"}

\* The semaphore admits in order.
Begin(f) ==
  /\ pc = "arguing" /\ f \in Queued /\ \A g \in Queued : f <= g
  /\ Cardinality(Holding) < Concurrency
  /\ task' = [task EXCEPT ![f] = "arguing"]
  /\ UNCHANGED <<budget, claim, preset, pc, local, verification, said, billed, stats>>

\* Ending an argument with v assigns it to the finding; otherwise the loop goes
\* round again with v.
Step(f, v, ends) ==
  /\ local' = [local EXCEPT ![f] = v]
  /\ task' = [task EXCEPT ![f] = IF ends THEN "done" ELSE @]
  /\ verification' =
       IF ends THEN [verification EXCEPT ![f] = v.verdict] ELSE verification

Round(f) == local[f].iterations + 1
LastRound(f) == Round(f) >= VerifyIterations(budget)

\* Slip: what was heard before the failure stands.
AfterError(f) == [local[f] EXCEPT !.iterations = Round(f)]

\* Any exception, a timeout included: the verdict falls back to NOT-RUN.
OnError(f) == [verdict |-> Unverified, iterations |-> Round(f)]

\* The provider fails.
CriticFails(f) ==
  /\ task[f] = "arguing"
  /\ Step(f, OnError(f), TRUE)
  /\ said' = [said EXCEPT ![f] = Append(@, "error")]
  /\ UNCHANGED <<budget, claim, preset, pc, billed, stats>>

\* Slip: only an answer that can be used is billed.
Free == 0

CompletionCost == 1

\* The provider answers, and no verdict can be read in its text.
CriticRambles(f) ==
  /\ task[f] = "arguing"
  /\ Step(f, [local[f] EXCEPT !.iterations = Round(f)], LastRound(f))
  /\ said' = [said EXCEPT ![f] = Append(@, "prose")]
  /\ billed' = billed + CompletionCost
  /\ UNCHANGED <<budget, claim, preset, pc, stats>>

\* The provider answers with verdict v, NOT-RUN included.
CriticRules(f) ==
  /\ task[f] = "arguing"
  /\ \E v \in Verdicts :
       /\ Step(f, [verdict |-> v, iterations |-> Round(f)],
               v \in Terminal \/ LastRound(f))
       /\ said' = [said EXCEPT ![f] = Append(@, v)]
  /\ billed' = billed + 1
  /\ UNCHANGED <<budget, claim, preset, pc, stats>>

\* After the gather: a default for what has no verification, then the tally.
Tally ==
  /\ pc = "arguing" /\ \A f \in ToArgue : task[f] = "done"
  /\ pc' = "tallied"
  /\ verification' =
       [f \in Findings |-> IF verification[f] = None THEN Unverified ELSE verification[f]]
  /\ stats' = [sent |-> Cardinality(Targets),
               of |-> [v \in Verdicts |->
                         Cardinality({f \in Findings : verification'[f] = v})]]
  /\ UNCHANGED <<budget, claim, preset, task, local, said, billed>>

Argue(f) == Begin(f) \/ CriticFails(f) \/ CriticRambles(f) \/ CriticRules(f)

Next == FanOut \/ Tally \/ \E f \in Findings : Argue(f)

Spec == Init /\ [][Next]_verifierVars

\* wait_for bounds every round, and the event loop runs what can run.
FairSpec ==
  /\ Spec
  /\ WF_verifierVars(FanOut \/ Tally)
  /\ \A f \in Findings : WF_verifierVars(Argue(f))

-----------------------------------------------------------------------------
(* Properties *)

Utterances == Verdicts \cup {"prose", "error"}

TypeOK ==
  /\ budget \in Budgets
  /\ claim \in [Findings -> Claims]
  /\ preset \in [Findings -> Verdicts \cup {None}]
  /\ pc \in {"start", "arguing", "tallied"}
  /\ task \in [Findings -> {"idle", "queued", "arguing", "done"}]
  /\ local \in [Findings -> [verdict : Verdicts, iterations : 0..3]]
  /\ verification \in [Findings -> Verdicts \cup {None}]
  /\ said \in [Findings -> Seq(Utterances)]
  /\ billed \in Nat
  /\ stats \in [sent : Nat, of : [Verdicts -> Nat]]

\* Verdict v is what the critic's words amount to: nothing if the last call failed,
\* whatever it said before; else its last ruling, if it ever ruled.
AmountsTo(words, v) ==
  LET rulings == {i \in DOMAIN words : words[i] \in Verdicts} IN
    IF rulings = {} \/ words[Len(words)] = "error"
    THEN v = "NOT-RUN"
    ELSE \E i \in rulings : v = words[i] /\ \A j \in rulings : j <= i

\* A finding the verifier argued about carries the verdict of that argument and
\* no other: not the one it came with, and not one from before a failure.
VerdictIsTheCritics ==
  \A f \in Findings : task[f] = "done" => AmountsTo(said[f], verification[f])

\* The manifest's verification block adds up: every finding is in one column of
\* the tally, and the candidates sent are those a critic was really asked about.
TallyAddsUp ==
  pc = "tallied" =>
    /\ stats.of["CONFIRMED"] + stats.of["WEAKENED"] + stats.of["REFUTED"]
         + stats.of["UNREACHABLE-CODE"] + stats.of["NOT-RUN"] = Cardinality(Findings)
    /\ stats.sent = Cardinality({f \in Findings : said[f] # <<>>})

\* The completions the provider charged for, each by its finding and its round.
Answers ==
  UNION {{f} \X {i \in DOMAIN said[f] : said[f][i] # "error"} : f \in Findings}

\* Every answer the provider charged for is in the usage, useless ones too.
UsageCounted == billed = Cardinality(Answers)

\* The phase ends.
VerifyEnds == <>(pc = "tallied")

-----------------------------------------------------------------------------
(* What the documentation says and the code does not keep *)

\* `verification` is orchestrator-owned (schemas.py:207), and a reader can tell
\* "survived a verifier" from "was never checked" (verification.md:70).
ConfirmedWereSent == pc = "tallied" => stats.of["CONFIRMED"] <= stats.sent
=============================================================================
