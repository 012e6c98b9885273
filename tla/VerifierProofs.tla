--------------------------- MODULE VerifierProofs ---------------------------
(***************************************************************************)
(* Theorems about Verifier, for every number of findings and of permits.   *)
(***************************************************************************)
EXTENDS Verifier, Orders, SequenceTheorems

LEMMA IterationsBound ==
  ASSUME NEW b
  PROVE  VerifyIterations(b) \in 1..3
BY DEF VerifyIterations

LEMMA TargetsFinite == IsFiniteSet(Targets) /\ Cardinality(Targets) \in Nat
BY VerifierAssumption, FS_Subset, FS_CardinalityType DEF Targets

-----------------------------------------------------------------------------
(* Types *)

\* An argument that has not ended has a round left, and none begins before the
\* fan-out.
RoundsLeft ==
  /\ \A f \in Findings : task[f] # "done" => local[f].iterations < VerifyIterations(budget)
  /\ pc = "start" => \A f \in Findings : task[f] = "idle"

Typed == TypeOK /\ RoundsLeft

LEMMA TypedInit == Init => Typed
<1> SUFFICES ASSUME Init PROVE Typed
  OBVIOUS
<1>1. NotRun \in [verdict : Verdicts, iterations : 0..3]
  BY DEF NotRun, Unverified, Verdicts
<1>2. NoStats \in [sent : Nat, of : [Verdicts -> Nat]]
  BY DEF NoStats
<1>3. <<>> \in Seq(Utterances)
  OBVIOUS
<1>4. preset \in [Findings -> Verdicts \cup {None}]
  BY DEF Init, Verdicts
<1>5. TypeOK
  BY <1>1, <1>2, <1>3, <1>4 DEF Init, TypeOK
<1>6. \A f \in Findings : local[f].iterations = 0 /\ task[f] = "idle"
  BY DEF Init, NotRun
<1> QED
  BY <1>5, <1>6, IterationsBound DEF Typed, RoundsLeft

\* What every way for a call to the critic to end does to the argument over f.
LEMMA StepTyped ==
  ASSUME Typed, NEW f \in Findings, task[f] = "arguing",
         NEW v \in [verdict : Verdicts, iterations : 0..3], NEW ends \in BOOLEAN,
         Step(f, v, ends), v.iterations = Round(f), ends \/ ~LastRound(f),
         budget' = budget, pc' = pc
  PROVE  /\ local' \in [Findings -> [verdict : Verdicts, iterations : 0..3]]
         /\ task' \in [Findings -> {"idle", "queued", "arguing", "done"}]
         /\ verification' \in [Findings -> Verdicts \cup {None}]
         /\ RoundsLeft'
<1>1. /\ local' = [local EXCEPT ![f] = v]
      /\ task' = [task EXCEPT ![f] = IF ends THEN "done" ELSE @]
      /\ verification' =
           IF ends THEN [verification EXCEPT ![f] = v.verdict] ELSE verification
  BY DEF Step
<1>2. local' \in [Findings -> [verdict : Verdicts, iterations : 0..3]]
  BY <1>1 DEF Typed, TypeOK
<1>3. task' \in [Findings -> {"idle", "queued", "arguing", "done"}]
  BY <1>1 DEF Typed, TypeOK
<1>4. verification' \in [Findings -> Verdicts \cup {None}]
  BY <1>1 DEF Typed, TypeOK
<1>5. v.iterations \in 0..3 /\ VerifyIterations(budget) \in 1..3
  BY IterationsBound
<1>6. ~ends => v.iterations < VerifyIterations(budget)
  BY <1>5 DEF LastRound
<1>7. RoundsLeft'
  BY <1>1, <1>6 DEF Typed, TypeOK, RoundsLeft
<1> QED
  BY <1>2, <1>3, <1>4, <1>7

LEMMA RoundTyped ==
  ASSUME Typed, NEW f \in Findings, task[f] = "arguing"
  PROVE  Round(f) \in 1..3
<1>1. local[f].iterations \in 0..3 /\ local[f].iterations < VerifyIterations(budget)
  BY DEF Typed, TypeOK, RoundsLeft
<1> QED
  BY <1>1, IterationsBound DEF Round

LEMMA TypedNext == Typed /\ [Next]_verifierVars => Typed'
<1> SUFFICES ASSUME Typed, [Next]_verifierVars
             PROVE  Typed'
  OBVIOUS
<1>1. CASE FanOut
  <2>1. TypeOK'
    BY <1>1 DEF Typed, TypeOK, FanOut
  <2>2. RoundsLeft'
    BY <1>1 DEF Typed, RoundsLeft, FanOut
  <2> QED
    BY <2>1, <2>2 DEF Typed
<1>2. CASE Tally
  <2>1. /\ verification' \in [Findings -> Verdicts \cup {None}]
        /\ pc' \in {"start", "arguing", "tallied"}
    BY <1>2 DEF Typed, TypeOK, Tally, Unverified, Verdicts
  <2>2. \A v \in Verdicts : Cardinality({f \in Findings : verification'[f] = v}) \in Nat
    BY VerifierAssumption, FS_Subset, FS_CardinalityType
  <2>3. stats' \in [sent : Nat, of : [Verdicts -> Nat]]
    BY <1>2, <2>2, TargetsFinite DEF Tally
  <2>4. TypeOK'
    BY <1>2, <2>1, <2>3 DEF Typed, TypeOK, Tally
  <2>5. RoundsLeft'
    BY <1>2 DEF Typed, RoundsLeft, Tally
  <2> QED
    BY <2>4, <2>5 DEF Typed
<1>3. ASSUME NEW f \in Findings, Begin(f)
      PROVE  Typed'
  <2>1. local[f].iterations < VerifyIterations(budget)
    BY <1>3 DEF Typed, RoundsLeft, Begin, Queued
  <2> QED
    BY <1>3, <2>1 DEF Typed, TypeOK, RoundsLeft, Begin, Queued
<1>4. ASSUME NEW f \in Findings, CriticFails(f)
      PROVE  Typed'
  <2>1. /\ task[f] = "arguing" /\ Step(f, OnError(f), TRUE)
        /\ said' = [said EXCEPT ![f] = Append(@, "error")]
        /\ UNCHANGED <<budget, claim, preset, pc, billed, stats>>
    BY <1>4 DEF CriticFails
  <2>2. OnError(f) \in [verdict : Verdicts, iterations : 0..3]
        /\ OnError(f).iterations = Round(f)
    BY <2>1, RoundTyped DEF OnError, Unverified, Verdicts
  <2>3. /\ local' \in [Findings -> [verdict : Verdicts, iterations : 0..3]]
        /\ task' \in [Findings -> {"idle", "queued", "arguing", "done"}]
        /\ verification' \in [Findings -> Verdicts \cup {None}]
        /\ RoundsLeft'
    BY <2>1, <2>2, StepTyped
  <2>4. said' \in [Findings -> Seq(Utterances)]
    BY <2>1 DEF Typed, TypeOK, Utterances
  <2> QED
    BY <2>1, <2>3, <2>4 DEF Typed, TypeOK
<1>5. ASSUME NEW f \in Findings, CriticRambles(f)
      PROVE  Typed'
  <2>1. /\ task[f] = "arguing"
        /\ Step(f, [local[f] EXCEPT !.iterations = Round(f)], LastRound(f))
        /\ said' = [said EXCEPT ![f] = Append(@, "prose")]
        /\ billed' = billed + 1
        /\ UNCHANGED <<budget, claim, preset, pc, stats>>
    BY <1>5 DEF CriticRambles, CompletionCost
  <2> DEFINE v == [local[f] EXCEPT !.iterations = Round(f)]
  <2>2. v \in [verdict : Verdicts, iterations : 0..3] /\ v.iterations = Round(f)
        /\ LastRound(f) \in BOOLEAN
    <3>1. Round(f) \in 0..3
      BY <2>1, RoundTyped
    <3>2. local[f] \in [verdict : Verdicts, iterations : 0..3]
      BY DEF Typed, TypeOK
    <3>3. LastRound(f) \in BOOLEAN
      BY DEF LastRound
    <3> QED
      BY <3>1, <3>2, <3>3
  <2> HIDE DEF v
  <2>3. /\ local' \in [Findings -> [verdict : Verdicts, iterations : 0..3]]
        /\ task' \in [Findings -> {"idle", "queued", "arguing", "done"}]
        /\ verification' \in [Findings -> Verdicts \cup {None}]
        /\ RoundsLeft'
    BY <2>1, <2>2, StepTyped DEF v
  <2>4. said' \in [Findings -> Seq(Utterances)]
    BY <2>1 DEF Typed, TypeOK, Utterances
  <2> QED
    BY <2>1, <2>3, <2>4 DEF Typed, TypeOK
<1>6. ASSUME NEW f \in Findings, CriticRules(f)
      PROVE  Typed'
  <2>1. PICK w \in Verdicts :
          /\ Step(f, [verdict |-> w, iterations |-> Round(f)],
                  w \in Terminal \/ LastRound(f))
          /\ said' = [said EXCEPT ![f] = Append(@, w)]
    BY <1>6 DEF CriticRules
  <2>2. task[f] = "arguing" /\ billed' = billed + 1
        /\ UNCHANGED <<budget, claim, preset, pc, stats>>
    BY <1>6 DEF CriticRules
  <2> DEFINE v == [verdict |-> w, iterations |-> Round(f)]
             ends == w \in Terminal \/ LastRound(f)
  <2>3. v \in [verdict : Verdicts, iterations : 0..3] /\ v.iterations = Round(f)
        /\ ends \in BOOLEAN /\ (ends \/ ~LastRound(f)) /\ Step(f, v, ends)
    BY <2>1, <2>2, RoundTyped DEF Typed, TypeOK, LastRound
  <2> HIDE DEF v, ends
  <2>4. /\ local' \in [Findings -> [verdict : Verdicts, iterations : 0..3]]
        /\ task' \in [Findings -> {"idle", "queued", "arguing", "done"}]
        /\ verification' \in [Findings -> Verdicts \cup {None}]
        /\ RoundsLeft'
    BY <2>2, <2>3, StepTyped
  <2>5. said' \in [Findings -> Seq(Utterances)]
    BY <2>1 DEF Typed, TypeOK, Utterances
  <2> QED
    BY <2>2, <2>4, <2>5 DEF Typed, TypeOK
<1>7. CASE UNCHANGED verifierVars
  BY <1>7 DEF Typed, TypeOK, RoundsLeft, verifierVars
<1> QED
  BY <1>1, <1>2, <1>3, <1>4, <1>5, <1>6, <1>7 DEF Next, Argue

\* Every variable has its type, and no argument has more rounds than the budget
\* pays for.
THEOREM VerifierTypeCorrect == Spec => [](TypeOK /\ RoundsLeft)
BY TypedInit, TypedNext, PTL DEF Spec, Typed

-----------------------------------------------------------------------------
(* The verdict *)

\* What one more answer of the critic does to what its words amount to.
LEMMA OneMoreWord ==
  ASSUME NEW words \in Seq(Utterances), NEW w \in Utterances
  PROVE  /\ w \in Verdicts => AmountsTo(Append(words, w), w)
         /\ w = "error" => AmountsTo(Append(words, w), "NOT-RUN")
         /\ \A v : w = "prose" /\ AmountsTo(words, v)
                     /\ (\A i \in DOMAIN words : words[i] # "error")
                   => AmountsTo(Append(words, w), v)
<1> DEFINE more == Append(words, w)
           n == Len(words)
<1>1. /\ n \in Nat /\ DOMAIN words = 1..n
      /\ DOMAIN more = 1..(n + 1) /\ Len(more) = n + 1 /\ more[n + 1] = w
      /\ \A i \in 1..n : more[i] = words[i]
  OBVIOUS
<1> HIDE DEF more, n
<1>2. "error" \notin Verdicts /\ "prose" \notin Verdicts
  BY DEF Verdicts
<1>3. ASSUME w \in Verdicts
      PROVE  AmountsTo(more, w)
  BY <1>1, <1>2, <1>3 DEF AmountsTo
<1>4. ASSUME w = "error"
      PROVE  AmountsTo(more, "NOT-RUN")
  BY <1>1, <1>4 DEF AmountsTo
<1>5. ASSUME NEW v, w = "prose", AmountsTo(words, v),
             \A i \in DOMAIN words : words[i] # "error"
      PROVE  AmountsTo(more, v)
  <2>1. {i \in DOMAIN more : more[i] \in Verdicts}
          = {i \in DOMAIN words : words[i] \in Verdicts}
    BY <1>1, <1>2, <1>5
  <2>2. \A i \in DOMAIN words : more[i] = words[i]
    BY <1>1
  <2>3. more[Len(more)] # "error"
    BY <1>1, <1>5
  <2>4. n > 0 => words[n] # "error"
    BY <1>1, <1>5
  <2>5. CASE {i \in DOMAIN words : words[i] \in Verdicts} = {}
    BY <1>5, <2>1, <2>5 DEF AmountsTo
  <2>6. CASE {i \in DOMAIN words : words[i] \in Verdicts} # {}
    <3>1. words[Len(words)] # "error"
      BY <1>1, <2>4, <2>6 DEF n
    <3> QED
      BY <1>5, <2>1, <2>2, <2>3, <2>6, <3>1 DEF AmountsTo
  <2> QED
    BY <2>5, <2>6
<1> QED
  BY <1>3, <1>4, <1>5 DEF more

\* Where an argument stands: while it has not ended no call has failed; the verdict
\* being built is what the critic's words so far amount to; and an argument that
\* has ended left that verdict, of a critic that was asked, with the finding.
Arguing ==
  \A f \in Findings :
    /\ task[f] \in {"idle", "queued"} => said[f] = <<>>
    /\ task[f] # "done" => \A i \in DOMAIN said[f] : said[f][i] # "error"
    /\ AmountsTo(said[f], local[f].verdict)
    /\ task[f] = "done" => said[f] # <<>> /\ verification[f] = local[f].verdict

LEMMA ArguingInit == Init => Arguing
<1>1. AmountsTo(<<>>, "NOT-RUN")
  BY DEF AmountsTo
<1> QED
  BY <1>1 DEF Init, Arguing, NotRun, Unverified

\* A call to the critic over f, ending with word w.
LEMMA StepArguing ==
  ASSUME Typed, Arguing, NEW f \in Findings, task[f] = "arguing",
         NEW v \in [verdict : Verdicts, iterations : 0..3], NEW ends \in BOOLEAN,
         Step(f, v, ends), NEW w \in Utterances,
         said' = [said EXCEPT ![f] = Append(@, w)],
         AmountsTo(Append(said[f], w), v.verdict),
         ends \/ w # "error"
  PROVE  Arguing'
<1>1. /\ local' = [local EXCEPT ![f] = v]
      /\ task' = [task EXCEPT ![f] = IF ends THEN "done" ELSE @]
      /\ verification' =
           IF ends THEN [verification EXCEPT ![f] = v.verdict] ELSE verification
  BY DEF Step
<1>2. /\ DOMAIN local = Findings /\ DOMAIN task = Findings
      /\ DOMAIN verification = Findings /\ DOMAIN said = Findings
      /\ said[f] \in Seq(Utterances)
  BY DEF Typed, TypeOK
<1>3. ASSUME NEW g \in Findings, g # f
      PROVE  /\ local'[g] = local[g] /\ task'[g] = task[g]
             /\ verification'[g] = verification[g] /\ said'[g] = said[g]
  BY <1>1, <1>2, <1>3
<1>4. /\ local'[f] = v /\ task'[f] = IF ends THEN "done" ELSE "arguing"
      /\ ends => verification'[f] = v.verdict
      /\ said'[f] = Append(said[f], w)
  BY <1>1, <1>2
<1>5. Append(said[f], w) # <<>>
  BY <1>2
<1>6. ~ends => \A i \in DOMAIN said'[f] : said'[f][i] # "error"
  <2>1. \A i \in DOMAIN said[f] : said[f][i] # "error"
    BY DEF Arguing
  <2>2. /\ DOMAIN Append(said[f], w) = 1..(Len(said[f]) + 1)
        /\ Len(said[f]) \in Nat /\ DOMAIN said[f] = 1..Len(said[f])
        /\ Append(said[f], w)[Len(said[f]) + 1] = w
        /\ \A i \in DOMAIN said[f] : Append(said[f], w)[i] = said[f][i]
    BY <1>2
  <2> QED
    BY <1>4, <2>1, <2>2
<1> QED
  BY <1>3, <1>4, <1>5, <1>6 DEF Arguing

LEMMA ArguingNext == Typed /\ Arguing /\ [Next]_verifierVars => Arguing'
<1> SUFFICES ASSUME Typed, Arguing, [Next]_verifierVars
             PROVE  Arguing'
  OBVIOUS
<1>1. CASE FanOut
  <2>1. \A f \in Findings : task[f] = "idle" /\ task'[f] \in {"idle", "queued"}
    BY <1>1 DEF Typed, RoundsLeft, FanOut
  <2> QED
    BY <1>1, <2>1 DEF Arguing, FanOut
<1>2. CASE Tally
  <2>1. \A f \in Findings : task[f] = "done" => verification'[f] = verification[f]
    <3>1. \A f \in Findings : local[f].verdict \in Verdicts
      BY DEF Typed, TypeOK
    <3> QED
      BY <1>2, <3>1 DEF Arguing, Tally, None, Verdicts
  <2> QED
    BY <1>2, <2>1 DEF Arguing, Tally
<1>3. ASSUME NEW f \in Findings, Begin(f)
      PROVE  Arguing'
  BY <1>3 DEF Typed, TypeOK, Arguing, Begin, Queued
<1>4. ASSUME NEW f \in Findings, CriticFails(f)
      PROVE  Arguing'
  <2>1. /\ task[f] = "arguing" /\ Step(f, OnError(f), TRUE)
        /\ said' = [said EXCEPT ![f] = Append(@, "error")]
    BY <1>4 DEF CriticFails
  <2>2. OnError(f) \in [verdict : Verdicts, iterations : 0..3]
        /\ OnError(f).verdict = "NOT-RUN"
    BY <2>1, RoundTyped DEF OnError, Unverified, Verdicts
  <2>3. said[f] \in Seq(Utterances) /\ "error" \in Utterances
    BY DEF Typed, TypeOK, Utterances
  <2>4. AmountsTo(Append(said[f], "error"), OnError(f).verdict)
    BY <2>2, <2>3, OneMoreWord
  <2> QED
    BY <2>1, <2>2, <2>3, <2>4, StepArguing
<1>5. ASSUME NEW f \in Findings, CriticRambles(f)
      PROVE  Arguing'
  <2> DEFINE v == [local[f] EXCEPT !.iterations = Round(f)]
  <2>1. /\ task[f] = "arguing" /\ Step(f, v, LastRound(f))
        /\ said' = [said EXCEPT ![f] = Append(@, "prose")]
    BY <1>5 DEF CriticRambles
  <2>2. /\ v \in [verdict : Verdicts, iterations : 0..3]
        /\ v.verdict = local[f].verdict /\ LastRound(f) \in BOOLEAN
    <3>1. Round(f) \in 0..3
      BY <2>1, RoundTyped
    <3>2. local[f] \in [verdict : Verdicts, iterations : 0..3]
      BY DEF Typed, TypeOK
    <3>3. LastRound(f) \in BOOLEAN
      BY DEF LastRound
    <3> QED
      BY <3>1, <3>2, <3>3
  <2> HIDE DEF v
  <2>3. said[f] \in Seq(Utterances) /\ "prose" \in Utterances
    BY DEF Typed, TypeOK, Utterances
  <2>4. AmountsTo(said[f], v.verdict) /\ \A i \in DOMAIN said[f] : said[f][i] # "error"
    BY <2>1, <2>2 DEF Arguing
  <2>5. AmountsTo(Append(said[f], "prose"), v.verdict)
    BY <2>3, <2>4, OneMoreWord
  <2> QED
    BY <2>1, <2>2, <2>3, <2>5, StepArguing
<1>6. ASSUME NEW f \in Findings, CriticRules(f)
      PROVE  Arguing'
  <2>1. PICK w \in Verdicts :
          /\ Step(f, [verdict |-> w, iterations |-> Round(f)],
                  w \in Terminal \/ LastRound(f))
          /\ said' = [said EXCEPT ![f] = Append(@, w)]
    BY <1>6 DEF CriticRules
  <2> DEFINE v == [verdict |-> w, iterations |-> Round(f)]
             ends == w \in Terminal \/ LastRound(f)
  <2>2. task[f] = "arguing"
    BY <1>6 DEF CriticRules
  <2>3. /\ v \in [verdict : Verdicts, iterations : 0..3] /\ v.verdict = w
        /\ ends \in BOOLEAN /\ Step(f, v, ends)
    BY <2>1, <2>2, RoundTyped DEF LastRound
  <2> HIDE DEF v, ends
  <2>4. said[f] \in Seq(Utterances) /\ w \in Utterances /\ w # "error"
    BY DEF Typed, TypeOK, Utterances, Verdicts
  <2>5. AmountsTo(Append(said[f], w), v.verdict)
    BY <2>3, <2>4, OneMoreWord
  <2> QED
    BY <2>1, <2>2, <2>3, <2>4, <2>5, StepArguing
<1>7. CASE UNCHANGED verifierVars
  BY <1>7 DEF Arguing, verifierVars
<1> QED
  BY <1>1, <1>2, <1>3, <1>4, <1>5, <1>6, <1>7 DEF Next, Argue

LEMMA ArguedInvariant == Spec => [](Typed /\ Arguing)
<1>1. Init => Typed /\ Arguing
  BY TypedInit, ArguingInit
<1>2. (Typed /\ Arguing) /\ [Next]_verifierVars => (Typed /\ Arguing)'
  BY TypedNext, ArguingNext
<1> QED
  BY <1>1, <1>2, PTL DEF Spec

\* A finding that was argued about carries the verdict of that argument: the last
\* one the critic gave, or none if its last call failed.
THEOREM VerdictCarried == Spec => []VerdictIsTheCritics
<1>1. Arguing => VerdictIsTheCritics
  BY DEF Arguing, VerdictIsTheCritics
<1> QED
  BY <1>1, ArguedInvariant, PTL

-----------------------------------------------------------------------------
(* The tally *)

\* Only targets are argued about, and what is tallied is the end of it.
Tallying ==
  /\ \A f \in Findings : task[f] # "idle" => f \in Targets
  /\ pc = "tallied" =>
       /\ \A f \in Targets : task[f] = "done"
       /\ \A f \in Findings : verification[f] \in Verdicts
       /\ \A v \in Verdicts :
            stats.of[v] = Cardinality({f \in Findings : verification[f] = v})
       /\ stats.sent = Cardinality(Targets)

\* A call to the critic happens before the tally, and moves no finding in or out of
\* the targets.
LEMMA StepTallying ==
  ASSUME Typed, Tallying, NEW f \in Findings, task[f] = "arguing",
         NEW v, NEW ends, Step(f, v, ends),
         UNCHANGED <<budget, claim, pc>>
  PROVE  Tallying'
<1>1. f \in Targets /\ pc # "tallied"
  BY DEF Tallying
<1>2. Targets' = Targets
  BY DEF Targets
<1>3. \A g \in Findings : task'[g] # "idle" => g \in Targets
  BY <1>1 DEF Typed, TypeOK, Tallying, Step
<1> QED
  BY <1>1, <1>2, <1>3 DEF Tallying

LEMMA TallyingNext == Typed /\ Tallying /\ [Next]_verifierVars => Tallying'
<1> SUFFICES ASSUME Typed, Tallying, [Next]_verifierVars
             PROVE  Tallying'
  OBVIOUS
<1>1. CASE FanOut
  <2>1. pc' = "arguing" /\ Targets' = Targets
    BY <1>1 DEF FanOut, Targets
  <2>2. \A f \in Findings : task'[f] # "idle" => f \in Targets
    BY <1>1 DEF FanOut, ToArgue
  <2> QED
    BY <2>1, <2>2 DEF Tallying
<1>2. CASE Tally
  <2>1. /\ Targets' = Targets /\ task' = task
        /\ \A f \in Targets : task[f] = "done"
    BY <1>2 DEF Tally, Targets, ToArgue
  <2>2. \A f \in Findings : verification'[f] \in Verdicts
    BY <1>2 DEF Typed, TypeOK, Tally, Unverified, Verdicts
  <2>3. /\ \A v \in Verdicts :
             stats'.of[v] = Cardinality({f \in Findings : verification'[f] = v})
        /\ stats'.sent = Cardinality(Targets)
    BY <1>2 DEF Tally
  <2> QED
    BY <2>1, <2>2, <2>3 DEF Tallying
<1>3. ASSUME NEW f \in Findings, Begin(f)
      PROVE  Tallying'
  <2>1. pc' # "tallied" /\ Targets' = Targets
    BY <1>3 DEF Begin, Targets
  <2>2. \A g \in Findings : task'[g] # "idle" => g \in Targets
    BY <1>3 DEF Typed, TypeOK, Tallying, Begin, Queued
  <2> QED
    BY <2>1, <2>2 DEF Tallying
<1>4. ASSUME NEW f \in Findings, CriticFails(f)
      PROVE  Tallying'
  BY <1>4, StepTallying DEF CriticFails
<1>5. ASSUME NEW f \in Findings, CriticRambles(f)
      PROVE  Tallying'
  BY <1>5, StepTallying DEF CriticRambles
<1>6. ASSUME NEW f \in Findings, CriticRules(f)
      PROVE  Tallying'
  BY <1>6, StepTallying DEF CriticRules
<1>7. CASE UNCHANGED verifierVars
  BY <1>7 DEF Tallying, Targets, verifierVars
<1> QED
  BY <1>1, <1>2, <1>3, <1>4, <1>5, <1>6, <1>7 DEF Next, Argue

\* The columns of a tally add up to what is tallied.
LEMMA Columns ==
  ASSUME NEW F, IsFiniteSet(F), NEW g, \A f \in F : g[f] \in Verdicts
  PROVE  Cardinality({f \in F : g[f] = "CONFIRMED"})
           + Cardinality({f \in F : g[f] = "WEAKENED"})
           + Cardinality({f \in F : g[f] = "REFUTED"})
           + Cardinality({f \in F : g[f] = "UNREACHABLE-CODE"})
           + Cardinality({f \in F : g[f] = "NOT-RUN"}) = Cardinality(F)
<1> DEFINE Column(v) == {f \in F : g[f] = v}
           two   == Column("CONFIRMED") \cup Column("WEAKENED")
           three == two \cup Column("REFUTED")
           four  == three \cup Column("UNREACHABLE-CODE")
           five  == four \cup Column("NOT-RUN")
<1>1. \A v : IsFiniteSet(Column(v)) /\ Cardinality(Column(v)) \in Nat
  BY FS_Subset, FS_CardinalityType
<1>2. ASSUME NEW S, NEW T, IsFiniteSet(S), IsFiniteSet(T), S \cap T = {}
      PROVE  /\ IsFiniteSet(S \cup T)
             /\ Cardinality(S \cup T) = Cardinality(S) + Cardinality(T)
             /\ Cardinality(S) \in Nat
  <2>1. Cardinality(S \cap T) = 0
    BY <1>2, FS_EmptySet
  <2>2. Cardinality(S) \in Nat /\ Cardinality(T) \in Nat
    BY <1>2, FS_CardinalityType
  <2>3. /\ IsFiniteSet(S \cup T)
        /\ Cardinality(S \cup T) = Cardinality(S) + Cardinality(T) - Cardinality(S \cap T)
    BY <1>2, FS_Union
  <2> QED
    BY <2>1, <2>2, <2>3
<1>3. /\ Column("CONFIRMED") \cap Column("WEAKENED") = {}
      /\ two \cap Column("REFUTED") = {}
      /\ three \cap Column("UNREACHABLE-CODE") = {}
      /\ four \cap Column("NOT-RUN") = {}
  OBVIOUS
<1>4. five = F
  BY DEF Verdicts
<1> HIDE DEF Column
<1>5. /\ IsFiniteSet(two)
      /\ Cardinality(two) = Cardinality(Column("CONFIRMED")) + Cardinality(Column("WEAKENED"))
  BY <1>1, <1>2, <1>3
<1> HIDE DEF two
<1>6. /\ IsFiniteSet(three)
      /\ Cardinality(three) = Cardinality(two) + Cardinality(Column("REFUTED"))
  BY <1>1, <1>2, <1>3, <1>5
<1> HIDE DEF three
<1>7. /\ IsFiniteSet(four)
      /\ Cardinality(four) = Cardinality(three) + Cardinality(Column("UNREACHABLE-CODE"))
  BY <1>1, <1>2, <1>3, <1>6
<1> HIDE DEF four
<1>8. Cardinality(five) = Cardinality(four) + Cardinality(Column("NOT-RUN"))
  BY <1>1, <1>2, <1>3, <1>7
<1>9. Cardinality(F) = Cardinality(Column("CONFIRMED")) + Cardinality(Column("WEAKENED"))
        + Cardinality(Column("REFUTED")) + Cardinality(Column("UNREACHABLE-CODE"))
        + Cardinality(Column("NOT-RUN"))
  BY <1>1, <1>4, <1>5, <1>6, <1>7, <1>8
<1> QED
  BY <1>9 DEF Column

\* The columns of the verification block add up to the findings, and the candidates
\* sent are the findings a critic was asked about.
THEOREM TallyComplete == Spec => []TallyAddsUp
<1>1. Init => Tallying
  BY DEF Init, Tallying
<1>2. Arguing /\ Tallying => TallyAddsUp
  <2> SUFFICES ASSUME Arguing, Tallying, pc = "tallied"
               PROVE  TallyAddsUp
    BY DEF TallyAddsUp
  <2>1. Targets = {f \in Findings : said[f] # <<>>}
    <3>1. Targets \subseteq Findings /\ \A f \in Targets : said[f] # <<>>
      BY DEF Arguing, Tallying, Targets
    <3>2. \A f \in Findings : said[f] # <<>> => f \in Targets
      BY DEF Arguing, Tallying
    <3> QED
      BY <3>1, <3>2
  <2>2. stats.sent = Cardinality({f \in Findings : said[f] # <<>>})
    BY <2>1 DEF Tallying
  <2>3. \A v \in Verdicts : stats.of[v] = Cardinality({f \in Findings : verification[f] = v})
    BY DEF Tallying
  <2>4. IsFiniteSet(Findings) /\ \A f \in Findings : verification[f] \in Verdicts
    BY VerifierAssumption DEF Tallying
  <2>5. Cardinality({f \in Findings : verification[f] = "CONFIRMED"})
           + Cardinality({f \in Findings : verification[f] = "WEAKENED"})
           + Cardinality({f \in Findings : verification[f] = "REFUTED"})
           + Cardinality({f \in Findings : verification[f] = "UNREACHABLE-CODE"})
           + Cardinality({f \in Findings : verification[f] = "NOT-RUN"})
         = Cardinality(Findings)
    BY <2>4, Columns
  <2>6. {"CONFIRMED", "WEAKENED", "REFUTED", "UNREACHABLE-CODE", "NOT-RUN"} = Verdicts
    BY DEF Verdicts
  <2> QED
    BY <2>2, <2>3, <2>5, <2>6 DEF TallyAddsUp
<1> QED
  BY <1>1, <1>2, TallyingNext, ArguedInvariant, PTL DEF Spec

-----------------------------------------------------------------------------
(* The bill *)

\* The bill is the number of answers.
Billing == IsFiniteSet(Answers) /\ billed = Cardinality(Answers)

\* What one more word of the critic over f adds to the answers.
LEMMA AnswersGrow ==
  ASSUME Typed, NEW f \in Findings, NEW w \in Utterances,
         said' = [said EXCEPT ![f] = Append(@, w)]
  PROVE  Answers' = IF w = "error" THEN Answers
                    ELSE Answers \cup {<<f, Len(said[f]) + 1>>}
<1> DEFINE n == Len(said[f])
           Of(words) == {i \in DOMAIN words : words[i] # "error"}
<1>1. DOMAIN said = Findings /\ said[f] \in Seq(Utterances)
  BY DEF Typed, TypeOK
<1>2. /\ DOMAIN Append(said[f], w) = 1..(n + 1) /\ n \in Nat /\ DOMAIN said[f] = 1..n
      /\ Append(said[f], w)[n + 1] = w
      /\ \A i \in 1..n : Append(said[f], w)[i] = said[f][i]
  BY <1>1
<1> HIDE DEF n
<1>3. Of(Append(said[f], w)) = IF w = "error" THEN Of(said[f]) ELSE Of(said[f]) \cup {n + 1}
  BY <1>2
<1>4. /\ said'[f] = Append(said[f], w)
      /\ \A g \in Findings : g # f => said'[g] = said[g]
  BY <1>1
<1>5. /\ Answers = UNION {{g} \X Of(said[g]) : g \in Findings}
      /\ Answers' = UNION {{g} \X Of(said'[g]) : g \in Findings}
  BY DEF Answers
<1> HIDE DEF Of
<1>6. CASE w = "error"
  <2>1. \A g \in Findings : Of(said'[g]) = Of(said[g])
    BY <1>3, <1>4, <1>6
  <2> QED
    BY <1>5, <1>6, <2>1
<1>7. CASE w # "error"
  <2>1. Of(said'[f]) = Of(said[f]) \cup {n + 1}
    BY <1>3, <1>4, <1>7
  <2>2. \A g \in Findings : g # f => Of(said'[g]) = Of(said[g])
    BY <1>4
  <2>3. Answers' = Answers \cup {<<f, n + 1>>}
    BY <1>5, <2>1, <2>2
  <2> QED
    BY <1>7, <2>3 DEF n
<1> QED
  BY <1>6, <1>7

LEMMA AnswerCounted ==
  ASSUME Typed, Billing, NEW f \in Findings, NEW w \in Utterances, w # "error",
         said' = [said EXCEPT ![f] = Append(@, w)], billed' = billed + 1
  PROVE  Billing'
<1> DEFINE new == <<f, Len(said[f]) + 1>>
<1>1. Answers' = Answers \cup {new}
  BY AnswersGrow
<1>2. new \notin Answers
  <2>1. said[f] \in Seq(Utterances)
    BY DEF Typed, TypeOK
  <2>2. Len(said[f]) + 1 \notin DOMAIN said[f]
    BY <2>1
  <2> QED
    BY <2>2 DEF Answers
<1> HIDE DEF new
<1>3. /\ IsFiniteSet(Answers \cup {new})
      /\ Cardinality(Answers \cup {new}) = Cardinality(Answers) + 1
  BY <1>2, FS_AddElement DEF Billing
<1> QED
  BY <1>1, <1>3 DEF Billing

LEMMA BillingNext == Typed /\ Billing /\ [Next]_verifierVars => Billing'
<1> SUFFICES ASSUME Typed, Billing, [Next]_verifierVars
             PROVE  Billing'
  OBVIOUS
<1>1. ASSUME UNCHANGED <<said, billed>>
      PROVE  Billing'
  BY <1>1 DEF Billing, Answers
<1>2. CASE FanOut
  BY <1>1, <1>2 DEF FanOut
<1>3. CASE Tally
  BY <1>1, <1>3 DEF Tally
<1>4. ASSUME NEW f \in Findings, Begin(f)
      PROVE  Billing'
  BY <1>1, <1>4 DEF Begin
<1>5. ASSUME NEW f \in Findings, CriticFails(f)
      PROVE  Billing'
  <2>1. said' = [said EXCEPT ![f] = Append(@, "error")] /\ billed' = billed
    BY <1>5 DEF CriticFails
  <2>2. Answers' = Answers
    BY <2>1, AnswersGrow DEF Utterances
  <2> QED
    BY <2>1, <2>2 DEF Billing
<1>6. ASSUME NEW f \in Findings, CriticRambles(f)
      PROVE  Billing'
  BY <1>6, AnswerCounted DEF CriticRambles, CompletionCost, Utterances
<1>7. ASSUME NEW f \in Findings, CriticRules(f)
      PROVE  Billing'
  <2>1. PICK w \in Verdicts : said' = [said EXCEPT ![f] = Append(@, w)]
    BY <1>7 DEF CriticRules
  <2>2. w \in Utterances /\ w # "error" /\ billed' = billed + 1
    BY <1>7 DEF CriticRules, Utterances, Verdicts
  <2> QED
    BY <2>1, <2>2, AnswerCounted
<1>8. CASE UNCHANGED verifierVars
  BY <1>1, <1>8 DEF verifierVars
<1> QED
  BY <1>2, <1>3, <1>4, <1>5, <1>6, <1>7, <1>8 DEF Next, Argue

\* Whatever the critic answered, prose included, is in the usage, and nothing else.
THEOREM BillComplete == Spec => []UsageCounted
<1>1. Init => Billing
  <2>1. ASSUME Init
        PROVE  Answers = {}
    BY <2>1 DEF Init, Answers
  <2> QED
    BY <2>1, FS_EmptySet DEF Init, Billing
<1>2. Billing => UsageCounted
  BY DEF Billing, UsageCounted
<1> QED
  BY <1>1, <1>2, BillingNext, ArguedInvariant, PTL DEF Spec

\* The rounds of an argument are the critic's words in it, and no more than the
\* budget pays for.
Rounds ==
  \A f \in Findings :
    Len(said[f]) = local[f].iterations /\ local[f].iterations <= VerifyIterations(budget)

\* One more word, one more round.
LEMMA StepRounds ==
  ASSUME Typed, Rounds, NEW f \in Findings, task[f] = "arguing",
         NEW v, NEW ends, Step(f, v, ends), v.iterations = Round(f),
         NEW w \in Utterances, said' = [said EXCEPT ![f] = Append(@, w)],
         budget' = budget
  PROVE  Rounds'
<1>1. /\ DOMAIN local = Findings /\ DOMAIN said = Findings /\ said[f] \in Seq(Utterances)
      /\ local[f].iterations \in Nat /\ local[f].iterations < VerifyIterations(budget)
  <2>1. /\ DOMAIN local = Findings /\ DOMAIN said = Findings /\ said[f] \in Seq(Utterances)
        /\ local[f].iterations \in 0..3
    BY DEF Typed, TypeOK
  <2>2. local[f].iterations < VerifyIterations(budget)
    BY DEF Typed, RoundsLeft
  <2> QED
    BY <2>1, <2>2
<1>2. \A g \in Findings \ {f} : local'[g] = local[g] /\ said'[g] = said[g]
  BY <1>1 DEF Step
<1>3. local'[f] = v /\ said'[f] = Append(said[f], w)
  BY <1>1 DEF Step
<1>4. Len(said'[f]) = Len(said[f]) + 1 /\ Len(said[f]) = local[f].iterations
  BY <1>1, <1>3 DEF Rounds
<1>5. VerifyIterations(budget) \in Nat
  BY IterationsBound
<1>6. local'[f].iterations = local[f].iterations + 1
  BY <1>3 DEF Round
<1>7. local[f].iterations + 1 <= VerifyIterations(budget)
  BY <1>1, <1>5
<1> QED
  BY <1>2, <1>4, <1>6, <1>7 DEF Rounds

LEMMA RoundsNext == Typed /\ Rounds /\ [Next]_verifierVars => Rounds'
<1> SUFFICES ASSUME Typed, Rounds, [Next]_verifierVars
             PROVE  Rounds'
  OBVIOUS
<1>1. ASSUME UNCHANGED <<said, local, budget>>
      PROVE  Rounds'
  BY <1>1 DEF Rounds
<1>2. CASE FanOut \/ Tally \/ (\E f \in Findings : Begin(f)) \/ UNCHANGED verifierVars
  BY <1>1, <1>2 DEF FanOut, Tally, Begin, verifierVars
<1>3. ASSUME NEW f \in Findings, CriticFails(f)
      PROVE  Rounds'
  <2>1. OnError(f).iterations = Round(f)
    BY DEF OnError
  <2> QED
    BY <1>3, <2>1, StepRounds DEF CriticFails, Utterances
<1>4. ASSUME NEW f \in Findings, CriticRambles(f)
      PROVE  Rounds'
  <2>1. [local[f] EXCEPT !.iterations = Round(f)].iterations = Round(f)
    BY DEF Typed, TypeOK
  <2> QED
    BY <1>4, <2>1, StepRounds DEF CriticRambles, Utterances
<1>5. ASSUME NEW f \in Findings, CriticRules(f)
      PROVE  Rounds'
  <2>1. PICK w \in Verdicts :
          /\ Step(f, [verdict |-> w, iterations |-> Round(f)],
                  w \in Terminal \/ LastRound(f))
          /\ said' = [said EXCEPT ![f] = Append(@, w)]
    BY <1>5 DEF CriticRules
  <2> QED
    BY <1>5, <2>1, StepRounds DEF CriticRules, Utterances
<1> QED
  BY <1>2, <1>3, <1>4, <1>5 DEF Next, Argue

\* What a verification can cost: for each finding sent to the critic as many
\* completions as its budget has rounds, and nothing for any other.
WithinBudget ==
  /\ billed <= Cardinality(Targets) * VerifyIterations(budget)
  /\ \A f \in Findings \ Targets : said[f] = <<>>

LEMMA BillWithinBudget ==
  ASSUME Typed, Arguing, Tallying, Billing, Rounds
  PROVE  WithinBudget
<1> DEFINE top == VerifyIterations(budget)
<1>1. top \in Nat
  BY IterationsBound
<1>2. ASSUME NEW f \in Findings
      PROVE  /\ said[f] \in Seq(Utterances) /\ Len(said[f]) <= top
             /\ f \notin Targets => said[f] = <<>>
  <2>1. said[f] \in Seq(Utterances) /\ Len(said[f]) <= top
    BY DEF Typed, TypeOK, Rounds
  <2>2. f \notin Targets => task[f] = "idle"
    BY DEF Tallying
  <2> QED
    BY <2>1, <2>2 DEF Arguing
<1> HIDE DEF top
<1>3. Answers \subseteq Targets \X (1..top)
  <2> SUFFICES ASSUME NEW f \in Findings, NEW i \in DOMAIN said[f]
               PROVE  f \in Targets /\ i \in 1..top
    BY DEF Answers
  <2>1. said[f] \in Seq(Utterances) /\ Len(said[f]) \in Nat /\ i \in 1..Len(said[f])
    BY <1>2
  <2>2. said[f] # <<>>
    BY <2>1
  <2> QED
    BY <1>1, <1>2, <2>1, <2>2
<1>4. IsFiniteSet(1..top) /\ Cardinality(1..top) = top
  BY <1>1, FS_Interval
<1>5. /\ IsFiniteSet(Targets \X (1..top))
      /\ Cardinality(Targets \X (1..top)) = Cardinality(Targets) * top
  BY <1>4, TargetsFinite, FS_Product
<1>6. Cardinality(Answers) <= Cardinality(Targets) * top
  BY <1>3, <1>5, FS_Subset
<1> QED
  BY <1>2, <1>6 DEF WithinBudget, Billing, top

\* The verifier never costs more than its budget allows, whatever the critic says
\* and however often it fails.  (verify_iterations of BUDGETS, in verify_one)
THEOREM CostCeiling == Spec => []WithinBudget
<1>1. Init => Tallying /\ Billing /\ Rounds
  <2> SUFFICES ASSUME Init PROVE Tallying /\ Billing /\ Rounds
    OBVIOUS
  <2>1. Answers = {} /\ \A f \in Findings : Len(said[f]) = 0
    BY DEF Init, Answers
  <2>2. VerifyIterations(budget) \in 1..3
    BY IterationsBound
  <2> QED
    BY <2>1, <2>2, FS_EmptySet DEF Init, Tallying, Billing, Rounds, NotRun
<1>2. Typed /\ Arguing /\ Tallying /\ Billing /\ Rounds => WithinBudget
  BY BillWithinBudget
<1> QED
  BY <1>1, <1>2, TallyingNext, BillingNext, RoundsNext, ArguedInvariant, PTL DEF Spec

-----------------------------------------------------------------------------
(* The semaphore and the gather: nobody is stuck *)

\* No more critics are asked at once than there are permits.
Permitted == Cardinality(Holding) <= Concurrency

LEMMA PermittedNext == Typed /\ Permitted /\ [Next]_verifierVars => Permitted'
<1> SUFFICES ASSUME Typed, Permitted, [Next]_verifierVars
             PROVE  Permitted'
  OBVIOUS
<1>1. IsFiniteSet(Holding) /\ Cardinality(Holding) \in Nat /\ Concurrency \in Nat
  BY VerifierAssumption, FS_Subset, FS_CardinalityType DEF Holding
<1>2. IsFiniteSet(Holding') /\ Cardinality(Holding') \in Nat
  BY VerifierAssumption, FS_Subset, FS_CardinalityType DEF Holding
<1>3. ASSUME Holding' \subseteq Holding
      PROVE  Permitted'
  <2>1. Cardinality(Holding') <= Cardinality(Holding)
    BY <1>1, <1>3, FS_Subset
  <2> QED
    BY <1>1, <1>2, <2>1 DEF Permitted
<1>4. CASE FanOut \/ Tally \/ UNCHANGED verifierVars
  BY <1>3, <1>4 DEF FanOut, Tally, verifierVars, Holding
<1>5. ASSUME NEW f \in Findings, Begin(f)
      PROVE  Permitted'
  <2>1. Cardinality(Holding) < Concurrency
    BY <1>5 DEF Begin
  <2>2. Holding' = Holding \cup {f}
    BY <1>5 DEF Begin, Holding, Typed, TypeOK
  <2>3. Cardinality(Holding \cup {f}) <= Cardinality(Holding) + 1
    <3>1. \/ Cardinality(Holding \cup {f}) = Cardinality(Holding)
          \/ Cardinality(Holding \cup {f}) = Cardinality(Holding) + 1
      BY <1>1, FS_AddElement
    <3> QED
      BY <1>1, <3>1
  <2> QED
    BY <1>1, <1>2, <2>1, <2>2, <2>3 DEF Permitted
<1>6. ASSUME NEW f \in Findings, CriticFails(f) \/ CriticRambles(f) \/ CriticRules(f)
      PROVE  Permitted'
  <2>1. task[f] = "arguing" /\ \A g \in Findings \ {f} : task'[g] = task[g]
    BY <1>6 DEF CriticFails, CriticRambles, CriticRules, Step, Typed, TypeOK
  <2> QED
    BY <1>3, <2>1 DEF Holding
<1> QED
  BY <1>4, <1>5, <1>6 DEF Next, Argue

\* The verifier asks no more critics at once than the semaphore has permits.
THEOREM CriticsBounded == Spec => []Permitted
<1>1. Init => Permitted
  <2> SUFFICES ASSUME Init PROVE Permitted
    OBVIOUS
  <2>1. Holding = {}
    BY DEF Init, Holding
  <2> QED
    BY <2>1, FS_EmptySet, VerifierAssumption DEF Permitted
<1> QED
  BY <1>1, PermittedNext, VerifierTypeCorrect, PTL DEF Spec, Typed

\* Until every finding sent is done, one is argued about or is next for a permit.
PhaseGoesOn ==
  pc = "arguing" /\ (\E f \in ToArgue : task[f] # "done") =>
    \E f \in Findings :
      \/ task[f] = "arguing"
      \/ f \in Queued /\ (\A g \in Queued : f <= g) /\ Cardinality(Holding) < Concurrency

\* There is a task for each finding that is sent.
Sent == pc = "arguing" => \A f \in Targets : task[f] # "idle"

LEMMA SentNext == Typed /\ Sent /\ [Next]_verifierVars => Sent'
<1> SUFFICES ASSUME Typed, Sent, [Next]_verifierVars
             PROVE  Sent'
  OBVIOUS
<1>1. Targets' = Targets /\ Targets \subseteq Findings
  BY DEF Next, FanOut, Tally, Argue, Begin, CriticFails, CriticRambles, CriticRules,
         verifierVars, Targets
<1>2. CASE FanOut
  BY <1>1, <1>2 DEF FanOut, ToArgue, Sent
<1>3. CASE Tally \/ UNCHANGED verifierVars
  BY <1>1, <1>3 DEF Tally, verifierVars, Sent
<1>4. ASSUME NEW f \in Findings, Argue(f)
      PROVE  Sent'
  <2>1. pc' = pc
    BY <1>4 DEF Argue, Begin, CriticFails, CriticRambles, CriticRules
  <2>2. \A g \in Findings : task[g] # "idle" => task'[g] # "idle"
    BY <1>4 DEF Argue, Begin, CriticFails, CriticRambles, CriticRules, Step, Typed, TypeOK
  <2> QED
    BY <1>1, <2>1, <2>2 DEF Sent
<1> QED
  BY <1>2, <1>3, <1>4 DEF Next

LEMMA SentGoesOn ==
  ASSUME Typed, Sent
  PROVE  PhaseGoesOn
<1> SUFFICES ASSUME pc = "arguing", NEW e \in Targets, task[e] # "done",
                    \A f \in Findings : task[f] # "arguing"
             PROVE  \E f \in Queued : /\ \A g \in Queued : f <= g
                                     /\ Cardinality(Holding) < Concurrency
  BY DEF PhaseGoesOn, ToArgue, Queued
<1>1. e \in Queued
  BY DEF Sent, Typed, TypeOK, Targets, Queued
<1>2. Queued \in SUBSET Nat
  BY VerifierAssumption DEF Queued
<1>3. PICK f \in Queued : \A g \in Queued : f <= g
  BY <1>1, <1>2, LeastNumber
<1>4. Holding = {}
  BY DEF Holding
<1>5. Cardinality(Holding) < Concurrency
  BY <1>4, FS_EmptySet, VerifierAssumption
<1> QED
  BY <1>3, <1>5

\* No finding waits for a permit that nobody will give back, and the gather waits
\* for no argument that will not end.  (the semaphore and the gather of verify_all)
THEOREM NoArgumentIsStuck == Spec => []PhaseGoesOn
<1>1. Init => Sent
  BY DEF Init, Sent
<1>2. Typed /\ Sent => PhaseGoesOn
  BY SentGoesOn
<1> QED
  BY <1>1, <1>2, SentNext, VerifierTypeCorrect, PTL DEF Spec, Typed
=============================================================================
