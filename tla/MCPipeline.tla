----------------------------- MODULE MCPipeline -----------------------------
(***************************************************************************)
(* A pool of findings in which every branch of the reduction, the gates    *)
(* and the scorer is taken: two places, synonyms and unrelated classes,    *)
(* findings, leads, a gap and notes, each verdict, records that one of the *)
(* two halves does not admit, and proofs whose JSON orders them otherwise. *)
(***************************************************************************)
EXTENDS Pipeline

Guard == [label |-> "restrict", lines |-> <<"modifier">>, summary |-> "guard it"]
Ban == [label |-> "ban-path", lines |-> <<>>, summary |-> "forbid it"]
Alternative == [label |-> "restrict", lines |-> <<"comment", "require">>, summary |-> "guard it"]

P == <<"V", "p">>
Q == <<"W", "q">>

Strong(agent, place, bug, verdict) ==
  [agent |-> agent, place |-> place, bug |-> bug, kind |-> "FINDING",
   claim |-> Critical, proof |-> "counterexample", length |-> 40, jsonLength |-> 90,
   poc |-> "passing", pocLength |-> 80, verdict |-> verdict, axes |-> {"theft"},
   da |-> {}, survives |-> TRUE, said |-> {"attacker"}, root |-> {},
   fixes |-> {Guard}, keyed |-> TRUE, owned |-> FALSE]

Weak(agent, place, bug, axes, said, root) ==
  [Strong(agent, place, bug, "CONFIRMED") EXCEPT
     !.claim = High, !.proof = "quoted-code", !.length = 20, !.jsonLength = 67,
     !.poc = "sketch", !.axes = axes, !.said = said, !.root = root,
     !.fixes = {Ban, Alternative}]

Hint(agent, place, bug, da) ==
  [Strong(agent, place, bug, "NOT-RUN") EXCEPT
     !.kind = "LEAD", !.claim = Low, !.proof = "none", !.length = 0, !.jsonLength = 2,
     !.poc = "none", !.pocLength = 2, !.axes = {}, !.da = da, !.survives = da = {},
     !.said = {}, !.root = {"admin"}, !.fixes = {Alternative}]

Note(agent, place, axes) ==
  [Hint(agent, place, "note", {}) EXCEPT !.kind = "COVERAGE_NOTE", !.axes = axes]

SamplePool ==
  {Strong("a", P, "reentrancy", v) : v \in VerdictKinds \ {"UNREACHABLE-CODE"}}
    \cup {Strong("b", P, "read-only-reentrancy", "UNREACHABLE-CODE"),
          Strong("a", Q, "reentrancy", "CONFIRMED"),
          Weak("b", P, "reentrancy", {"liveness"}, {"admin"}, {"amplifier"}),
          Weak("c", P, "dos", {"provenance"}, {"gas-only"}, {}),
          Weak("b", P, "unbounded-loop", {"liveness"}, {"attacker"}, {}),
          Weak("b", P, "unchecked-call", {"theft"}, {"attacker"}, {}),
          Weak("b", Q, "reentrancy", {"identity"}, {}, {"trust"}),
          Weak("b", Q, "dos", {"boundary"}, {"admin"}, {"self-harm"}),
          [Weak("a", Q, "dos", {"liveness"}, {"attacker"}, {})
             EXCEPT !.proof = "state-sequence", !.verdict = "NOT-RUN", !.jsonLength = 70],
          [Weak("c", Q, "dos", {"accounting"}, {"attacker"}, {})
             EXCEPT !.owned = TRUE],
          [Weak("c", P, "reentrancy", {"accounting"}, {"attacker"}, {})
             EXCEPT !.proof = "other"],
          Hint("b", P, "dos", {"access", "guards"}),
          Hint("c", Q, "dos", {"by_design"}),
          [Hint("a", Q, "dos", {"economic"}) EXCEPT !.keyed = FALSE],
          [Strong("c", P, "reentrancy", "NOT-RUN") EXCEPT
             !.length = 50, !.jsonLength = 88, !.poc = "compiled", !.proof = "state-sequence"],
          [Hint("a", P, "dos", {}) EXCEPT !.kind = "AXISGAP", !.axes = {"identity"}],
          Note("c", P, Axes), Note("a", Q, {"accounting", "liveness"})}

Function(name, exposed, signs) == [name |-> name, exposed |-> exposed, signs |-> signs]

\* p is hot enough for all six axes and q for the default three; of the others
\* one cannot change state, and one is guarded and not among the first two.
SampleSources ==
  << [stem |-> "W", contracts |-> <<>>,                      \* free functions
      functions |-> <<Function("q", TRUE, {"writes mapping"})>>],
     [stem |-> "V", contracts |-> <<"V", "Helper">>,
      functions |-> <<Function("quote", FALSE, {}), Function("p", TRUE, {"moves value"}),
                      Function("set", TRUE, {"guard"})>>] >>

SampleTruth ==
  {[place |-> P, bug |-> "cross-function-reentrancy"], [place |-> P, bug |-> "griefing"],
   [place |-> P, bug |-> "unchecked-return"]}
=============================================================================
