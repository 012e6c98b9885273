---------------------------- MODULE RouterProofs ----------------------------
(***************************************************************************)
(* Theorems about Router and Intake: what the cap may drop, for every      *)
(* system map, and which lanes a source fires, for every source.           *)
(***************************************************************************)
EXTENDS Intake, Orders

\* The roster, once built, is what the cap leaves of the triggered lanes.
FromReasons ==
  /\ budgetOf \in Budgets /\ smap.evidence \subseteq EvidenceFields
  /\ \/ roster = {} /\ skipped = {}
     \/ /\ roster = Kept(Reasons(smap, budgetOf), Cap(budgetOf))
        /\ skipped = Skipped(Reasons(smap, budgetOf), Cap(budgetOf))

\* What a run of build_roster leaves behind is determined by its map and budget.
THEOREM RosterFromReasons == Spec => []FromReasons
<1>1. Init => FromReasons
  BY MapsAssumption DEF Init, FromReasons, SystemMap
<1>2. FromReasons /\ [BuildRoster]_routerVars => FromReasons'
  BY DEF FromReasons, BuildRoster, routerVars
<1> QED
  BY <1>1, <1>2, PTL DEF Spec

-----------------------------------------------------------------------------
(* The triggered lanes *)

LEMMA ReasonsDomain ==
  ASSUME NEW m, NEW b
  PROVE  DOMAIN Reasons(m, b) = Triggered(m, b)
BY DEF Reasons, Triggered

LEMMA TriggeredFinite ==
  ASSUME NEW m, NEW b
  PROVE  IsFiniteSet(Triggered(m, b))
<1>1. PICK n \in Nat : DOMAIN Rules = 1..n
  BY DEF Rules
<1>2. IsFiniteSet(1..n)
  BY FS_Interval
<1>3. IsFiniteSet(Fired(m, b))
  <2>1. Fired(m, b) \in SUBSET (1..n)
    BY <1>1, Zenon DEF Fired
  <2> QED
    BY <1>2, <2>1, FS_Subset
<1> DEFINE lane == [i \in Fired(m, b) |-> Rules[i][2]]
<1>4. lane \in Surjection(Fired(m, b), Triggered(m, b))
  BY DEF Surjection, Triggered
<1> QED
  BY <1>3, <1>4, FS_Surjection DEF ExistsSurjection

LEMMA CoreTriggered ==
  ASSUME NEW m, NEW b
  PROVE  CoreIds \subseteq Triggered(m, b)
<1>1. /\ 1..6 \subseteq DOMAIN Rules
      /\ \A i \in 1..6 : Rules[i][1] = "always"
      /\ CoreIds = {Rules[i][2] : i \in 1..6}
  BY DEF Rules, CoreIds
<1>2. 1..6 \subseteq Fired(m, b)
  BY <1>1 DEF Fired, Facts
<1> QED
  BY <1>1, <1>2 DEF Triggered

-----------------------------------------------------------------------------
(* The cap *)

LEMMA KeptIsTriggered ==
  ASSUME NEW reasons, NEW cap
  PROVE  /\ Kept(reasons, cap) \subseteq DOMAIN reasons
         /\ CoreIds \cap DOMAIN reasons \subseteq Kept(reasons, cap)
BY DEF Kept, Core, Survivors, Rest

LEMMA RankIsNumber ==
  ASSUME NEW a
  PROVE  DropRank(Role(a)) \in 0..4
<1>1. Role(a) \in {"lane", "gap", "proof", "platform", "domain"}
  BY DEF Role
<1> QED
  BY <1>1 DEF DropRank

\* Whoever is in front of a lane is in front of every lane of lower rank.
LEMMA AheadGrows ==
  ASSUME NEW reasons, NEW a, NEW b, DropRank(Role(a)) < DropRank(Role(b))
  PROVE  Ahead(b, reasons) \subseteq Ahead(a, reasons)
BY RankIsNumber DEF Ahead, Outranks

LEMMA SurvivorsOutrank ==
  ASSUME NEW reasons, IsFiniteSet(DOMAIN reasons), NEW cap \in Nat,
         NEW a \in Kept(reasons, cap) \ CoreIds, NEW b \in Skipped(reasons, cap)
  PROVE  DropRank(Role(a)) >= DropRank(Role(b))
<1> SUFFICES ASSUME DropRank(Role(a)) < DropRank(Role(b))
             PROVE  FALSE
  BY RankIsNumber
<1>1. Kept(reasons, cap) = Core(reasons) \cup Survivors(reasons, cap)
  BY DEF Kept, Skipped
<1>2. a \in Survivors(reasons, cap) /\ b \in Rest(reasons)
      /\ b \notin Survivors(reasons, cap)
  BY <1>1 DEF Core, Rest, Skipped
<1>3. IsFiniteSet(Ahead(a, reasons)) /\ IsFiniteSet(Core(reasons))
  BY FS_Subset DEF Ahead, Rest, Core
<1>4. /\ Cardinality(Ahead(b, reasons)) <= Cardinality(Ahead(a, reasons))
      /\ Cardinality(Ahead(a, reasons)) \in Nat /\ Cardinality(Ahead(b, reasons)) \in Nat
  BY <1>3, AheadGrows, FS_Subset, FS_CardinalityType
<1>5. Room(reasons, cap) \in Int
  BY <1>3, FS_CardinalityType DEF Room
<1> QED
  BY <1>2, <1>4, <1>5 DEF Survivors

-----------------------------------------------------------------------------
(* The code's table and the document's *)

\* The document's table, with the two departures of the code.
Routed == (RoutingTable \ LeftOut) \cup AddedOn

LEMMA RulesAreRouted ==
  ASSUME NEW i \in 7..39
  PROVE  Rules[i] \in Routed
<1>1. \/ i \in 7..12 \/ i \in 13..18 \/ i \in 19..24
      \/ i \in 25..30 \/ i \in 31..34 \/ i \in 35..39
  OBVIOUS
<1>2. CASE i \in 7..12
  BY <1>2 DEF Routed, RoutingTable, LeftOut, AddedOn, Rules
<1>3. CASE i \in 13..18
  BY <1>3 DEF Routed, RoutingTable, LeftOut, AddedOn, Rules
<1>4. CASE i \in 19..24
  BY <1>4 DEF Routed, RoutingTable, LeftOut, AddedOn, Rules
<1>5. CASE i \in 25..30
  BY <1>5 DEF Routed, RoutingTable, LeftOut, AddedOn, Rules
<1>6. CASE i \in 31..34
  BY <1>6 DEF Routed, RoutingTable, LeftOut, AddedOn, Rules
<1>7. CASE i \in 35..39
  BY <1>7 DEF Routed, RoutingTable, LeftOut, AddedOn, Rules
<1> QED
  BY <1>1, <1>2, <1>3, <1>4, <1>5, <1>6, <1>7

LEMMA RoutedAreRules ==
  ASSUME NEW p \in Routed
  PROVE  \E i \in 7..39 : Rules[i] = p
<1>1. p \in RoutingTable \/ p = Rules[14]
  BY DEF Routed, AddedOn, Rules
<1>2. p \notin LeftOut
  BY DEF Routed, RoutingTable, LeftOut, AddedOn
<1>3. CASE \/ p \in {"has_oracle"} \X {"oracle-expert", "signature-trust"}
          \/ p \in {"has_lending"} \X {"lending-expert", "economic-security"}
          \/ p \in {"has_vault", "has_async_request_lifecycle"}
                   \X {"yield-strategist", "numerical-gap"}
  BY <1>2, <1>3 DEF LeftOut, Rules
<1>4. CASE \/ p \in {"has_amm"} \X {"economic-security", "asymmetry", "periphery"}
          \/ p \in {"has_hooks"} \X {"hook-ordering", "flow-gap"}
          \/ p \in {"has_signatures"} \X {"signature-trust", "signature-gap"}
  BY <1>2, <1>4 DEF LeftOut, Rules
<1>5. CASE \/ p \in {"erc_surfaces"} \X {"erc-implementer"}
          \/ p \in {"eip_surfaces"} \X {"eip-expert"}
          \/ p \in {"has_delegatecall", "has_proxy_or_upgrade"} \X {"proxy-upgrade"}
          \/ p \in {"has_account_abstraction", "EIP7702"} \X {"account-abstraction"}
  BY <1>2, <1>5 DEF LeftOut, Rules
<1>6. CASE \/ p \in {"has_transient_storage", "EIP1153"} \X {"transient-storage"}
          \/ p \in {"has_crosschain"} \X {"crosschain-l2"}
          \/ p \in {"has_tokenomics"} \X {"tokenomics-analyst"}
          \/ p \in {"has_governance_timelock"} \X {"trust-gap"}
  BY <1>2, <1>6 DEF LeftOut, Rules
<1>7. CASE p \in {"has_fixed_point", "has_fee_math"} \X {"numerical-gap", "asymmetry"}
  BY <1>2, <1>7 DEF LeftOut, Rules
<1>8. CASE \/ p \in {"has_assembly"} \X {"boundary", "proxy-upgrade"}
          \/ p \in {"has_nft_identity"} \X {"trust-gap", "erc-implementer"}
  BY <1>2, <1>8 DEF LeftOut, Rules
<1> QED
  BY <1>1, <1>3, <1>4, <1>5, <1>6, <1>7, <1>8 DEF RoutingTable

\* Of the evidence fields, those that are set are facts; and which of the other
\* facts hold.
LEMMA FactsAre ==
  ASSUME NEW m, NEW b, m.evidence \subseteq EvidenceFields
  PROVE  /\ \A f \in EvidenceFields : f \in Facts(m, b) <=> f \in m.evidence
         /\ "numeric-seam" \in Facts(m, b) <=> Cardinality(m.evidence \cap
              {"has_fixed_point", "has_fee_math", "has_vault", "has_amm"}) >= 2
         /\ "semi-trusted" \in Facts(m, b) <=> m.semitrusted >= 1
         /\ "signature-seam" \in Facts(m, b) <=> "has_signatures" \in m.evidence
              /\ ("has_oracle" \in m.evidence \/ "has_crosschain" \in m.evidence)
         /\ "enough-invariants" \in Facts(m, b) <=> m.invariants >= 3
         /\ "fuzzable" \in Facts(m, b) <=> b \in {"deep", "exhaustive"} /\ m.compiles
         /\ "formal" \in Facts(m, b) <=> (b = "exhaustive" \/ (b = "deep"
              /\ ("has_lending" \in m.evidence \/ "has_vault" \in m.evidence)))
<1>1. /\ EvidenceFields \cap {"always", "numeric-seam", "semi-trusted", "signature-seam",
                              "enough-invariants", "fuzzable", "formal"} = {}
      /\ Seams(m) \subseteq {"numeric-seam", "semi-trusted", "signature-seam"}
      /\ Tooling(m, b) \subseteq {"enough-invariants", "fuzzable", "formal"}
  BY DEF EvidenceFields, Seams, Tooling
<1>2. \A f \in EvidenceFields : f \in Facts(m, b) <=> f \in m.evidence
  BY <1>1 DEF Facts
<1>3. /\ \A f \in {"numeric-seam", "semi-trusted", "signature-seam"} :
           f \in Facts(m, b) <=> f \in Seams(m)
      /\ \A f \in {"enough-invariants", "fuzzable", "formal"} :
           f \in Facts(m, b) <=> f \in Tooling(m, b)
  BY <1>1 DEF Facts
<1>4. "numeric-seam" \in Seams(m) <=> Cardinality(m.evidence \cap
        {"has_fixed_point", "has_fee_math", "has_vault", "has_amm"}) >= 2
  BY DEF Seams
<1>5. /\ "semi-trusted" \in Seams(m) <=> m.semitrusted >= 1
      /\ "signature-seam" \in Seams(m) <=> "has_signatures" \in m.evidence
           /\ ("has_oracle" \in m.evidence \/ "has_crosschain" \in m.evidence)
  BY DEF Seams
<1>6. /\ "enough-invariants" \in Tooling(m, b) <=> m.invariants >= 3
      /\ "fuzzable" \in Tooling(m, b) <=> b \in {"deep", "exhaustive"} /\ m.compiles
      /\ "formal" \in Tooling(m, b) <=> (b = "exhaustive" \/ (b = "deep"
              /\ ("has_lending" \in m.evidence \/ "has_vault" \in m.evidence)))
  BY DEF Tooling
<1> QED
  BY <1>2, <1>3, <1>4, <1>5, <1>6

\* The calls of add() for gap-hunters and proof tooling.
LEMMA LastRules ==
  /\ 40..46 \subseteq DOMAIN Rules
  /\ Rules[40] = <<"numeric-seam", "numerical-gap">>
  /\ Rules[41] = <<"has_hooks", "flow-gap">>
  /\ Rules[42] = <<"semi-trusted", "trust-gap">>
  /\ Rules[43] = <<"signature-seam", "signature-gap">>
  /\ Rules[44] = <<"enough-invariants", "invariant-tester">>
  /\ Rules[45] = <<"fuzzable", "fuzzer">>
  /\ Rules[46] = <<"formal", "formal-verifier">>
BY DEF Rules

LEMMA TriggeredIsPromised ==
  ASSUME NEW m, NEW b, m.evidence \subseteq EvidenceFields
  PROVE  Triggered(m, b) = Promised(Routed, m, b)
<1>1. ASSUME NEW i \in Fired(m, b)
      PROVE  Rules[i][2] \in Promised(Routed, m, b)
  <2>1. i \in 1..46 /\ Rules[i][1] \in Facts(m, b)
    BY <1>1 DEF Fired, Rules
  <2>2. CASE i \in 1..6
    BY <2>2 DEF Rules, Promised
  <2>3. CASE i \in 7..39
    <3>1. Rules[i][1] \in EvidenceFields
      BY <2>3 DEF Rules, EvidenceFields
    <3>2. Rules[i][1] \in m.evidence /\ Rules[i] \in Routed
      BY <2>1, <2>3, <3>1, FactsAre, RulesAreRouted
    <3> QED
      BY <3>2 DEF Promised
  <2>4. CASE i \in 40..43
    <3>1. \/ Rules[i][1] = "numeric-seam" /\ Rules[i][2] = "numerical-gap"
          \/ Rules[i][1] = "semi-trusted" /\ Rules[i][2] = "trust-gap"
          \/ Rules[i][1] = "signature-seam" /\ Rules[i][2] = "signature-gap"
          \/ Rules[i][1] = "has_hooks" /\ Rules[i][2] = "flow-gap"
      <4>1. i \in {40, 41, 42, 43}
        BY <2>4
      <4> QED
        BY <4>1, LastRules
    <3>2. "has_hooks" \in EvidenceFields
      BY DEF EvidenceFields
    <3>3. \/ Rules[i][2] = "numerical-gap" /\ "numeric-seam" \in Facts(m, b)
          \/ Rules[i][2] = "trust-gap" /\ "semi-trusted" \in Facts(m, b)
          \/ Rules[i][2] = "signature-gap" /\ "signature-seam" \in Facts(m, b)
          \/ Rules[i][2] = "flow-gap" /\ "has_hooks" \in m.evidence
      BY <2>1, <3>1, <3>2, FactsAre
    <3> HIDE DEF Routed
    <3> QED
      BY <3>3, FactsAre DEF Promised
  <2>5. CASE i \in 44..46
    <3>1. Rules[i] \in {<<"enough-invariants", "invariant-tester">>, <<"fuzzable", "fuzzer">>,
                        <<"formal", "formal-verifier">>}
      <4>1. i \in {44, 45, 46}
        BY <2>5
      <4> QED
        BY <4>1, LastRules
    <3> QED
      BY <2>1, <3>1, FactsAre DEF Promised
  <2> QED
    BY <2>1, <2>2, <2>3, <2>4, <2>5
<1>2. ASSUME NEW a \in Promised(Routed, m, b)
      PROVE  \E i \in Fired(m, b) : Rules[i][2] = a
  <2>1. CASE a \in CoreIds
    BY <2>1, CoreTriggered DEF Triggered
  <2>2. ASSUME NEW r \in Routed, r[1] \in m.evidence, a = r[2]
        PROVE  \E i \in Fired(m, b) : Rules[i][2] = a
    <3>1. PICK i \in 7..39 : Rules[i] = r
      BY <2>2, RoutedAreRules
    <3>2. i \in DOMAIN Rules
      BY DEF Rules
    <3>3. Rules[i][1] \in Facts(m, b)
      BY <2>2, <3>1, FactsAre
    <3> QED
      BY <2>2, <3>1, <3>2, <3>3 DEF Fired
  <2>3. CASE a \notin CoreIds /\ ~\E r \in Routed : r[1] \in m.evidence /\ a = r[2]
    <3>1. {40, 41, 42, 43, 44, 45, 46} \subseteq 40..46
      OBVIOUS
    <3>2. "has_hooks" \in EvidenceFields
      BY DEF EvidenceFields
    <3>3. \/ a = "numerical-gap" /\ "numeric-seam" \in Facts(m, b)
          \/ a = "flow-gap" /\ "has_hooks" \in Facts(m, b)
          \/ a = "trust-gap" /\ "semi-trusted" \in Facts(m, b)
          \/ a = "signature-gap" /\ "signature-seam" \in Facts(m, b)
          \/ a = "invariant-tester" /\ "enough-invariants" \in Facts(m, b)
          \/ a = "fuzzer" /\ "fuzzable" \in Facts(m, b)
          \/ a = "formal-verifier" /\ "formal" \in Facts(m, b)
      BY <2>3, <3>2, FactsAre DEF Promised, CoreIds
    <3>4. \E i \in {40, 41, 42, 43, 44, 45, 46} :
            Rules[i][2] = a /\ Rules[i][1] \in Facts(m, b)
      BY <3>3, LastRules
    <3> QED
      BY <3>1, <3>4, LastRules DEF Fired
  <2> QED
    BY <2>1, <2>2, <2>3
<1> QED
  BY <1>1, <1>2 DEF Triggered

LEMMA FullAccount == FromReasons => EveryLaneAccounted
<1> SUFFICES ASSUME FromReasons, roster # {}
             PROVE  /\ roster \cup skipped = Promised(Routed, smap, budgetOf)
                    /\ roster \cap skipped = {}
                    /\ CoreIds \subseteq roster
  BY DEF EveryLaneAccounted, Built, Routed
<1>1. Triggered(smap, budgetOf) = Promised(Routed, smap, budgetOf)
  BY TriggeredIsPromised DEF FromReasons
<1> QED
  BY <1>1, ReasonsDomain, KeptIsTriggered, CoreTriggered DEF FromReasons, Skipped

\* Every lane routing.md has the map spawn runs or is listed as skipped, never
\* both, nothing else does, and the core always runs.
THEOREM NoLaneDisappears == Spec => []EveryLaneAccounted
BY FullAccount, RosterFromReasons, PTL

LEMMA PriorityFull == FromReasons => DropsRespectPriority
<1> SUFFICES ASSUME FromReasons, roster # {},
                    NEW a \in roster \ CoreIds, NEW b \in skipped
             PROVE  DropRank(Role(a)) >= DropRank(Role(b))
  BY DEF DropsRespectPriority, Built
<1>1. Cap(budgetOf) \in Nat
  BY DEF Cap
<1>2. IsFiniteSet(DOMAIN Reasons(smap, budgetOf))
  BY ReasonsDomain, TriggeredFinite
<1> QED
  BY <1>1, <1>2, SurvivorsOutrank DEF FromReasons

\* No lane is dropped while a lane of a lower rank runs.
THEOREM PriorityRespected == Spec => []DropsRespectPriority
BY PriorityFull, RosterFromReasons, PTL

-----------------------------------------------------------------------------
(* How many lanes the cap leaves *)

\* Each lane is inserted once, at the first of its triggers; so no two lanes share
\* a place.
LEMMA ReasonsInjective ==
  ASSUME NEW m, NEW b
  PROVE  LET reasons == Reasons(m, b) IN
           \A a \in DOMAIN reasons :
             /\ reasons[a] \in Nat
             /\ \A c \in DOMAIN reasons : reasons[a] = reasons[c] => a = c
<1> DEFINE fired == Fired(m, b)
           reasons == Reasons(m, b)
<1>1. fired \subseteq Nat
  BY DEF Fired, Rules
<1>2. ASSUME NEW a \in DOMAIN reasons
      PROVE  reasons[a] \in fired /\ Rules[reasons[a]][2] = a
  <2> DEFINE mine == {i \in fired : Rules[i][2] = a}
  <2>1. DOMAIN reasons = {Rules[i][2] : i \in fired}
    BY DEF Reasons
  <2>2. mine # {} /\ mine \in SUBSET Nat
    BY <1>1, <2>1
  <2>3. PICK k \in mine : \A j \in mine : k <= j
    BY <2>2, LeastNumber
  <2>4. reasons[a] = CHOOSE i \in fired :
                       Rules[i][2] = a /\ \A j \in fired : Rules[j][2] = a => i <= j
    BY <2>1 DEF Reasons
  <2>5. /\ k \in fired /\ Rules[k][2] = a
        /\ \A j \in fired : Rules[j][2] = a => k <= j
    BY <2>3
  <2> HIDE DEF fired, mine, reasons
  <2> QED
    BY <2>4, <2>5
<1> HIDE DEF fired, reasons
<1>3. \A a \in DOMAIN reasons : reasons[a] \in Nat
  BY <1>1, <1>2
<1>4. \A a, c \in DOMAIN reasons : reasons[a] = reasons[c] => a = c
  BY <1>2
<1> QED
  BY <1>3, <1>4 DEF reasons

\* Triggered lanes with places of their own.
Placed(reasons) ==
  /\ IsFiniteSet(DOMAIN reasons)
  /\ \A a \in DOMAIN reasons :
       /\ reasons[a] \in Nat
       /\ \A c \in DOMAIN reasons : reasons[a] = reasons[c] => a = c

\* The order in which the specialists are kept is total, and a lane that is kept
\* before another has fewer in front of it.
LEMMA AheadStrict ==
  ASSUME NEW reasons, Placed(reasons),
         NEW a \in Rest(reasons), NEW b \in Rest(reasons)
  PROVE  /\ IsFiniteSet(Ahead(a, reasons))
         /\ Cardinality(Ahead(a, reasons)) \in Nat
         /\ Cardinality(Ahead(a, reasons)) < Cardinality(Rest(reasons))
         /\ a # b => Cardinality(Ahead(a, reasons)) # Cardinality(Ahead(b, reasons))
<1>1. /\ \A c \in Rest(reasons) : DropRank(Role(c)) \in 0..4 /\ reasons[c] \in Nat
      /\ \A c, d \in Rest(reasons) : reasons[c] = reasons[d] => c = d
  BY RankIsNumber DEF Placed, Rest
<1>2. IsFiniteSet(Rest(reasons))
  BY FS_Subset DEF Placed, Rest
<1>3. \A c \in Rest(reasons) :
        /\ Ahead(c, reasons) \subseteq Rest(reasons) /\ c \notin Ahead(c, reasons)
        /\ IsFiniteSet(Ahead(c, reasons)) /\ Cardinality(Ahead(c, reasons)) \in Nat
  <2> TAKE c \in Rest(reasons)
  <2>1. Ahead(c, reasons) \subseteq Rest(reasons) /\ c \notin Ahead(c, reasons)
    BY <1>1 DEF Ahead, Outranks
  <2> QED
    BY <1>2, <2>1, FS_Subset, FS_CardinalityType
<1>4. ASSUME NEW c \in Rest(reasons), NEW d \in Rest(reasons), Outranks(c, d, reasons)
      PROVE  Cardinality(Ahead(c, reasons)) < Cardinality(Ahead(d, reasons))
  <2>1. Ahead(c, reasons) \subseteq Ahead(d, reasons)
    <3> SUFFICES ASSUME NEW e \in Rest(reasons), Outranks(e, c, reasons)
                 PROVE  Outranks(e, d, reasons)
      BY DEF Ahead
    <3> QED
      BY <1>1, <1>4 DEF Outranks
  <2>2. c \in Ahead(d, reasons)
    BY <1>4 DEF Ahead
  <2> QED
    BY <1>3, <2>1, <2>2, FS_Subset
<1>5. a # b => Outranks(a, b, reasons) \/ Outranks(b, a, reasons)
  BY <1>1 DEF Outranks
<1>6. a # b => Cardinality(Ahead(a, reasons)) # Cardinality(Ahead(b, reasons))
  BY <1>3, <1>4, <1>5
<1>7. Cardinality(Ahead(a, reasons)) < Cardinality(Rest(reasons))
  <2>1. Ahead(a, reasons) \in SUBSET Rest(reasons) /\ Ahead(a, reasons) # Rest(reasons)
    BY <1>3
  <2> QED
    BY <1>2, <1>3, <2>1, FS_Subset, FS_CardinalityType
<1> QED
  BY <1>3, <1>6, <1>7

LEMMA Numbers ==
  ASSUME NEW n \in Nat
  PROVE  IsFiniteSet(0..(n - 1)) /\ Cardinality(0..(n - 1)) = n
<1>1. n - 1 \in Int /\ 0 \in Int
  OBVIOUS
<1>2. /\ IsFiniteSet(0..(n - 1))
      /\ Cardinality(0..(n - 1)) = IF 0 > n - 1 THEN 0 ELSE (n - 1) - 0 + 1
  BY <1>1, FS_Interval
<1> QED
  BY <1>2

\* As many survive as there is room for: counting those in front of each lane
\* numbers the specialists from 0.
LEMMA FirstOnes ==
  ASSUME NEW reasons, Placed(reasons), NEW k \in Nat, k <= Cardinality(Rest(reasons))
  PROVE  Cardinality({a \in Rest(reasons) : Cardinality(Ahead(a, reasons)) < k}) = k
<1> DEFINE rest == Rest(reasons)
           n == Cardinality(rest)
           number == [a \in rest |-> Cardinality(Ahead(a, reasons))]
           first == {a \in rest : number[a] < k}
<1>1. IsFiniteSet(rest) /\ n \in Nat
  BY FS_Subset, FS_CardinalityType DEF Placed, Rest
<1>2. /\ \A a \in rest : number[a] \in 0..(n - 1)
      /\ \A a, b \in rest : a # b => number[a] # number[b]
  BY <1>1, AheadStrict
<1>3. number \in Injection(rest, 0..(n - 1))
  BY <1>2 DEF Injection, IsInjective
<1>4. IsFiniteSet(0..(n - 1)) /\ Cardinality(0..(n - 1)) = n
  BY <1>1, Numbers
<1>5. number \in Surjection(rest, 0..(n - 1))
  BY <1>3, <1>4, FS_Injection
<1> DEFINE renumber == [a \in first |-> number[a]]
<1>6. renumber \in Bijection(first, 0..(k - 1))
  <2>1. \A i \in 0..(k - 1) : i \in 0..(n - 1)
    BY <1>1
  <2>2. \A i \in 0..(k - 1) : \E a \in rest : number[a] = i
    BY <1>5, <2>1 DEF Surjection
  <2> HIDE DEF number, rest, n
  <2>3. \A a \in first : renumber[a] = number[a] /\ number[a] \in 0..(k - 1)
    BY <1>1, <1>2
  <2>4. renumber \in Injection(first, 0..(k - 1))
    BY <1>2, <2>3 DEF Injection, IsInjective
  <2>5. \A i \in 0..(k - 1) : \E a \in first : renumber[a] = i
    BY <2>2
  <2>6. renumber \in Surjection(first, 0..(k - 1))
    BY <2>3, <2>5 DEF Surjection
  <2> QED
    BY <2>4, <2>6 DEF Bijection
<1>7. IsFiniteSet(first)
  BY <1>1, FS_Subset
<1>8. Cardinality(0..(k - 1)) = k
  BY Numbers
<1>9. Cardinality(first) = k
  BY <1>6, <1>7, <1>8, FS_Bijection DEF ExistsBijection
<1>10. first = {a \in rest : Cardinality(Ahead(a, reasons)) < k}
  OBVIOUS
<1> QED
  BY <1>9, <1>10

LEMMA UpTo ==
  ASSUME NEW n \in Nat
  PROVE  IsFiniteSet(1..n) /\ Cardinality(1..n) = n
<1>1. /\ IsFiniteSet(1..n)
      /\ Cardinality(1..n) = IF 1 > n THEN 0 ELSE n - 1 + 1
  BY FS_Interval
<1> QED
  BY <1>1

LEMMA CoreIsSmall ==
  ASSUME NEW reasons
  PROVE  IsFiniteSet(Core(reasons)) /\ Cardinality(Core(reasons)) \in 0..6
<1> DEFINE list == <<"access-control", "math-precision", "invariant", "execution-trace",
                     "first-principles", "boundary">>
           f == [i \in 1..6 |-> list[i]]
<1>1. f \in Surjection(1..6, CoreIds)
  BY DEF Surjection, CoreIds
<1>2. IsFiniteSet(1..6) /\ Cardinality(1..6) = 6
  BY UpTo
<1> HIDE DEF f
<1>3. IsFiniteSet(CoreIds) /\ Cardinality(CoreIds) <= 6
  BY <1>1, <1>2, FS_Surjection
<1>4. Core(reasons) \in SUBSET CoreIds
  BY DEF Core
<1>5. IsFiniteSet(Core(reasons)) /\ Cardinality(Core(reasons)) <= Cardinality(CoreIds)
  BY <1>3, <1>4, FS_Subset
<1>6. Cardinality(Core(reasons)) \in Nat /\ Cardinality(CoreIds) \in Nat
  BY <1>3, <1>5, FS_CardinalityType
<1> QED
  BY <1>3, <1>5, <1>6

\* When the cap bites, the roster is as large as the cap allows.
LEMMA KeptCount ==
  ASSUME NEW reasons, Placed(reasons), NEW cap \in Nat, cap >= 6,
         Cardinality(DOMAIN reasons) > cap
  PROVE  Cardinality(Kept(reasons, cap)) = cap
<1> DEFINE core == Core(reasons)
           rest == Rest(reasons)
           kept == Survivors(reasons, cap)
<1>1. IsFiniteSet(core) /\ Cardinality(core) \in 0..6
  BY CoreIsSmall
<1>2. /\ IsFiniteSet(rest) /\ Cardinality(rest) \in Nat
      /\ DOMAIN reasons = core \cup rest /\ core \cap rest = {}
  BY FS_Subset, FS_CardinalityType DEF Placed, Rest, Core
<1>3. kept \subseteq rest /\ IsFiniteSet(kept) /\ core \cap kept = {}
  BY <1>2, FS_Subset DEF Survivors
<1> HIDE DEF core, rest, kept
<1>4. Cardinality(DOMAIN reasons) = Cardinality(core) + Cardinality(rest)
  <2>1. Cardinality(core \cup rest)
          = Cardinality(core) + Cardinality(rest) - Cardinality(core \cap rest)
    BY <1>1, <1>2, FS_Union
  <2> QED
    BY <1>1, <1>2, <2>1, FS_EmptySet
<1>5. /\ Room(reasons, cap) = cap - Cardinality(core)
      /\ Room(reasons, cap) \in Nat /\ Room(reasons, cap) <= Cardinality(rest)
  BY <1>1, <1>2, <1>4 DEF Room, core
<1>6. Cardinality(kept) = Room(reasons, cap)
  BY <1>5, FirstOnes DEF kept, rest, Survivors
<1>7. Cardinality(core \cup kept) = cap
  <2>1. Cardinality(core \cup kept)
          = Cardinality(core) + Cardinality(kept) - Cardinality(core \cap kept)
    BY <1>1, <1>3, FS_Union
  <2>2. Cardinality(core \cap kept) = 0
    BY <1>3, FS_EmptySet
  <2> QED
    BY <1>1, <1>5, <1>6, <2>1, <2>2
<1> QED
  BY <1>7 DEF Kept, core, kept

LEMMA ReasonsPlaced ==
  ASSUME NEW m, NEW b
  PROVE  Placed(Reasons(m, b))
BY ReasonsDomain, TriggeredFinite, ReasonsInjective DEF Placed

LEMMA CapsAreNumbers ==
  ASSUME NEW b \in Budgets
  PROVE  /\ Cap(b) \in Nat /\ Cap(b) >= 6
         /\ b # "quick" => Cap(b) >= 22
BY DEF Cap, Budgets

LEMMA CapFull == FromReasons => CapRespected
<1> SUFFICES ASSUME FromReasons, roster # {}
             PROVE  /\ Cardinality(roster) <= Cap(budgetOf)
                    /\ skipped # {} => Cardinality(roster) = Cap(budgetOf)
  BY DEF CapRespected, Built
<1> DEFINE reasons == Reasons(smap, budgetOf)
           cap == Cap(budgetOf)
<1>1. /\ Placed(reasons) /\ cap \in Nat /\ cap >= 6
      /\ roster = Kept(reasons, cap) /\ skipped = Skipped(reasons, cap)
  BY ReasonsPlaced, CapsAreNumbers DEF FromReasons
<1> HIDE DEF reasons, cap
<1>2. CASE Cardinality(DOMAIN reasons) > cap
  BY <1>1, <1>2, KeptCount DEF cap
<1>3. CASE ~(Cardinality(DOMAIN reasons) > cap)
  <2>1. roster = DOMAIN reasons /\ skipped = {}
    BY <1>1, <1>3 DEF Kept, Skipped
  <2>2. Cardinality(DOMAIN reasons) \in Nat
    BY <1>1, FS_CardinalityType DEF Placed
  <2> QED
    BY <1>1, <1>3, <2>1, <2>2 DEF cap
<1> QED
  BY <1>2, <1>3

\* The roster is never larger than the cap, and a lane is only ever dropped from a
\* roster that is full.
THEOREM CapKept == Spec => []CapRespected
BY CapFull, RosterFromReasons, PTL

-----------------------------------------------------------------------------
(* What the cap costs *)

\* Every lane a rule can add that is neither core, gap-hunter nor proof tooling.
Specialists ==
  {"oracle-expert", "signature-trust", "lending-expert", "economic-security",
   "yield-strategist", "asymmetry", "periphery", "hook-ordering", "tokenomics-analyst",
   "erc-implementer", "eip-expert", "proxy-upgrade", "transient-storage",
   "crosschain-l2", "account-abstraction"}

LEMMA SpecialistsAreFew ==
  IsFiniteSet(Specialists) /\ Cardinality(Specialists) \in 0..15
<1> DEFINE list == <<"oracle-expert", "signature-trust", "lending-expert",
                     "economic-security", "yield-strategist", "asymmetry", "periphery",
                     "hook-ordering", "tokenomics-analyst", "erc-implementer",
                     "eip-expert", "proxy-upgrade", "transient-storage",
                     "crosschain-l2", "account-abstraction">>
           f == [i \in 1..15 |-> list[i]]
<1>1. f \in Surjection(1..15, Specialists)
  BY DEF Surjection, Specialists
<1>2. IsFiniteSet(1..15) /\ Cardinality(1..15) = 15
  BY UpTo
<1> HIDE DEF f
<1>3. IsFiniteSet(Specialists) /\ Cardinality(Specialists) <= 15
  BY <1>1, <1>2, FS_Surjection
<1> QED
  BY <1>3, FS_CardinalityType

\* The lanes a rule can add that are dropped before any specialist is.
Droppable ==
  {"numerical-gap", "flow-gap", "trust-gap", "signature-gap",
   "formal-verifier", "fuzzer", "invariant-tester"}

\* Every rule adds a lane of the core, a specialist, a gap-hunter or proof tooling.
LEMMA RulesAddLanes ==
  ASSUME NEW i \in DOMAIN Rules
  PROVE  Rules[i][2] \in CoreIds \cup Specialists \cup Droppable
<1>1. i \in 1..46
  BY DEF Rules
<1>2. CASE i \in 1..12
  BY <1>2 DEF Rules, CoreIds, Specialists, Droppable
<1>3. CASE i \in 13..24
  BY <1>3 DEF Rules, CoreIds, Specialists, Droppable
<1>4. CASE i \in 25..36
  BY <1>4 DEF Rules, CoreIds, Specialists, Droppable
<1>5. CASE i \in 37..46
  BY <1>5 DEF Rules, CoreIds, Specialists, Droppable
<1> QED
  BY <1>1, <1>2, <1>3, <1>4, <1>5

LEMMA SpecialistsRank ==
  /\ \A a \in Droppable : Role(a) \in {"proof", "gap"}
  /\ \A a \in Specialists : DropRank(Role(a)) >= 2
<1>1. \A a \in Droppable : Role(a) \in {"proof", "gap"}
  BY DEF Droppable, Role, CoreIds
<1>2. \A a \in Specialists : Role(a) \in {"domain", "platform"}
  BY DEF Specialists, Role, CoreIds
<1>3. \A role \in {"domain", "platform"} : DropRank(role) >= 2
  BY DEF DropRank
<1> QED
  BY <1>1, <1>2, <1>3

LEMMA SpecialistsFull == FromReasons => SpecialistsRun
<1> SUFFICES ASSUME FromReasons, roster # {}, budgetOf # "quick",
                    NEW a \in skipped, Role(a) \notin {"proof", "gap"}
             PROVE  FALSE
  BY DEF SpecialistsRun, Built
<1> DEFINE reasons == Reasons(smap, budgetOf)
           cap == Cap(budgetOf)
<1>1. /\ Placed(reasons) /\ cap \in Nat /\ cap >= 22
      /\ roster = Kept(reasons, cap) /\ skipped = Skipped(reasons, cap)
  BY ReasonsPlaced, CapsAreNumbers DEF FromReasons
<1>2. DOMAIN reasons \subseteq CoreIds \cup Specialists \cup Droppable
  <2>1. \A i \in Fired(smap, budgetOf) : i \in DOMAIN Rules
    BY DEF Fired
  <2>2. \A i \in Fired(smap, budgetOf) :
          Rules[i][2] \in CoreIds \cup Specialists \cup Droppable
    BY <2>1, RulesAddLanes
  <2>3. Triggered(smap, budgetOf) \subseteq CoreIds \cup Specialists \cup Droppable
    BY <2>2 DEF Triggered
  <2> QED
    BY <2>3, ReasonsDomain
<1> HIDE DEF reasons, cap
<1>3. a \in Rest(reasons) /\ a \notin Survivors(reasons, cap)
  BY <1>1 DEF Skipped, Kept, Rest, Core
<1>4. a \in Specialists
  BY <1>2, <1>3, SpecialistsRank DEF Rest
<1>5. Ahead(a, reasons) \subseteq Specialists
  <2> SUFFICES ASSUME NEW b \in Ahead(a, reasons), b \in Droppable
               PROVE  FALSE
    BY <1>2 DEF Ahead, Rest
  <2>1. Role(b) \in {"proof", "gap"} /\ DropRank(Role(a)) >= 2
    BY <1>4, SpecialistsRank
  <2>2. DropRank(Role(b)) < 2
    BY <2>1 DEF DropRank
  <2>3. DropRank(Role(b)) >= DropRank(Role(a))
    BY RankIsNumber DEF Ahead, Outranks
  <2> QED
    BY <2>1, <2>2, <2>3, RankIsNumber
<1>6. Cardinality(Ahead(a, reasons)) \in 0..15
  BY <1>5, SpecialistsAreFew, FS_Subset, FS_CardinalityType
<1>7. Room(reasons, cap) \in Int /\ Room(reasons, cap) >= 16
  BY <1>1, CoreIsSmall DEF Room
<1> QED
  BY <1>3, <1>6, <1>7 DEF Survivors

\* Above the quick budget there are more places than specialists, so the cap never
\* reaches one: whatever it drops is proof tooling or a gap-hunter.
THEOREM SpecialistsAlwaysRun == Spec => []SpecialistsRun
BY SpecialistsFull, RosterFromReasons, PTL

\* Each of these follows from FromReasons alone, whatever map is routed; so a
\* roster made from an ingested source keeps all four.
THEOREM IntakeKeepsRouter ==
  IntakeSpec => [](EveryLaneAccounted /\ CapRespected
                     /\ DropsRespectPriority /\ SpecialistsRun)
<1>1. IntakeInit => FromReasons
  BY MapsAssumption DEF IntakeInit, FromReasons, IngestedMap, SystemMap
<1>2. FromReasons /\ [BuildRoster /\ UNCHANGED words]_intakeVars => FromReasons'
  BY DEF FromReasons, BuildRoster, intakeVars
<1>3. FromReasons => EveryLaneAccounted /\ CapRespected
                       /\ DropsRespectPriority /\ SpecialistsRun
  BY FullAccount, CapFull, PriorityFull, SpecialistsFull
<1> QED
  BY <1>1, <1>2, <1>3, PTL DEF IntakeSpec

-----------------------------------------------------------------------------
(* Which lanes a source fires *)

\* An EIP that a word names is one of the surfaces; and the word for EIP-7702 is
\* one for account abstraction.
LEMMA WordsNameSurfaces ==
  ASSUME NEW text \in SUBSET Vocabulary
  PROVE  /\ Flags(text) \cap {"EIP7702", "EIP1153", "EIP4337"} # {}
              => "eip_surfaces" \in Flags(text)
         /\ "EIP7702" \in Flags(text) => "has_account_abstraction" \in Flags(text)
<1>1. \A w \in Vocabulary :
        /\ Tells[w] \cap {"EIP7702", "EIP1153", "EIP4337"} # {} => "eip_surfaces" \in Tells[w]
        /\ "EIP7702" \in Tells[w] => "has_account_abstraction" \in Tells[w]
  BY DEF Vocabulary, Tells
<1> QED
  BY <1>1 DEF Flags

\* What one more word may take away is the guess that a target means EIP-7702.
LEMMA EvidenceGrows ==
  ASSUME NEW text \in SUBSET Vocabulary, NEW more \in SUBSET Vocabulary,
         text \subseteq more
  PROVE  /\ ExtractEvidence(text) \ {"EIP7702"} \subseteq ExtractEvidence(more)
         /\ "EIP7702" \in ExtractEvidence(text)
              => "has_account_abstraction" \in ExtractEvidence(more)
<1>1. Flags(text) \subseteq Flags(more)
  BY DEF Flags
<1>2. \A s \in {text, more} :
        /\ Flags(s) \cap {"EIP7702", "EIP1153", "EIP4337"} # {}
             => "eip_surfaces" \in Flags(s)
        /\ "EIP7702" \in Flags(s) => "has_account_abstraction" \in Flags(s)
  BY WordsNameSurfaces
<1> QED
  BY <1>1, <1>2 DEF ExtractEvidence, Backfilled

LEMMA FactsGrow ==
  ASSUME NEW text \in SUBSET Vocabulary, NEW more \in SUBSET Vocabulary,
         text \subseteq more, NEW b
  PROVE  Facts(IngestedMap(text), b) \ {"EIP7702"} \subseteq Facts(IngestedMap(more), b)
<1> DEFINE old == IngestedMap(text)
           new == IngestedMap(more)
           numeric == {"has_fixed_point", "has_fee_math", "has_vault", "has_amm"}
<1>1. /\ old.evidence \ {"EIP7702"} \subseteq new.evidence
      /\ old.invariants = 0 /\ old.semitrusted = 0 /\ old.compiles = FALSE
      /\ new.invariants = 0 /\ new.semitrusted = 0 /\ new.compiles = FALSE
  BY EvidenceGrows DEF IngestedMap
<1> HIDE DEF old, new
<1>2. Cardinality(old.evidence \cap numeric) >= 2
        => Cardinality(new.evidence \cap numeric) >= 2
  <2>1. IsFiniteSet(numeric)
    <3> DEFINE two == {} \cup {"has_fixed_point"} \cup {"has_fee_math"}
               four == two \cup {"has_vault"} \cup {"has_amm"}
    <3>1. IsFiniteSet(two)
      BY FS_EmptySet, FS_AddElement, Zenon
    <3> HIDE DEF two
    <3>2. IsFiniteSet(four)
      BY <3>1, FS_AddElement, Zenon
    <3>3. numeric = four
      BY DEF two
    <3> QED
      BY <3>2, <3>3
  <2>2. old.evidence \cap numeric \subseteq new.evidence \cap numeric
    BY <1>1
  <2>3. /\ IsFiniteSet(old.evidence \cap numeric) /\ IsFiniteSet(new.evidence \cap numeric)
    BY <2>1, FS_Subset
  <2> HIDE DEF numeric
  <2>4. /\ Cardinality(old.evidence \cap numeric) <= Cardinality(new.evidence \cap numeric)
        /\ Cardinality(old.evidence \cap numeric) \in Nat
        /\ Cardinality(new.evidence \cap numeric) \in Nat
    BY <2>2, <2>3, FS_Subset, FS_CardinalityType
  <2> QED
    BY <2>4
<1>3. Seams(old) \subseteq Seams(new)
  <2> SUFFICES ASSUME NEW f \in Seams(old)
               PROVE  f \in Seams(new)
    OBVIOUS
  <2>1. CASE f = "numeric-seam"
    BY <1>2, <2>1 DEF Seams
  <2>2. CASE f = "semi-trusted"
    BY <1>1, <2>2 DEF Seams
  <2>3. CASE f = "signature-seam"
    BY <1>1, <2>3 DEF Seams
  <2> QED
    BY <2>1, <2>2, <2>3 DEF Seams
<1>4. Tooling(old, b) \subseteq Tooling(new, b)
  BY <1>1 DEF Tooling
<1> QED
  BY <1>1, <1>3, <1>4 DEF Facts, old, new

\* The rule for EIP-7702 adds a lane that account abstraction adds anyway.
LEMMA GuessedLane ==
  ASSUME NEW i \in DOMAIN Rules, Rules[i][1] = "EIP7702"
  PROVE  Rules[i][2] = "account-abstraction"
<1>1. i \in 1..46
  BY DEF Rules
<1>2. CASE i \in 1..15
  BY <1>2 DEF Rules
<1>3. CASE i \in 16..30
  BY <1>3 DEF Rules
<1>4. CASE i \in 31..46
  BY <1>4 DEF Rules
<1> QED
  BY <1>1, <1>2, <1>3, <1>4

\* The lanes a fact fires, for the facts that the heuristics are about.
LEMMA FactFires ==
  ASSUME NEW m, NEW b
  PROVE  /\ "has_account_abstraction" \in m.evidence => "account-abstraction" \in Triggered(m, b)
         /\ "has_transient_storage" \in m.evidence => "transient-storage" \in Triggered(m, b)
         /\ "eip_surfaces" \in m.evidence => "eip-expert" \in Triggered(m, b)
<1>1. /\ {24, 26, 37} \subseteq DOMAIN Rules
      /\ Rules[24] = <<"has_transient_storage", "transient-storage">>
      /\ Rules[26] = <<"has_account_abstraction", "account-abstraction">>
      /\ Rules[37] = <<"eip_surfaces", "eip-expert">>
  BY DEF Rules
<1> QED
  BY <1>1 DEF Triggered, Fired, Facts

LEMMA LanesGrow ==
  ASSUME NEW text \in SUBSET Vocabulary, NEW more \in SUBSET Vocabulary,
         text \subseteq more, NEW b
  PROVE  Triggered(IngestedMap(text), b) \subseteq Triggered(IngestedMap(more), b)
<1> DEFINE old == IngestedMap(text)
           new == IngestedMap(more)
<1> SUFFICES ASSUME NEW i \in DOMAIN Rules, Rules[i][1] \in Facts(old, b)
             PROVE  Rules[i][2] \in Triggered(new, b)
  BY DEF Triggered, Fired
<1>1. CASE Rules[i][1] # "EIP7702"
  <2>1. Rules[i][1] \in Facts(new, b)
    BY <1>1, FactsGrow
  <2> QED
    BY <2>1 DEF Triggered, Fired
<1>2. CASE Rules[i][1] = "EIP7702"
  <2>1. "EIP7702" \in ExtractEvidence(text)
    BY <1>2 DEF Facts, Seams, Tooling, IngestedMap
  <2>2. "has_account_abstraction" \in new.evidence
    BY <2>1, EvidenceGrows DEF IngestedMap, EvidenceFields
  <2> QED
    BY <1>2, <2>2, GuessedLane, FactFires
<1> QED
  BY <1>1, <1>2

\* One more word in a source never takes a lane away, and what a target does fires
\* its lane and the EIP expert, whatever else the source says.
THEOREM EvidenceAlwaysFires == IntakeSpec => []EvidenceFires
<1> DEFINE Read == words # FromCaller => words \subseteq Vocabulary
<1>1. IntakeInit => Read
  BY TextsAssumption DEF IntakeInit
<1>2. Read /\ [BuildRoster /\ UNCHANGED words]_intakeVars => Read'
  BY DEF intakeVars
<1>3. Read => EvidenceFires
  <2> SUFFICES ASSUME words \subseteq Vocabulary
               PROVE  EvidenceFires
    BY DEF EvidenceFires
  <2> DEFINE m == IngestedMap(words)
  <2>1. \A w \in Vocabulary :
          Triggered(m, budgetOf) \subseteq Triggered(IngestedMap(words \cup {w}), budgetOf)
    BY LanesGrow
  <2>2. /\ Tells["tstore"] = {"has_transient_storage"}
        /\ Tells["UserOperation"] = {"has_account_abstraction"}
    BY DEF Tells
  <2>3. "tstore" \in words => {"has_transient_storage", "eip_surfaces"} \subseteq m.evidence
    BY <2>2, WordsNameSurfaces
       DEF IngestedMap, EvidenceFields, ExtractEvidence, Backfilled, Flags
  <2>4. "UserOperation" \in words =>
          {"has_account_abstraction", "eip_surfaces"} \subseteq m.evidence
    BY <2>2, WordsNameSurfaces
       DEF IngestedMap, EvidenceFields, ExtractEvidence, Backfilled, Flags
  <2> HIDE DEF m
  <2>5. /\ "tstore" \in words =>
             {"transient-storage", "eip-expert"} \subseteq Triggered(m, budgetOf)
        /\ "UserOperation" \in words =>
             {"account-abstraction", "eip-expert"} \subseteq Triggered(m, budgetOf)
    BY <2>3, <2>4, FactFires
  <2> QED
    BY <2>1, <2>5 DEF EvidenceFires, m
<1> HIDE DEF Read
<1> QED
  BY <1>1, <1>2, <1>3, PTL DEF IntakeSpec
=============================================================================
