------------------------------- MODULE Router -------------------------------
(***************************************************************************)
(* build_roster (core/router.py): which lanes the evidence of a system map *)
(* triggers, and which of them a budget's cap leaves.  A system map is     *)
(* abstracted to its facts: the evidence fields that are true, and the     *)
(* conditions over counts that the gap-hunters and the proof tooling test. *)
(***************************************************************************)
EXTENDS Integers, FiniteSets

CONSTANTS Maps          \* the system maps to route, see SystemMap

\* The four budgets, and any other word a caller of build_roster may say.
Budgets == {"quick", "standard", "deep", "exhaustive", "other"}

\* BUDGETS.get(budget, BUDGETS["standard"])["cap"]
Cap(budget) ==
  CASE budget = "quick" -> 8 [] budget = "deep" -> 28
    [] budget = "exhaustive" -> 9999 [] OTHER -> 22

\* The evidence fields a row of TRIGGERS reads, and the EIP surfaces.
EvidenceFields ==
  {"has_oracle", "has_lending", "has_vault", "has_async_request_lifecycle",
   "has_amm", "has_hooks", "has_signatures", "has_delegatecall",
   "has_proxy_or_upgrade", "has_transient_storage", "has_crosschain",
   "has_account_abstraction", "has_tokenomics", "has_governance_timelock",
   "has_fee_math", "has_fixed_point", "has_assembly", "has_nft_identity",
   "erc_surfaces", "eip_surfaces", "EIP7702", "EIP1153"}

SystemMap == [evidence    : SUBSET EvidenceFields,
              invariants  : Nat,
              semitrusted : Nat,
              compiles    : BOOLEAN]

\* EIP7702 and EIP1153 are read off the entries of eip_surfaces.
ASSUME MapsAssumption ==
  /\ Maps \subseteq SystemMap
  /\ \A m \in Maps :
       m.evidence \cap {"EIP7702", "EIP1153"} # {} => "eip_surfaces" \in m.evidence

CoreIds == {"access-control", "math-precision", "invariant", "execution-trace",
            "first-principles", "boundary"}

\* _gap_hunters and _proof_tooling: the conditions that are not plain fields.
Seams(m) ==
  LET ev == m.evidence IN
    {f \in {"numeric-seam", "semi-trusted", "signature-seam"} :
       \/ f = "numeric-seam" /\ Cardinality(ev \cap {"has_fixed_point",
            "has_fee_math", "has_vault", "has_amm"}) >= 2
       \/ f = "semi-trusted" /\ m.semitrusted >= 1
       \/ f = "signature-seam" /\ "has_signatures" \in ev
                               /\ ev \cap {"has_oracle", "has_crosschain"} # {}}

Tooling(m, budget) ==
  {f \in {"enough-invariants", "fuzzable", "formal"} :
     \/ f = "enough-invariants" /\ m.invariants >= 3
     \/ f = "fuzzable" /\ budget \in {"deep", "exhaustive"} /\ m.compiles
     \/ f = "formal" /\ \/ budget = "exhaustive"
                        \/ budget = "deep" /\ m.evidence \cap
                             {"has_lending", "has_vault"} # {}}

Facts(m, budget) == {"always"} \cup m.evidence \cup Seams(m) \cup Tooling(m, budget)

\* Every call of add() build_roster can make, in its order: the fact that makes
\* it, the lane it adds.
Rules ==
  << <<"always", "access-control">>, <<"always", "math-precision">>,
     <<"always", "invariant">>, <<"always", "execution-trace">>,
     <<"always", "first-principles">>, <<"always", "boundary">>,
     <<"has_oracle", "oracle-expert">>, <<"has_oracle", "signature-trust">>,
     <<"has_lending", "lending-expert">>, <<"has_lending", "economic-security">>,
     <<"has_vault", "yield-strategist">>, <<"has_vault", "numerical-gap">>,
     <<"has_async_request_lifecycle", "yield-strategist">>,
     <<"has_async_request_lifecycle", "flow-gap">>,
     <<"has_amm", "economic-security">>, <<"has_amm", "asymmetry">>,
     <<"has_amm", "periphery">>,
     <<"has_hooks", "hook-ordering">>, <<"has_hooks", "flow-gap">>,
     <<"has_signatures", "signature-trust">>, <<"has_signatures", "signature-gap">>,
     <<"has_delegatecall", "proxy-upgrade">>, <<"has_proxy_or_upgrade", "proxy-upgrade">>,
     <<"has_transient_storage", "transient-storage">>,
     <<"has_crosschain", "crosschain-l2">>,
     <<"has_account_abstraction", "account-abstraction">>,
     <<"has_tokenomics", "tokenomics-analyst">>,
     <<"has_governance_timelock", "trust-gap">>,
     <<"has_fee_math", "asymmetry">>, <<"has_fee_math", "numerical-gap">>,
     <<"has_fixed_point", "numerical-gap">>,
     <<"has_assembly", "boundary">>, <<"has_assembly", "proxy-upgrade">>,
     <<"has_nft_identity", "trust-gap">>, <<"has_nft_identity", "erc-implementer">>,
     <<"erc_surfaces", "erc-implementer">>, <<"eip_surfaces", "eip-expert">>,
     <<"EIP7702", "account-abstraction">>, <<"EIP1153", "transient-storage">>,
     <<"numeric-seam", "numerical-gap">>, <<"has_hooks", "flow-gap">>,
     <<"semi-trusted", "trust-gap">>, <<"signature-seam", "signature-gap">>,
     <<"enough-invariants", "invariant-tester">>, <<"fuzzable", "fuzzer">>,
     <<"formal", "formal-verifier">> >>

\* Slip: only the evidence fields are asked, nobody calls _gap_hunters and
\* _proof_tooling.
FiredByFields(m, budget) ==
  {i \in DOMAIN Rules : Rules[i][1] \in {"always"} \cup m.evidence}

Fired(m, budget) == {i \in DOMAIN Rules : Rules[i][1] \in Facts(m, budget)}

\* The keys of `reasons`: a lane triggered three ways is there once.
Triggered(m, budget) == {Rules[i][2] : i \in Fired(m, budget)}

\* The dict `reasons`, as the place at which each key was inserted.
Reasons(m, budget) ==
  LET fired == Fired(m, budget) IN
    [a \in {Rules[i][2] : i \in fired} |->
       CHOOSE i \in fired : Rules[i][2] = a /\ \A j \in fired : Rules[j][2] = a => i <= j]

Role(a) ==
  CASE a \in CoreIds -> "lane"
    [] a \in {"numerical-gap", "flow-gap", "trust-gap", "signature-gap"} -> "gap"
    [] a \in {"formal-verifier", "fuzzer", "invariant-tester"} -> "proof"
    [] a \in {"account-abstraction", "proxy-upgrade", "transient-storage",
              "crosschain-l2"} -> "platform"
    [] OTHER -> "domain"

\* DROP_ORDER: what is dropped first comes first.
DropRank(role) ==
  CASE role = "proof" -> 0 [] role = "gap" -> 1 [] role = "domain" -> 2
    [] role = "platform" -> 3 [] role = "lane" -> 4

-----------------------------------------------------------------------------
(* The cap; reasons maps the triggered lanes to their places *)

\* Slip: the sorted list is walked from its front.
OutranksFromFront(a, b, reasons) ==
  \/ DropRank(Role(a)) < DropRank(Role(b))
  \/ DropRank(Role(a)) = DropRank(Role(b)) /\ reasons[a] < reasons[b]

\* a comes before b in reversed(rest), rest having been sorted by DROP_ORDER with
\* a stable sort.
Outranks(a, b, reasons) ==
  \/ DropRank(Role(a)) > DropRank(Role(b))
  \/ DropRank(Role(a)) = DropRank(Role(b)) /\ reasons[a] > reasons[b]

Core(reasons) == DOMAIN reasons \cap CoreIds
Rest(reasons) == DOMAIN reasons \ CoreIds

\* Slip: the cap is applied to the specialists alone.
RoomForAll(reasons, cap) == cap

Room(reasons, cap) == cap - Cardinality(Core(reasons))

\* The lanes of rest in front of a.
Ahead(a, reasons) == {b \in Rest(reasons) : Outranks(b, a, reasons)}

\* reversed(rest)[:room]
Survivors(reasons, cap) ==
  {a \in Rest(reasons) : Cardinality(Ahead(a, reasons)) < Room(reasons, cap)}

Kept(reasons, cap) ==
  IF Cardinality(DOMAIN reasons) > cap
  THEN Core(reasons) \cup Survivors(reasons, cap)
  ELSE DOMAIN reasons

Skipped(reasons, cap) == DOMAIN reasons \ Kept(reasons, cap)

-----------------------------------------------------------------------------
(* One call of build_roster *)

VARIABLES smap, budgetOf, roster, skipped

routerVars == <<smap, budgetOf, roster, skipped>>

Init ==
  /\ smap \in Maps /\ budgetOf \in Budgets
  /\ roster = {} /\ skipped = {}

BuildRoster ==
  /\ roster = {}
  /\ LET reasons == Reasons(smap, budgetOf) IN
       /\ roster' = Kept(reasons, Cap(budgetOf))
       /\ skipped' = Skipped(reasons, Cap(budgetOf))
  /\ UNCHANGED <<smap, budgetOf>>

Spec == Init /\ [][BuildRoster]_routerVars

Built == roster # {}

\* What routing.md, of which router.py calls itself the executable twin, has
\* spawned: its table of evidence (routing.md:43-59), row by row the fields and
\* the lanes.
RoutingTable ==
  UNION
   {{"has_oracle"} \X {"oracle-expert", "signature-trust"},
    {"has_lending"} \X {"lending-expert", "economic-security"},
    {"has_vault", "has_async_request_lifecycle"} \X {"yield-strategist", "numerical-gap"},
    {"has_amm"} \X {"economic-security", "asymmetry", "periphery"},
    {"has_hooks"} \X {"hook-ordering", "flow-gap"},
    {"has_signatures"} \X {"signature-trust", "signature-gap"},
    {"erc_surfaces"} \X {"erc-implementer"},
    {"eip_surfaces"} \X {"eip-expert"},
    {"has_delegatecall", "has_proxy_or_upgrade"} \X {"proxy-upgrade"},
    {"has_account_abstraction", "EIP7702"} \X {"account-abstraction"},
    {"has_transient_storage", "EIP1153"} \X {"transient-storage"},
    {"has_crosschain"} \X {"crosschain-l2"},
    {"has_tokenomics"} \X {"tokenomics-analyst"},
    {"has_governance_timelock"} \X {"trust-gap"},
    {"has_fixed_point", "has_fee_math"} \X {"numerical-gap", "asymmetry"},
    {"has_assembly"} \X {"boundary", "proxy-upgrade"},
    {"has_nft_identity"} \X {"trust-gap", "erc-implementer"}}

\* Where the two part: router.py:42 leaves asymmetry out for fixed point, and
\* router.py:30 has flow-gap for numerical-gap on async requests.
LeftOut == {<<"has_fixed_point", "asymmetry">>,
            <<"has_async_request_lifecycle", "numerical-gap">>}
AddedOn == {<<"has_async_request_lifecycle", "flow-gap">>}

\* With its core (routing.md:24-29), proof tooling (:85-87) and gap-hunters (:73-76);
\* the value edges between contracts of :74 are left out, as in the code.
Promised(table, m, budget) ==
  LET ev == m.evidence
      deep == budget \in {"deep", "exhaustive"}
  IN {"access-control", "math-precision", "invariant", "execution-trace",
      "first-principles", "boundary"}
       \cup {row[2] : row \in {r \in table : r[1] \in ev}}
       \cup {a \in {"numerical-gap", "flow-gap", "trust-gap", "signature-gap",
                    "invariant-tester", "fuzzer", "formal-verifier"} :
                \/ a = "numerical-gap" /\ Cardinality(ev \cap {"has_fixed_point",
                     "has_fee_math", "has_vault", "has_amm"}) >= 2
                \/ a = "flow-gap" /\ "has_hooks" \in ev
                \/ a = "trust-gap" /\ m.semitrusted >= 1
                \/ a = "signature-gap" /\ "has_signatures" \in ev
                     /\ ("has_oracle" \in ev \/ "has_crosschain" \in ev)
                \/ a = "invariant-tester" /\ m.invariants >= 3
                \/ a = "fuzzer" /\ deep /\ m.compiles
                \/ a = "formal-verifier" /\ budget = "exhaustive"
                \/ a = "formal-verifier" /\ deep
                     /\ ("has_lending" \in ev \/ "has_vault" \in ev)}

\* Nothing disappears and nothing comes uncalled for: every lane that routing.md
\* has the map spawn runs or is listed as skipped, none does both, no other lane
\* does either, and the core always runs.  The code's two departures from the
\* document's table are excepted, pair by pair.  (build_roster)
EveryLaneAccounted ==
  Built =>
    /\ roster \cup skipped
         = Promised((RoutingTable \ LeftOut) \cup AddedOn, smap, budgetOf)
    /\ roster \cap skipped = {}
    /\ CoreIds \subseteq roster

\* The cap is a ceiling on spend, and it drops no lane it has room for.
CapRespected ==
  Built =>
    /\ Cardinality(roster) <= Cap(budgetOf)
    /\ skipped # {} => Cardinality(roster) = Cap(budgetOf)

\* No lane is dropped while a lane of a lower priority role runs.
DropsRespectPriority ==
  Built =>
    \A a \in roster \ CoreIds, b \in skipped :
      DropRank(Role(a)) >= DropRank(Role(b))

\* Above the quick budget the cap only ever costs proof tooling and gap-hunters,
\* however broad the target: a specialist that build_roster adds is never dropped.
SpecialistsRun ==
  Built /\ budgetOf # "quick" =>
    \A a \in skipped : Role(a) \in {"proof", "gap"}
=============================================================================
