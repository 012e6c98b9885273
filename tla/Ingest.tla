------------------------------- MODULE Ingest -------------------------------
(***************************************************************************)
(* The headless map (ingest.py): what regular expressions over the source  *)
(* make of a target.  For the evidence a target is the set of telling      *)
(* words in it; Tells says which fields each word sets, which is what the  *)
(* patterns do with it.  For the hot functions it is a sequence of files,  *)
(* each its stem, its contracts and its functions in order, and of a       *)
(* function what the ranking tests: whether an outsider can change state   *)
(* through it, and the signs in its head and in the text behind it.        *)
(***************************************************************************)
EXTENDS Integers, FiniteSets, Sequences

\* PATTERNS, ERC_PATTERN and EIP_PATTERN, which ignore case and need no word
\* boundary unless they say so: "afterSwap" is a swap too, "IERC721" names no ERC.
Tells ==
  [oracle |-> {"has_oracle"}, liquidate |-> {"has_lending"}, swap |-> {"has_amm"},
   afterSwap |-> {"has_hooks", "has_amm"}, shares |-> {"has_vault"},
   ERC4626 |-> {"has_vault", "erc_surfaces"},
   ERC7540 |-> {"has_async_request_lifecycle", "erc_surfaces"},
   IERC721 |-> {"has_nft_identity"}, ERC20 |-> {"erc_surfaces"},
   permit |-> {"has_signatures"}, EIP712 |-> {"has_signatures", "eip_surfaces"},
   delegatecall |-> {"has_delegatecall"}, ERC1967Proxy |-> {"has_proxy_or_upgrade"},
   tstore |-> {"has_transient_storage"}, EIP1153 |-> {"eip_surfaces", "EIP1153"},
   assembly |-> {"has_assembly"}, chainid |-> {"has_crosschain"},
   UserOperation |-> {"has_account_abstraction"},
   EIP7702 |-> {"has_account_abstraction", "eip_surfaces", "EIP7702"},
   EIP4337 |-> {"eip_surfaces", "EIP4337"}, feeBps |-> {"has_fee_math"},
   WAD |-> {"has_fixed_point"}, vesting |-> {"has_tokenomics"},
   Timelock |-> {"has_governance_timelock"}]

Vocabulary == DOMAIN Tells

Flags(words) == UNION {Tells[w] : w \in words}

\* Slip: the surfaces are what the source spells out.
NotBackfilled(flags) == flags

\* EIP-1153 and EIP-7702 are often used and not named.
Backfilled(flags) ==
  flags
    \cup (IF "has_transient_storage" \in flags /\ "EIP1153" \notin flags
          THEN {"eip_surfaces", "EIP1153"} ELSE {})
    \cup (IF "has_account_abstraction" \in flags /\ flags \cap {"EIP7702", "EIP4337"} = {}
          THEN {"eip_surfaces", "EIP7702"} ELSE {})

ExtractEvidence(words) == Backfilled(Flags(words))

-----------------------------------------------------------------------------
(* rank_hot_functions *)

\* The first contract of a file, or the stem of its name if it declares none.
Owner(source) ==
  IF source.contracts = <<>> THEN source.stem ELSE source.contracts[1]

\* A function is listed if an outsider can change state through it, under the
\* owner of its file, whichever contract it is in.
Listed(sources) ==
  UNION {{[at |-> <<i, j>>, contract |-> Owner(sources[i]),
           fn |-> sources[i].functions[j]] :
            j \in {k \in DOMAIN sources[i].functions : sources[i].functions[k].exposed}} :
         i \in DOMAIN sources}

\* In percent.
RiskWeight(fn) ==
  LET Sign(s, points) == IF s \in fn.signs THEN points ELSE 0
      sum == 30 + Sign("payable", 20) + Sign("moves value", 25)
                + Sign("writes mapping", 15) + Sign("external call", 15)
                + (IF "guard" \in fn.signs THEN 0 ELSE 10)
  IN IF sum > 100 THEN 100 ELSE sum

\* The sort is stable, so that the order of the files decides among equals.
RanksBefore(x, y) ==
  \/ RiskWeight(x.fn) > RiskWeight(y.fn)
  \/ RiskWeight(x.fn) = RiskWeight(y.fn)
     /\ \/ x.at[1] < y.at[1]
        \/ x.at[1] = y.at[1] /\ x.at[2] < y.at[2]

\* hot[:limit], and of each entry the place and the weight.
RankHotFunctions(sources, limit) ==
  LET listed == Listed(sources)
      Nth(n) == CHOOSE x \in listed :
                  Cardinality({y \in listed : RanksBefore(y, x)}) = n - 1
      shown == IF Cardinality(listed) < limit THEN Cardinality(listed) ELSE limit
  IN [n \in 1..shown |->
        [place    |-> <<Nth(n).contract, Nth(n).fn.name>>,
         weight   |-> RiskWeight(Nth(n).fn),
         required |-> {}]]
=============================================================================
