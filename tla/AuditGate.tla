----------------------------- MODULE AuditGate -----------------------------
(***************************************************************************)
(* What an audit run promises its reader, with no workers, ledger, files   *)
(* or phases: a team of lanes is asked, each lane is heard from or lost,   *)
(* and only when every lane is settled does the run say anything.  It says *)
(* "complete" only if four fifths of the team and the whole core were      *)
(* heard, "degraded" otherwise, and nothing at all below one half.         *)
(***************************************************************************)
EXTENDS Naturals, FiniteSets

CONSTANTS Agents,       \* every lane the target's evidence can trigger
          Core          \* the always-on lanes

VARIABLES team,         \* the lanes this run asked
          lane,         \* what became of each of them
          verdict       \* what the run told its reader

gateVars == <<team, lane, verdict>>

Lanes(s) == {a \in team : lane[a] = s}

GateInit ==
  /\ team = {}
  /\ lane = [a \in Agents |-> "pending"]
  /\ verdict = "silent"

\* The team is picked once, and always holds the core.
Assemble ==
  /\ team = {} /\ verdict = "silent"
  /\ \E t \in SUBSET Agents : Core \subseteq t /\ t # {} /\ team' = t
  /\ UNCHANGED <<lane, verdict>>

Settle(a) ==
  /\ verdict = "silent" /\ a \in team /\ lane[a] = "pending"
  /\ \E s \in {"heard", "lost"} : lane' = [lane EXCEPT ![a] = s]
  /\ UNCHANGED <<team, verdict>>

\* The run refuses to report: before asking anyone (a core lane cannot hunt),
\* or because fewer than half of the lanes were heard.
Refuse ==
  /\ verdict = "silent" /\ team # {}
  /\ \/ Lanes("pending") = team
     \/ Lanes("pending") = {} /\ 2 * Cardinality(Lanes("heard")) < Cardinality(team)
  /\ verdict' = "aborted"
  /\ UNCHANGED <<team, lane>>

\* The run reports, and says so when a part of the team is missing.
Publish ==
  /\ verdict = "silent" /\ team # {} /\ Lanes("pending") = {}
  /\ 2 * Cardinality(Lanes("heard")) >= Cardinality(team)
  /\ verdict' = IF /\ 5 * Cardinality(Lanes("heard")) >= 4 * Cardinality(team)
                   /\ Core \subseteq Lanes("heard")
                THEN "complete" ELSE "degraded"
  /\ UNCHANGED <<team, lane>>

GateNext == Assemble \/ (\E a \in Agents : Settle(a)) \/ Refuse \/ Publish

GateSpec == GateInit /\ [][GateNext]_gateVars
=============================================================================
