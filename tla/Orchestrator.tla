---------------------------- MODULE Orchestrator ----------------------------
(***************************************************************************)
(* One workdir and the audit runs made in it (service/audit_mas/           *)
(* orchestrator.py): the phase graph preflight, route, hunt, verify,       *)
(* reduce, report; the bounded fan-out of the hunt; the gather barrier and *)
(* the loop after it that writes the ledger; the quorum; the manifest and  *)
(* its copy on disk.  The process may die between any two steps, and a     *)
(* later run may be started in the same workdir, as the command line does  *)
(* by default.                                                             *)
(*                                                                         *)
(* Files (ledger, quarantine, runjson, verified, reduced) survive a run;   *)
(* everything else is the memory of one Orchestrator object.               *)
(***************************************************************************)
EXTENDS Workers, Integers, Sequences, FiniteSets

CONSTANTS
  Agents,           \* lanes the evidence triggers, as positions in the roster
  Core,             \* the always-on lanes among them
  Carded,           \* the lanes with an AGENT_CARD_URL
  Transports,       \* the transports a run may be configured with
  MaxConcurrency,   \* permits of the hunt's semaphore
  Blindable,        \* lanes whose specialty file may be missing
  MaxRuns           \* bound: runs made in this workdir

ASSUME AgentsAssumption ==
  /\ Agents \subseteq Nat /\ IsFiniteSet(Agents)
  /\ Core \subseteq Agents /\ Core # {}
  /\ Blindable \subseteq Agents
  /\ Transports # {} /\ Transports \subseteq {"auto", "local", "remote"}
  /\ MaxConcurrency \in Nat \ {0}
  /\ MaxRuns \in Nat \ {0}

Runs == 1..MaxRuns

VARIABLES
  run,          \* number of the current run
  transport,    \* the transport it was configured with
  pc,           \* where Orchestrator.run is
  roster,       \* lanes routed in this run
  blind,        \* lanes of the roster found without a specialty file
  task,         \* state of each lane's run_one coroutine
  res,          \* the AgentResult each lane is building or has returned
  unsettled,    \* lanes the loop after gather has not dealt with
  tally,        \* accepted and rejected so far in the current append_many
  heard,        \* lanes counted in returned_valid
  man,          \* the RunManifest in memory
  runjson,      \* run.json
  ledger,       \* per lane and run, the lines of ledger/agent-<id>.jsonl
  quarantine,   \* the same for ledger/quarantine.jsonl
  verified,     \* what verified.json holds of the ledger
  reduced       \* reduced.json: whose it is, and what it was computed from

memory == <<roster, blind, task, res, unsettled, tally, heard>>
outputs == <<ledger, quarantine, verified, reduced>>
vars == <<run, transport, pc, memory, man, runjson, outputs>>

PCs == {"preflight", "route", "gate", "hunt", "settle", "decide",
        "reduce", "report", "done", "aborted", "dead"}
Ended == {"done", "aborted", "dead"}
TaskStates == {"idle", "queued", "running", "returned", "raised"}

-----------------------------------------------------------------------------
(* The manifest *)

AgentStatus ==
  WorkerStatus \cup {"absent", "spawned", "skipped", "quarantined"}

\* One AgentRun: what the properties need of it.
AgentRun == [status   : AgentStatus,
             via      : {"local", "a2a"},
             emitted  : Nat,
             accepted : Nat,
             tokens   : Nat]

Listed(s) ==
  [status |-> s, via |-> "local", emitted |-> 0, accepted |-> 0, tokens |-> 0]

NoQuorum == [taken |-> FALSE, valid |-> {}, degraded |-> FALSE, missing |-> {}]

PhaseEntry ==
  {"preflight", "route", "hunt", "verify", "reduce", "report"}
    \X {"ok", "degraded", "failed"}

\* RunManifest() of a new run r; the cost block is kept per lane.
NewManifest(r) ==
  [run      |-> r,
   phases   |-> <<>>,
   agents   |-> [a \in Agents |-> Listed("absent")],
   quorum   |-> NoQuorum,
   cost     |-> [a \in Agents |-> 0],
   finished |-> FALSE]

NoFile == NewManifest(0)

\* Slip: a manifest that only exists once the run is over.
PhaseFlushedLate(m, name, status) ==
  /\ man' = [m EXCEPT !.phases = Append(@, <<name, status>>)]
  /\ runjson' = IF m.finished THEN man' ELSE runjson

\* _phase: append the entry to manifest m and flush it to run.json.
Phase(m, name, status) ==
  /\ man' = [m EXCEPT !.phases = Append(@, <<name, status>>)]
  /\ runjson' = man'

\* Slip: a lane all of whose records were rejected is not missing.
LostWithoutQuarantined == {"failed", "timeout", "invalid-output"}

\* The statuses a quorum names as missing lanes.
LostStatus == {"failed", "timeout", "invalid-output", "quarantined"}

-----------------------------------------------------------------------------
Init ==
  /\ run = 1 /\ pc = "preflight" /\ transport \in Transports
  /\ roster = {} /\ blind = {}
  /\ task = [a \in Agents |-> "idle"]
  /\ res = [a \in Agents |-> FreshResult]
  /\ unsettled = {} /\ tally = NoRecords /\ heard = {}
  /\ man = NewManifest(1) /\ runjson = NoFile
  /\ ledger = [a \in Agents |-> [r \in Runs |-> 0]]
  /\ quarantine = [a \in Agents |-> [r \in Runs |-> 0]]
  /\ verified = [a \in Agents |-> [r \in Runs |-> 0]]
  /\ reduced = [run |-> 0, from |-> [a \in Agents |-> [r \in Runs |-> 0]]]

Preflight ==
  /\ pc = "preflight" /\ pc' = "route"
  /\ Phase(man, "preflight", "ok")
  /\ UNCHANGED <<run, transport, memory, outputs>>

\* build_roster keeps the core and drops what the cap has no room for; every
\* lane of the roster is registered before any of them runs.
Route ==
  /\ pc = "route" /\ pc' = "gate"
  /\ \E kept \in SUBSET Agents, lost \in SUBSET Blindable :
       /\ Core \subseteq kept
       /\ roster' = kept
       /\ blind' = lost \cap kept
       /\ Phase([man EXCEPT !.agents =
                   [a \in Agents |->
                      Listed(IF a \in kept THEN "spawned" ELSE "skipped")]],
                "route", "ok")
  /\ UNCHANGED <<run, transport, task, res, unsettled, tally, heard, outputs>>

\* Slip: stop only when nobody at all has a lens.
AllBlind == blind = roster

CoreBlind == blind \cap Core # {}

\* A core lane has no lens: not a degraded audit but a different one.
AbortBlind ==
  /\ pc = "gate" /\ CoreBlind /\ pc' = "aborted"
  /\ Phase([man EXCEPT !.finished = TRUE], "hunt", "failed")
  /\ UNCHANGED <<run, transport, memory, outputs>>

\* gather creates one run_one task per lane, in roster order.
BeginHunt ==
  /\ pc = "gate" /\ ~CoreBlind /\ pc' = "hunt"
  /\ task' = [a \in Agents |-> IF a \in roster THEN "queued" ELSE "idle"]
  /\ UNCHANGED <<run, transport, roster, blind, res, unsettled, tally, heard,
                 man, runjson, outputs>>

-----------------------------------------------------------------------------
(* The hunt: run_one inside the semaphore *)

\* Slip: a coroutine that raises keeps its permit.
PermitsLeaked == {a \in Agents : task[a] \in {"running", "raised"}}

PermitsHeld == {a \in Agents : task[a] = "running"}

First(a, s) == a \in s /\ \A b \in s : a <= b

\* asyncio's semaphore is first come, first served.
Admitted(a) ==
  /\ pc = "hunt"
  /\ Cardinality(PermitsHeld) < MaxConcurrency
  /\ First(a, {b \in roster : task[b] = "queued"})

GoesRemote(a) == a \in Carded /\ transport \in {"auto", "remote"}

\* Slip: without a card, fall back on the local worker.
FallsBack(a) == ~GoesRemote(a)

RunsLocally(a) == ~GoesRemote(a) /\ transport # "remote"

StartRemote(a) ==
  /\ Admitted(a) /\ GoesRemote(a)
  /\ task' = [task EXCEPT ![a] = "running"]
  /\ man' = [man EXCEPT !.agents[a].via = "a2a"]
  /\ UNCHANGED <<run, transport, pc, roster, blind, res, unsettled, tally, heard,
                 runjson, outputs>>

\* transport=remote and no card: an error, never a silent local fallback.
StartUnroutable(a) ==
  /\ Admitted(a) /\ ~GoesRemote(a) /\ transport = "remote"
  /\ task' = [task EXCEPT ![a] = "raised"]
  /\ UNCHANGED <<run, transport, pc, roster, blind, res, unsettled, tally, heard,
                 man, runjson, outputs>>

\* A lane without a lens returns at once, without an attempt.
StartLocal(a) ==
  /\ Admitted(a) /\ RunsLocally(a)
  /\ task' = [task EXCEPT ![a] = IF a \in blind THEN "returned" ELSE "running"]
  /\ res' = [res EXCEPT ![a] = IF a \in blind THEN NoLens ELSE @]
  /\ man' = [man EXCEPT !.agents[a].via = "local"]
  /\ UNCHANGED <<run, transport, pc, roster, blind, unsettled, tally, heard,
                 runjson, outputs>>

\* One attempt ends; the loop returns, freeing the permit, or goes round.
EndAttempt(a, r) ==
  /\ res' = [res EXCEPT ![a] = r]
  /\ task' = [task EXCEPT ![a] = IF MayAttempt(r) THEN "running" ELSE "returned"]
  /\ UNCHANGED <<run, transport, pc, roster, blind, unsettled, tally, heard,
                 man, runjson, outputs>>

LocalAttempt(a) ==
  /\ pc = "hunt" /\ task[a] = "running" /\ man.agents[a].via = "local"
  /\ \E r \in LocalAttempts(res[a]) : EndAttempt(a, r)

RemoteAttempt(a) ==
  /\ pc = "hunt" /\ task[a] = "running" /\ man.agents[a].via = "a2a"
  /\ \E r \in RemoteAttempts(res[a]) : EndAttempt(a, r)

\* What neither worker catches (over A2A a body that is not JSON or a bad URL,
\* locally what json.loads raises besides a JSONDecodeError) ends the coroutine;
\* gather hands the exception over as its result, and the usage so far is lost.
WorkerRaises(a) ==
  /\ pc = "hunt" /\ task[a] = "running"
  /\ task' = [task EXCEPT ![a] = "raised"]
  /\ UNCHANGED <<run, transport, pc, roster, blind, res, unsettled, tally, heard,
                 man, runjson, outputs>>

\* gather returns only when every task has ended.
Gathered ==
  /\ pc = "hunt" /\ \A a \in roster : task[a] \in {"returned", "raised"}
  /\ pc' = "settle" /\ unsettled' = roster
  /\ UNCHANGED <<run, transport, roster, blind, task, res, tally, heard,
                 man, runjson, outputs>>

-----------------------------------------------------------------------------
(* The loop after gather, one lane at a time in roster order *)

Settling(a) == pc = "settle" /\ First(a, unsettled)

SettleRaised(a) ==
  /\ Settling(a) /\ task[a] = "raised"
  /\ man' = [man EXCEPT !.agents[a].status = "failed"]
  /\ unsettled' = unsettled \ {a}
  /\ UNCHANGED <<run, transport, pc, roster, blind, task, res, tally, heard,
                 runjson, outputs>>

\* Slip: the file is opened to be written, not appended to.
Overwritten(file, a) ==
  [file EXCEPT ![a] = [r \in Runs |-> IF r = run THEN 1 ELSE 0]]

\* Ledger._write: one more line, of this run, in the file of lane a.
Extended(file, a) == [file EXCEPT ![a][run] = @ + 1]

\* Ledger.append on a record that validates, and on one that does not.  The
\* records of an emission come in any order.
AppendValid(a) ==
  /\ Settling(a) /\ task[a] = "returned"
  /\ tally.good < res[a].recs.good
  /\ ledger' = Extended(ledger, a)
  /\ tally' = [tally EXCEPT !.good = @ + 1]
  /\ UNCHANGED <<run, transport, pc, roster, blind, task, res, unsettled, heard,
                 man, runjson, quarantine, verified, reduced>>

AppendInvalid(a) ==
  /\ Settling(a) /\ task[a] = "returned"
  /\ tally.bad < res[a].recs.bad
  /\ quarantine' = Extended(quarantine, a)
  /\ tally' = [tally EXCEPT !.bad = @ + 1]
  /\ UNCHANGED <<run, transport, pc, roster, blind, task, res, unsettled, heard,
                 man, runjson, ledger, verified, reduced>>

\* The status a lane ends with, from its result r and what append_many made
\* of its records.
FinalStatus(r, n) ==
  IF n.good > 0
    THEN IF r.status \in {"ok", "retried-ok"} THEN r.status ELSE "retried-ok"
    ELSE IF n.bad > 0 THEN "quarantined"
    ELSE IF r.status = "ok" THEN "invalid-output" ELSE r.status

\* Slip: a lane counts once it has returned.
CountedByReturn(a, n) == task[a] = "returned"

\* The lanes returned_valid counts.
Counted(a, n) == n.good > 0

\* The rest of the loop's body for lane a; the next lane starts with tally n.
SettleWith(a, n) ==
  /\ Settling(a) /\ task[a] = "returned"
  /\ tally = res[a].recs
  /\ man' = [man EXCEPT !.agents[a] =
               [@ EXCEPT !.status   = FinalStatus(res[a], tally),
                         !.emitted  = res[a].recs.good + res[a].recs.bad,
                         !.accepted = tally.good,
                         !.tokens   = res[a].billed]]
  /\ heard' = IF Counted(a, tally) THEN heard \cup {a} ELSE heard
  /\ unsettled' = unsettled \ {a}
  /\ tally' = n
  /\ UNCHANGED <<run, transport, pc, roster, blind, task, res, runjson, outputs>>

\* Slip: append_many goes on counting where the lane before it stopped.
SettleKeepingTally(a) == SettleWith(a, tally)

SettleReturned(a) == SettleWith(a, NoRecords)

-----------------------------------------------------------------------------
(* The quorum and what follows it *)

\* Lanes with a non-empty ledger file, whichever run wrote it.
AgentsWithOutput == {a \in Agents : \E r \in Runs : ledger[a][r] > 0}

\* Slip: the ratio alone decides.
NoCoreRule == {}

MissingCore == Core \ AgentsWithOutput

\* ratio < 0.8 and ratio < 0.5, in whole numbers.  The code compares the second
\* with a ratio rounded to three decimals, which changes nothing below a
\* thousand lanes.
BelowQuorum(valid, expected) == 5 * Cardinality(valid) < 4 * Cardinality(expected)

\* Slip: the run is abandoned below a third.
BelowThird(valid, expected) == 3 * Cardinality(valid) < Cardinality(expected)

BelowAbort(valid, expected) == 2 * Cardinality(valid) < Cardinality(expected)

MissingLanes == {a \in Agents : man.agents[a].status \in LostStatus}

TakeQuorum ==
  /\ pc = "settle" /\ unsettled = {} /\ pc' = "decide"
  /\ LET degraded == BelowQuorum(heard, roster) \/ MissingCore # {} IN
       Phase([man EXCEPT !.quorum = [taken    |-> TRUE,
                                     valid    |-> heard,
                                     degraded |-> degraded,
                                     missing  |-> MissingLanes]],
             "hunt", IF degraded THEN "degraded" ELSE "ok")
  /\ UNCHANGED <<run, transport, memory, outputs>>

AbortQuorum ==
  /\ pc = "decide" /\ BelowAbort(man.quorum.valid, roster) /\ pc' = "aborted"
  /\ Phase([man EXCEPT !.finished = TRUE], "report", "failed")
  /\ UNCHANGED <<run, transport, memory, outputs>>

\* verify: everything the ledger holds gets a verdict (module Verifier) and is
\* written to verified.json.
VerifyInto(content) ==
  /\ pc = "decide" /\ ~BelowAbort(man.quorum.valid, roster) /\ pc' = "reduce"
  /\ verified' = content
  /\ Phase(man, "verify", "ok")
  /\ UNCHANGED <<run, transport, memory, ledger, quarantine, reduced>>

\* Slip: a verified.json that is already there is taken as it is.
VerifyOnce ==
  VerifyInto(IF \E a \in Agents, r \in Runs : verified[a][r] > 0
             THEN verified ELSE ledger)

Verify == VerifyInto(ledger)

\* reduce_and_judge reads verified.json, which by now exists.
Reduce ==
  /\ pc = "reduce" /\ pc' = "report"
  /\ reduced' = [run |-> run, from |-> verified]
  /\ Phase(man, "reduce", "ok")
  /\ UNCHANGED <<run, transport, memory, ledger, quarantine, verified>>

\* _aggregate_cost, kept as the summands of its totals over the lanes; what the
\* verifier spent (billed in module Verifier) is added to them.
AggregatedCost == [a \in Agents |-> man.agents[a].tokens]

\* The last flush.
Report ==
  /\ pc = "report" /\ pc' = "done"
  /\ Phase([man EXCEPT !.cost = AggregatedCost,
                       !.finished = TRUE],
           "report", IF man.quorum.degraded THEN "degraded" ELSE "ok")
  /\ UNCHANGED <<run, transport, memory, outputs>>

-----------------------------------------------------------------------------
(* The process *)

Crash ==
  /\ pc \notin Ended /\ pc' = "dead"
  /\ UNCHANGED <<run, transport, memory, man, runjson, outputs>>

\* A new Orchestrator in the same workdir: fresh memory, the same files.
Restart ==
  /\ pc \in Ended /\ run < MaxRuns
  /\ run' = run + 1 /\ pc' = "preflight" /\ transport' \in Transports
  /\ roster' = {} /\ blind' = {}
  /\ task' = [a \in Agents |-> "idle"]
  /\ res' = [a \in Agents |-> FreshResult]
  /\ unsettled' = {} /\ tally' = NoRecords /\ heard' = {}
  /\ man' = NewManifest(run + 1)
  /\ UNCHANGED <<runjson, outputs>>

Lane(a) ==
  \/ StartRemote(a) \/ StartUnroutable(a) \/ StartLocal(a)
  \/ LocalAttempt(a) \/ RemoteAttempt(a) \/ WorkerRaises(a)
  \/ SettleRaised(a) \/ AppendValid(a) \/ AppendInvalid(a) \/ SettleReturned(a)

Driver ==
  \/ Preflight \/ Route \/ AbortBlind \/ BeginHunt \/ Gathered
  \/ TakeQuorum \/ AbortQuorum \/ Verify \/ Reduce \/ Report

Next == Driver \/ (\E a \in Agents : Lane(a)) \/ Crash \/ Restart

Spec == Init /\ [][Next]_vars

\* The event loop runs a coroutine that can run, and every attempt is bounded
\* by a timeout, so both the driver and each lane keep moving.  Nothing makes
\* the process crash or somebody start another run.
Fairness == WF_vars(Driver) /\ \A a \in Agents : WF_vars(Lane(a))

FairSpec == Spec /\ Fairness

-----------------------------------------------------------------------------
(* Properties *)

PerRun == [Agents -> [Runs -> Nat]]

Manifest == [run      : 0..MaxRuns,
             phases   : Seq(PhaseEntry),
             agents   : [Agents -> AgentRun],
             quorum   : [taken : BOOLEAN, valid : SUBSET Agents,
                         degraded : BOOLEAN, missing : SUBSET Agents],
             cost     : [Agents -> Nat],
             finished : BOOLEAN]

\* Every variable holds a value of its type (orchestrator.py, schemas.py).
TypeOK ==
  /\ run \in Runs /\ transport \in Transports /\ pc \in PCs
  /\ roster \in SUBSET Agents /\ blind \in SUBSET Agents
  /\ task \in [Agents -> TaskStates]
  /\ res \in [Agents -> Result]
  /\ unsettled \in SUBSET Agents
  /\ tally \in Emission
  /\ heard \in SUBSET Agents
  /\ man \in Manifest /\ runjson \in Manifest
  /\ ledger \in PerRun /\ quarantine \in PerRun
  /\ verified \in PerRun
  /\ reduced \in [run : 0..MaxRuns, from : PerRun]

\* The lanes that really delivered in this run: their ledger file has a line
\* written by it.
Delivered == {a \in Agents : ledger[a][run] > 0}

\* No record is lost or doubled between a worker and the disk: once the loop
\* after gather has dealt with a lane, the ledger holds as many of its lines of
\* this run as it emitted valid records, the quarantine as many as it emitted
\* invalid ones, and a lane whose coroutine raised has neither.
RecordsAccounted ==
  pc \in {"settle", "decide", "reduce", "report", "done"} =>
    \A a \in roster \ unsettled :
      LET emitted == IF task[a] = "raised" THEN NoRecords ELSE res[a].recs IN
        /\ ledger[a][run] = emitted.good
        /\ quarantine[a][run] = emitted.bad

\* Every failure is visible: when the quorum is taken, each lane of the roster
\* is either counted as valid or named as missing, never both and never
\* neither, although the count and the names come from different variables.
LanesAccounted ==
  man.quorum.taken =>
    /\ man.quorum.valid \cap man.quorum.missing = {}
    /\ man.quorum.valid \cup man.quorum.missing = roster

\* The quorum gates the report: a run that goes on to verify, reduce or report
\* has lines of its own in the ledger from at least half of its roster, and no
\* core lane of it was without a lens.
ReportGated ==
  pc \in {"reduce", "report", "done"} =>
    /\ 2 * Cardinality(Delivered) >= Cardinality(roster)
    /\ blind \cap Core = {}

\* A report without the DEGRADED banner: four fifths of the roster and every
\* core lane delivered in this very run.
HonestBanner ==
  pc = "done" /\ ~man.quorum.degraded =>
    /\ 5 * Cardinality(Delivered) >= 4 * Cardinality(roster)
    /\ Core \subseteq Delivered

\* Registered at spawn time, so a hang or a crash is visible: a lane that has
\* been started, or that died with the process, is listed in run.json.
RegisteredBeforeRunning ==
  \A a \in Agents :
    task[a] # "idle" =>
      /\ runjson.run = run
      /\ runjson.agents[a].status \notin {"absent", "skipped"}

\* The two files agree, whatever happened to the process since, a later run in
\* the workdir included: once run.json carries a quorum, its record counts are
\* those of the ledger and the quarantine for its run.
ManifestMatchesLedger ==
  runjson.quorum.taken =>
    \A a \in Agents :
      LET m == runjson.agents[a] IN
        /\ m.accepted = ledger[a][runjson.run]
        /\ m.emitted = m.accepted + quarantine[a][runjson.run]

\* reduced.json is computed from the whole ledger as it is when the run ends,
\* never from a verified.json an earlier run left behind.
ReportCoversLedger ==
  pc = "done" => reduced.run = run /\ reduced.from = ledger

\* transport=remote never turns into a local hunt: what a run so configured
\* counts was delivered by lanes with a card, over A2A.
NoSilentFallback ==
  transport = "remote" =>
    \A a \in heard : a \in Carded /\ man.agents[a].via = "a2a"

\* The first token is spent only with every core lens in place: in a run a core
\* lane of which has no lens, no worker ever makes an attempt.
NothingSpentBlind ==
  blind \cap Core # {} => \A a \in Agents : res[a].attempts = 0

\* The files only grow, and only with lines of the current run; a report, once
\* written, is replaced by a later run's and by nothing else.
OnlyOwnLines ==
  [][/\ \A a \in Agents, r \in Runs :
          /\ ledger'[a][r] >= ledger[a][r]
          /\ quarantine'[a][r] >= quarantine[a][r]
          /\ r # run => /\ ledger'[a][r] = ledger[a][r]
                        /\ quarantine'[a][r] = quarantine[a][r]
     /\ reduced'.run # reduced.run => reduced'.run = run /\ reduced.run < run]_vars

\* The run ends: whatever the lanes do, nobody waits for ever on the semaphore
\* or at the barrier.
RunEnds == pc = "preflight" ~> pc \in Ended

-----------------------------------------------------------------------------
(* What the documentation says and the code does not keep *)

\* "If any always-on core agent failed, the run is DEGRADED regardless of
\* ratio" (reliability.md:100).
CoreLossDegrades ==
  pc = "done" /\ (\E a \in Core : man.agents[a].status \in LostStatus)
    => man.quorum.degraded

\* "A crash mid-run leaves every completed record intact" (reliability.md:20).
CompletedSurvivesCrash ==
  pc = "dead" =>
    \A a \in Agents : task[a] = "returned" => ledger[a][run] = res[a].recs.good

-----------------------------------------------------------------------------
(* The audit as its reader sees it (module AuditGate) *)

LaneView(a) ==
  CASE man.agents[a].status \in {"absent", "spawned", "skipped"} -> "pending"
    [] man.agents[a].status \in {"ok", "retried-ok"} -> "heard"
    [] OTHER -> "lost"

VerdictView ==
  CASE pc = "aborted" -> "aborted"
    [] pc = "done" -> IF man.quorum.degraded THEN "degraded" ELSE "complete"
    [] OTHER -> "silent"

Gate == INSTANCE AuditGate WITH
          team <- roster,
          lane <- [a \in Agents |-> LaneView(a)],
          verdict <- VerdictView

\* A single run in a workdir of its own keeps every promise of AuditGate.
GateSpec == Gate!GateSpec
=============================================================================
