# Solidity auditor: TLA+ verification

TLA+ models of the multi-agent audit service under `service/audit_mas/` and of the
scripts it shares with the skill (`references/scripts/`, `references/evals/`), the
TLC configurations that check them on small instances, and theorems about them
that TLAPS checks for every value of the constants. Paths below are relative to the
repository; short names such as `orchestrator.py` are files of
`service/audit_mas/`, and `reduce.py`, `validate_findings.py`, `render_report.py` and
`score.py` those under `references/`.

## 1. The system

An audit is one call of `Orchestrator.run`: a system map is *routed* to a roster
of agents (lanes), the lanes *hunt* concurrently, what they report is *validated*
into a ledger of files, a *quorum* decides whether there is anything to say,
a critic *verifies* the findings, and they are *reduced* and *judged* into
`reduced.json`. `run.json`, the manifest, says what happened on the way. The skill
does the same with a language model in the orchestrator's place and scripts for
what must be mechanical: `validate_findings.py` for the ledger's schema check and
`reduce.py` for the reduction. Either `reduced.json` is rendered to a page and
scored against known bugs by one pair of scripts.

| Component | State it keeps | Operations | Talks to |
| --- | --- | --- | --- |
| orchestrator (`orchestrator.py`) | the manifest, `blind_agents`, the gather's tasks and their semaphore; files `run.json`, `roster.json`, `verified.json`, `reduced.json` | `run`, `route`, `hunt`, `verify`, `reduce_and_judge`, `_aggregate_cost`, `_phase`/`_flush` | everything below |
| hunting worker (`agents/base.py`) | one `AgentResult` | `HuntAgent.run`: at most two attempts; `extract_records` | the provider (awaited, with a timeout) |
| remote transport (`a2a_client.py`, `a2a_server.py`) | the client's `AgentResult`; one `HuntAgent` per request on the server | `RemoteHuntAgent.run`; `/tasks/hunt`; `/tasks/verify` | HTTP |
| ledger (`core/ledger.py`) | `ledger/agent-<id>.jsonl`, `quarantine.jsonl` | `append`, `append_many`, `read_all`, `agents_with_output` | the schema |
| verifier (`agents/verifier.py`) | each finding's `verification`; token usage | `verify_all` (bounded fan-out), `verify_one` (critic loop) | the provider |
| router (`core/router.py`) | none | `build_roster` | the system map |
| reduction (`core/reduction.py`) | none | `reduce_findings`, `compute_confidence`, `axis_coverage`, `severity_cap` | the ledger's findings |
| judging (`core/judging.py`) | none | `judge`: four gates, admin amplifier, severity | reduced records |
| schemas (`schemas.py`) | none | validators of findings, manifest, map | ledger, server |
| ingest (`ingest.py`) | none | `extract_evidence`, `rank_hot_functions`, `build_system_map` | router, reduction |
| command line (`cli.py`) | the workdir | `map`, `roster`, `audit` | ingest, router, orchestrator |
| skill scripts (`references/scripts/`) | `valid.jsonl`, `quarantine.jsonl`, `reduced.json`, the page | `validate_findings.py`, `reduce.py`, `render_report.py` | each other's files |
| evals (`references/evals/score.py`) | a scorecard | `score_case`, `calibration` | `reduced.json`, ground truth |
| providers, ADK graph, lenses | none worth modelling | SDK calls, an optional external framework, prompts | |

What is hard, and what makes each component correct:

* **Orchestrator and ledger.** The lanes run concurrently, bounded by a
  semaphore; each may time out, raise, return nothing, return rejects. Nothing
  is written until *all* have returned, then one lane at a time. The process may
  die anywhere, and the default workdir is reused by the next run, so a run reads
  files another one wrote. Correct means: no record lost or doubled; every lane
  counted or named missing; no report without a quorum of this run's own output;
  no lane started before it is on disk; `run.json`, ledger and `reduced.json`
  agree; the run ends.
* **The ledger's files.** Text a model returned is searched for records; each is
  appended under a lock per file, by a write that a crash or a full disk can cut
  short, to a file the next run appends to. Correct means: what a text says on a
  line, or as the one value of a fence, is taken, what `append` accepted is in the file in order, a fault costs the
  line being written and no other, nobody waits for a lock for ever, and a reader
  that returns at all returns everything.
* **Workers and transport.** Client and server retry independently, and the
  client's timeout is shorter than what the server may take. Correct means: spend
  is bounded, an answer is one request's answer, retries are visible.
* **Verifier.** A loop with a critic that may fail, ramble, weaken or rule, per
  finding, several at once. Correct means: the verdict is the critic's last word,
  the loop stops, tally and usage add up.
* **Router.** Eighteen triggers, four seams and a cap, said to be the executable
  twin of a table in `routing.md`. Correct means: what the table has a map spawn
  runs or is listed as skipped, the core always runs, and the cap takes the least
  important first. Its map comes from regular expressions over the
  source, where a false negative costs a lane without a trace.
* **Reduction and judging.** Arithmetic with thresholds over merged records.
  Correct means: no merging across functions and nothing merged away, agreement
  never hurts, severity within the claim and the cap, refutation is final, a
  coverage gap is listed exactly when nobody looked.
* **Skill scripts and scorer.** Three copies of one table of synonyms and two of
  the reduction, edited on their own, over files in one format. Correct means: the
  copies agree wherever they are said to, what either half writes can be rendered,
  and every record on the page is scored once.

The hazards behind these properties are listed line by line in `PROJECT.json`.

## 2. Modules

```
AuditGate <--- refines --- Orchestrator --- EXTENDS ---> Workers <--- EXTENDS --- RemoteHunt
                                |  route: Intake   append: LedgerFiles   verify: Verifier   reduce: Pipeline
Intake --- EXTENDS ---> Router, Ingest
LedgerFiles --- EXTENDS ---> Extraction --- EXTENDS ---> Listing
Pipeline --- EXTENDS ---> Scoring --- EXTENDS ---> Judging --- EXTENDS ---> Reduction
    |--- EXTENDS ---> ScriptReduction --- EXTENDS ---> Reduction
    `--- EXTENDS ---> Ingest
ManifestProofs --- EXTENDS ---> OrchestratorProofs: theorems about Orchestrator, and that it implements AuditGate
LedgerFilesProofs, RemoteHuntProofs, VerifierProofs: theorems about the module each is named for
RouterProofs, PipelineProofs: theorems about Router and Intake, and about Pipeline and all it EXTENDS
Orders: lemmas about finite ordered sets, for all of these but RemoteHuntProofs
MCOrchestrator, MCRemoteHunt, MCLedgerFiles, MCRouter, MCPipeline: instances for TLC
```

**Workers** holds the two workers as functions on `AgentResult`: one operator per
way an attempt can end (`TimedOut`, `ProviderFailed`, `Completed`, `NoLens`;
`PostFailed`, `Answered`). A completion is abstracted to its *emission*: how many
valid and how many invalid records `extract_records` finds in it.

**Extraction** is `extract_records`: a text is its fences and the loose rest, each a
sequence of JSON values that stand on a line, over several lines, are broken, or
stand on a line that `splitlines` splits at a raw separator inside a string.
What the three searches take from it, and which search is made at all, is the
module. **Listing** has the two operations on lists it is written with: what is
picked out of a list by its places, and lists joined end to end. Both say which
element is the n-th; nothing is folded, so that they can be reasoned about.

**LedgerFiles** is `Ledger` down to the writes. An agent's thread goes through
`Extract`, `Acquire`, `Write`, `Finish` for each record (or `CannotEncode`,
`WriteFails`), and `Finished`. A file is its lines and what follows the last
newline; a line is the records begun in it and the one that ends it, so that torn
and glued lines can be told from whole ones. `CrashAndRerun` frees the locks and
keeps the files. `ReadsThrough` and `ReadBack` are `read_all`, `Admitted` is the
batch validator over the same file. Orchestrator calls the ledger from one thread,
one record after the other; this module checks the contract `Ledger` states for
itself, with a lock per file.

**Orchestrator** is one workdir and the runs made in it. `pc` is the line of
`run()` the driver is at. `Preflight`, `Route`, `AbortBlind`, `BeginHunt`,
`Gathered`, `TakeQuorum`, `AbortQuorum`, `Verify`, `Reduce` and `Report` are the
driver's; `StartLocal`, `StartRemote`, `StartUnroutable`, `LocalAttempt`,
`RemoteAttempt` and `WorkerRaises` (what neither worker catches: a body that is
not JSON, a completion over which `json.loads` raises more than a
`JSONDecodeError`) are `run_one` of a lane, one step per await;
`AppendValid`, `AppendInvalid`, `SettleReturned` and `SettleRaised` are the loop
after the gather, one step per line written, since the process may die between
any two. Every `_phase` call is part of its action, with the flush to `run.json`
it makes. Lanes are positions in the roster, so that the order of the gather, of
the semaphore and of the loop is the order of numbers. `ledger[a][r]` counts the
lines of lane `a` that run `r` wrote: the code cannot tell the runs apart, and
`AgentsWithOutput` cannot either, but the properties can. `Crash` may happen at
any step; `Restart` is a new Orchestrator in the same workdir.

**AuditGate** is what a run promises its reader: a team is asked, each lane is
heard or lost, and the run says *complete*, *degraded* or *aborted* according to
four fifths and the core, or one half. `Orchestrator!GateSpec` is that
specification under the mapping `LaneView`, `VerdictView`.

**RemoteHunt** opens up the remote attempt that Orchestrator takes as one step:
client, network, endpoint and the endpoint's own `HuntAgent`, per post. A client
that gives up leaves the server working; a server may die under a request.

**Verifier** is `verify_all`: `FanOut`, one `Argue` step per round of a finding
(`CriticFails`, `CriticRambles`, `CriticRules`), and `Tally`, which includes the
defaults. `said` records what the critic uttered, so that the verdict can be
compared with it: `AmountsTo` reads the verdict off the words, the last ruling if
there is one and the critic did not fail after it, and `Answers` are the words that
cost something. A finding may arrive with a verification of its own, because
the schema allows it and the ledger does not strip it; the model lets it be
absent or `CONFIRMED`.

**Router** is `build_roster` as one step. `Rules` is every call of `add` in
order; `Reasons` is the dictionary, as the position of insertion, which the
stable sort depends on. `RoutingTable` and `Promised` say what `routing.md`
promises, written from the document and for the property only; `LeftOut` and
`AddedOn` are the pairs in which the code departs from it. **Ingest** is the headless map: a target is the set of
telling words in it, `Tells` is what the patterns make of each, `Backfilled` adds
the EIPs nobody spells out; the hot functions are ranked from what each function's
head and body show. **Intake** composes the two as the command line does.

**Reduction** and **Judging** are the service's pure part: lists of findings are
reduced and judged. The regular expressions of the gates become sets of telling
words (`attacker`, `admin`, `amplifier`, ...). Gate 4 is left out: its verdict is
recorded and nothing reads it. **ScriptReduction** is the skill's half,
`structural_errors` and `reduce.py`, written from those files; what is the same
code word for word (synonym keys, fingerprints, the summary of places) is shared.
**Scoring** is `score_case`. **Pipeline** composes them over the files: findings
come in one by one (`Record`), either half leaves a `reduced.json`
(`ReduceAndJudge`, `ReduceByScript`), and the shared scripts read it (`Render`,
`Score`). `accepted` and `validated` are what the schema of the service and the
script's own check let through of the findings; the order in each is that of the
files.

In several modules a comment "Slip:" marks a wrong variant of the definition
after it. The specifications do not use these; each is a plausible programming
error that at least one property is known to detect when it takes the
definition's place (`PROJECT.json`, `mutants`).

## 3. Runs

| Run | Module | Configuration | Result | Distinct states |
|---|---|---|---|---|
| `runs` | `MCOrchestrator` | `Orchestrator_runs.cfg` | pass | 469,304 |
| `fleet` | `MCOrchestrator` | `Orchestrator_fleet.cfg` | pass | 1,368,244 |
| `stale_output` | `MCOrchestrator` | `Orchestrator_stale.cfg` | violates `CoreLossDegrades` | — |
| `crash_gather` | `MCOrchestrator` | `Orchestrator_crash.cfg` | violates `CompletedSurvivesCrash` | — |
| `ledger_files` | `MCLedgerFiles` | `LedgerFiles_append.cfg` | pass | 158,606 |
| `remote_lane` | `MCRemoteHunt` | `RemoteHunt_lane.cfg` | pass | 4,051 |
| `remote_drops` | `MCRemoteHunt` | `RemoteHunt_drops.cfg` | violates `RejectsReachTheOrchestrator` | — |
| `verify_phase` | `Verifier` | `Verifier_phase.cfg` | pass | 519,960 |
| `verify_presets` | `Verifier` | `Verifier_presets.cfg` | violates `ConfirmedWereSent` | — |
| `router_caps` | `MCRouter` | `Router_caps.cfg` | pass | 38,860 |
| `pipeline_report` | `MCPipeline` | `Pipeline_report.cfg` | pass | 100,387 |
| `report_renders` | `MCPipeline` | `Pipeline_renders.cfg` | violates `ReportRenders` | — |

The runs that end in a violation each check one sentence of the repository that the
code does not keep; section 6 tells what they found.

What the passing runs show:

* `runs`: two runs in one workdir. Whatever the workers do and whenever the process
  dies, `RecordsAccounted`, `LanesAccounted`, `RegisteredBeforeRunning`,
  `NoSilentFallback` and `NothingSpentBlind` hold in either run;
  `ManifestMatchesLedger`, `ReportCoversLedger` and `OnlyOwnLines` relate the files
  to each other and to the run that wrote them; and `RunEnds`: nobody waits for
  ever on the semaphore or the gather.
* `fleet`: five lanes, of which one is core, all remote, two permits. `ReportGated`
  and `HonestBanner` at the exact thresholds (four of five, and two or three of
  five; smaller rosters give one half), and the refinement `GateSpec`.
* `ledger_files`: `SaidIsTaken` of every text (a record on a line of a fence, or in a
  fence that is one value, whatever stands around it); `AnswersOnDisk`: the lines of a file
  end in exactly what `append` said it wrote, in order, and only faults tear one;
  `ReadAllComplete`: `read_all` raises or returns everything, and without a fault it
  raises only over a line separator inside a record, which the batch validator
  reads past; `AppendsEnd`: no exception leaves a lock behind, and nobody
  waits for ever for a file.
* `remote_lane`: never a mixture of answers (`OneAnswerOnly`), `ok` exactly when
  nobody retried (`RetriesShow`), and everything stops, orphans included
  (`EverythingStops`). `TypeOK` bounds the attempts on either side by two, so a lane
  costs at most four provider calls, where `reliability.md` allows two (section 6).
* `verify_phase`: `VerdictIsTheCritics`, `TallyAddsUp`, `UsageCounted`, `VerifyEnds`,
  for every sequence of answers up to the ceiling of each budget.
* `router_caps`: `EveryLaneAccounted`, which compares roster and skipped list with
  the document's table and not with `Rules`; `CapRespected`, `DropsRespectPriority`, and
  `SpecialistsRun`: above `quick` the caps only ever cost tooling and
  gap-hunters. For sources that are ingested, `EvidenceFires`: one more word never
  takes a lane away, and what a target does fires lane and EIP expert without the
  number. (A headless map knows neither invariants nor semi-trusted actors, so the
  lanes these trigger never run from the command line.)
* `pipeline_report`: `FunctionIsolation` (nothing crosses functions, nothing is
  merged away, fixes included, and the queue for adjudication is empty),
  `SeverityWithinCap`, `AgreementHelps`, `OrderOnlyBreaksTies` of the service;
  `TwinsAgree` of service and script; `GapsAreReal` of either report's coverage;
  `ScoreAddsUp` and `MergedIsFound` of the scorer.

### Bounds, and why they are enough

* `MaxRuns`: 1, or 2 where a run is to find another's files. A third run sees
  nothing a second does not: files are only told apart as *current* and *earlier*.
* Two lanes and one permit in `runs`: a core lane and another, one with a card,
  either of which may be blind; one lane waits while the other runs. Five lanes
  where the thresholds matter.
* Emissions of at most one valid and one invalid record reach every final status;
  `remote_lane` adds two valid ones to tell answers apart.
* `SampleTexts`: silence, a text without fences, an array, two fences, a useless
  fence, a fence with everything in it; among the records one each of valid,
  invalid, unencodable, with a separator. Two threads share the quarantine;
  `MaxFaults = 1` leaves a torn line and the runs behind it.
* `MaxAttempts` is the code's own 2. Budgets, thresholds and ceilings of the
  verifier and the router are the code's own values, all of them.
* `verify_phase` has two findings and one permit, so that one waits for the other;
  the arguments do not otherwise interact.
* `SampleMaps`: at most two evidence fields set, or at most two unset, with both
  sides of every other threshold. The caps bite on the broad ones only.
  `SampleTexts` of the router: at most two telling words, and all but at most one.
* `SamplePool` and `MaxFindings = 3`: two places, two synonym classes and three
  others, all verdicts, every gate's branches, records only one half admits, proofs
  the two sort keys order differently; a group of three has a best and two others.
  `SampleSources` has a function for each default of required axes and one beyond
  `HotLimit`; `SampleTruth` a bug in the cluster the scorer lacks.

`CHECK_DEADLOCK FALSE` everywhere: an audit, a lane, a phase and a computation end.

### Fairness

`Fairness` of Orchestrator is weak fairness of the driver and of each lane: the
event loop runs every coroutine that can run, the semaphore is first come, first
served, and every attempt ends because `asyncio.wait_for` (or httpx's timeout)
bounds it. No fairness is asked of `Crash` and `Restart`; a run that crashes has
ended too. `RemoteHunt` asks it of the client posting, taking an answer or giving up
(the httpx timeout) and of each handler (`wait_for` on the server), and none of the
network: messages may be lost or never delivered. `Verifier` asks it of the driver
and of each argument (`wait_for`). `LedgerFiles` asks it of each agent's thread: a
thread that can run is run, and a lock that is free is given to someone who waits;
no fault is ever required to happen.

## 4. Proofs

`tlapm` proves 6,662 obligations: 939 in `OrchestratorProofs`,
767 in `ManifestProofs`, 1,551 in `LedgerFilesProofs`,
215 in `RemoteHuntProofs`, 738 in `VerifierProofs`,
643 in `RouterProofs`, 1,703 in `PipelineProofs`, 106 in
`Orders`. No step is left without a proof. Every safety invariant and every action
property that a passing run of section 3 checks is a theorem, for every value of the
constants that the named assumptions of its module allow; so is the refinement
`GateSpec`. Some theorems say more than a run checks (`LocksAreGivenBack`,
`NobodyIsStuck`, `CostCeiling`). The invariants below were checked by TLC, on the
instances of section 3, before they were proved.

**OrchestratorProofs**, from `AgentsAssumption` and `EmissionsAssumption` only
(a finite set of lanes, a non-empty core in it, at least one permit and one run):

* `TypeCorrect`. `TypeOK` is not inductive: an attempt counts up to two only
  because a worker goes round again only when `MayAttempt`. `Underway` says so of
  every running lane, and that a lane not yet started has a fresh result.
* `NoRecordLost` (`RecordsAccounted`). `Filing` adds what the loop after the
  gather is at: the first unsettled lane has exactly `tally` on disk, those behind
  it nothing, and runs to come have written no lines, without which a restart
  would not re-establish it.
* `ReportIsGated` (`ReportGated`). `Counting`: whoever is in `heard` has a line of
  this run, and past the gates their conditions go on holding.
* `EveryLaneNamed` (`LanesAccounted`). `Naming`: for settled lanes, being counted
  and carrying a lost status exclude each other. It rests on the fact that a
  worker that says `retried-ok` holds a record, since `FinalStatus` passes that
  status on.
* `BannerIsHonest` (`HonestBanner`), for `MaxRuns = 1`. With a second run it is
  false (section 6). `Judged`: the flag goes on describing the ledger.
* `NothingIsSpentBlind` (`NothingSpentBlind`). With a core lane blind the gate is
  never passed, so no lane is ever started.
* `FanOutBounded` and `NobodyIsStuck`, the half of `RunEnds` that needs no fairness:
  never more workers than permits, and until a run has ended there is a lane that
  runs, is next for a free permit, or can be settled. `Manned`: while hunting exactly
  the roster has tasks, so a permit can only be with a lane that runs, and the loop
  never has more on disk of a lane than the lane has records.

**ManifestProofs**, from the same assumptions and the invariants above:

* `EveryLaneRegistered` (`RegisteredBeforeRunning`). `Registering` starts earlier
  than the property: from the gate on, every lane of the roster is in the manifest
  and in its copy on disk, and no later flush takes one out.
* `ManifestTellsTheFiles` (`ManifestMatchesLedger`). `Matching`: the count of a
  settled lane is that of its lines, that of an unsettled one is 0, and until the
  quorum the copy on disk carries none, so that a crash in the loop leaves nothing
  to contradict the files.
* `ReportIsOfThisLedger` (`ReportCoversLedger`). `Covering`: what is reduced is what
  was verified, which is the whole ledger, and no report is of a run to come.
* `OnlyOwnLinesWritten` (`OnlyOwnLines`), an action property: from `Covering`, since
  a report must not be replaced by an older one.
* `NeverFallsBack` (`NoSilentFallback`). `Remotely`: with transport=remote, whoever
  runs or has returned has a card and is listed as `a2a`.
* `KeepsTheGate` (`GateSpec`), for `MaxRuns = 1`: the refinement, step by step. Under
  the mapping a step assembles the team, settles a lane, publishes or refuses, or
  changes nothing that AuditGate sees. `Seen` says which view a lane has at which
  line of `run()`; that the quorum's arithmetic is the gate's is `BannerIsHonest` and
  `ReportIsGated` again.

**LedgerFilesProofs**, from `LedgerAssumption`: nobody is called `quarantine`, the
texts are texts and the special records records. The first part is about `Listing`
and `Extraction`. `Picked` and `Joined` say what the n-th element is, so that what
they return follows from counting (`EachNumberTaken` of Orders: a finite strict order
has a member with n others before it, for each n) where a fold would need an
induction. `ExtractIs`: a text yields a list of records without repeats, with every
record on a line of a fence in it, and on a line of the rest if the fences yield none.
The invariant `FilesInv` says how locks and files belong together:

* `Locked`: whoever is in `_write` has a record to write and the lock of the file it
  goes to. Its converse is `Worked`: whoever holds a lock is in `_write`, at that very
  file. Together they are `LockIsTheWriters` (theorem `LocksAreGivenBack`), the half of
  `AppendsEnd` that needs no fairness; `NobodyWaitsForAWaiter` concludes that a thread
  waiting for a file waits for one that waits for nothing.
* `Begun`: the last thing begun in a file is the record of whoever is writing to it,
  which is why a line that began with a single record ends with the same one.
* `Kept`: line by line, a file ends in the acknowledged records.
* `Spent`: torn lines and records begun and not ended are together at most
  `faults`, and one more while somebody is in the middle of a line. A write borrows
  one, the end of the line pays it back (`FinishPays`), a crash or a failed write
  makes the loan a loss. The number of torn lines alone is not inductive: a torn
  line is made by the *next* record appended behind a rest, long after the fault.

From these `TypeCorrect` (`TypeOK`), `AppendedIsOnDisk` (`AnswersOnDisk`) and
`ReadBackComplete` (`ReadAllComplete`: where nothing is owed, no line is torn, and
picking the whole lines picks all). `SaidTaken` (`SaidIsTaken`) adds `Taking`, that
what a text yielded is still to be appended or on disk, and `Single`, that as long as
nothing failed an agent has nothing to append that is in its file.

**RemoteHuntProofs**, from the assumption on emissions: `RemoteTypeCorrect`
(`TypeOK`; `Waiting`: whoever goes on has an attempt left, posts to come are unsent, a
handler works on what was delivered), and, from `Taken`, `LaneIsOneAnswer`
(`OneAnswerOnly`) and `RetriesAreShown` (`RetriesShow`). `Taken` relates the result to
the post it came from; it is inductive because a server that has answered does not
go on hunting, so that the answer stays what it was when it was taken.

**VerifierProofs**, for any finite set of findings and any number of permits:

* `VerifierTypeCorrect` (`TypeOK`): `RoundsLeft`, an argument that goes on is below
  the ceiling of the budget.
* `VerdictCarried` (`VerdictIsTheCritics`). `Arguing`: at every moment of an argument
  its own copy of the verdict amounts to the words so far, and there is no error
  among them but the last. Nothing is inducted over the words: the property reads
  the verdict off the last ruling, and one more word is the last.
* `TallyComplete` (`TallyAddsUp`). `Tallying`; that five columns add up is a
  partition of a finite set.
* `BillComplete` (`UsageCounted`). `Billing`: each word adds one to the answers or
  none (`AnswersGrow`). With `Rounds`, that the words are as many as the rounds, it
  gives `CostCeiling`: a product of targets and rounds bounds the bill.
* `CriticsBounded` and `NoArgumentIsStuck`, as for the orchestrator.

**RouterProofs**, for every set of system maps that satisfies `MapsAssumption`:
`NoLaneDisappears`, `PriorityRespected`, `CapKept`, `SpecialistsAlwaysRun`. The first
compares the code's table with the document's, entry by entry both ways
(`RulesAreRouted`, `RoutedAreRules`), and the conditions over counts. What is
kept is an initial segment of a strict order, numbered by counting what is ahead;
`SpecialistsAlwaysRun` counts that the core and all specialists together are no more
than any cap above `quick`. `IntakeKeepsRouter` carries the four over to maps read from
sources, and `EvidenceAlwaysFires` (`EvidenceFires`) goes through every pattern: none
stops firing for one more word.

**PipelineProofs**, for every pool of findings and every target. `PoolAssumption` asks
that a finding of the pool passes one of the two checks and that its lengths are
numbers, `TargetAssumption` that sources and functions are lists and the known bugs
finitely many. Two invariants carry everything: `Admitted` (`OnlyAdmittedReduced`:
`accepted` and `validated` are what the checks let through) and `Told`
(`ReportFollows`: report, page and score are each the function of the one before).
The rest is about what these functions return:

* `ConfidenceComputed` and `SeverityJudged` for a single finding, and from them
  `SeverityCapped` (`SeverityWithinCap`) for every report.
* `FunctionsIsolated` (`FunctionIsolation`), `AgreementNeverHurts` (`AgreementHelps`),
  `OrderImmaterial` (`OrderOnlyBreaksTies`), `TwinsAgreed` (`TwinsAgree`). That a group
  has exactly one best is `FirstInOrder`, the first member of a finite strict
  order; agreement compares the best of a list with that of the list and one more,
  the order's irrelevance maps each place of the list to its place from the end.
* `GapsReal` (`GapsAreReal`), `ScoreComplete` (`ScoreAddsUp`), `MergedFound`
  (`MergedIsFound`): counting over finite sets, and a comparison of two tables of
  synonyms entry by entry.

The attempt to prove `GapsAreReal` corrected it: it had let a note the report's half
does not admit count as looked at, which the code does not, and which no finding of
the sample pool could tell apart.

Only model-checked: the liveness properties (`RunEnds`, `EverythingStops`,
`VerifyEnds`, `AppendsEnd`), since their proofs need ENABLED, which the prover does not
reason about; and, of course, the sentences that are false (section 6).

## 5. Assumptions of the model

* A step is atomic between two awaits or two writes. In Orchestrator a ledger line,
  `run.json`, `verified.json` and `reduced.json` are each written at once; the code
  writes them in place, so a crash may tear them. LedgerFiles opens up the line: a
  record takes two writes, and what is on disk between them is its beginning.
* One run at a time in a workdir. The locks of a ledger are those of one process.
* `validate_findings.py` as it works without the `jsonschema` package.
* Names are compared as they are; the scorer's lower-casing is left out.
* A crash loses all memory and no file. The two flushes at the end of an aborted
  run are one step.
* `roster.json`, coverage, outcome, durations and markers are not in the manifest;
  cost is kept per lane, and the verifier's share is its `billed`.
* The system map's facts are independent, except that the two EIP numbers are
  entries of `eip_surfaces`.
* A record's text is the set of telling words in it; `root` is its root cause.
* In LedgerFiles the last write of a record and the return of `append` are one step:
  a record that is whole on disk while its `append` has not returned is not seen.
  What `append` acknowledged is on disk either way.
* `LedgerFiles!Admitted` is what of a file gets as far as the schema in
  `validate_findings.py`; what passes there is `Validating` of Pipeline.
* Several threads on one `Ledger` are what its locks promise; the orchestrator uses
  one. Where `runs` and `verify_phase` have one permit, awaits interleave and no
  read and write of the usage counter are apart, so `UsageCounted` is about what is
  billed and not about a race.
* `fleet` has one run and no blind lanes: that `ReportGated` holds with stale files
  and blind lanes beside it is the theorem `ReportIsGated` alone.
* `judge` without its `overrides`, which the orchestrator never passes.

## 6. What the checks found

Each of these is a run that ends in a counterexample; `PROJECT.json` quotes the
lines.

1. `stale_output`: in a second run in a workdir, a failed core lane is hidden by
   its ledger file of the first run. At a ratio of exactly 0.8 the report carries
   no banner at all.
2. `crash_gather`: records of lanes that have returned are lost if the process
   dies before the slowest lane is done, although the ledger is called the
   recovery point.
3. `remote_drops`: records a remote worker's service rejects are returned in
   `invalid_records`, which the client ignores: they reach no quarantine.
4. `verify_presets`: a finding below the verification threshold that arrives with
   `verification` set to CONFIRMED keeps it and is tallied as confirmed.
5. `report_renders`: the service's coverage gaps have no `bug_class`, and
   `render_report.py` raises a `KeyError` over the first one.

Met while modelling, without a run:

* The docstring of `orchestrator.py` (line 12) promises no report with a core lane
  missing; line 342 aborts on the ratio alone and the report is degraded, as
  `reliability.md` says.
* `reduce.py` and `reduction.py` are called the same arithmetic
  (`reduction.py:3`, `tests/test_parity.py`), but rank the members of a group by
  different lengths, the script with the PoC as a fourth key. `TwinsAgree` says
  exactly where they may then differ.
* The scorer's synonym table lacks the `unchecked-return` cluster of the reducer's;
  `MergedIsFound` excepts it. It also has classes the reducer's lacks.
* `routing.md` and `router.py`, its "executable twin" (`router.py:3`), part in three
  places: `routing.md:57` has `has_fixed_point` spawn `asymmetry`, `router.py:42`
  does not; `routing.md:45` has `has_async_request_lifecycle` spawn
  `numerical-gap`, `router.py:30` has `flow-gap` in its place; `routing.md:74`
  has two contracts with value edges between them spawn `flow-gap`, and
  `_gap_hunters` does not look at them. The lanes left out neither run nor are
  listed as skipped. `EveryLaneAccounted` excepts the first two pair by pair and
  leaves the third out of what it promises. `routing.md:180` also lists a fuzzer
  as skipped because its tier needs a deeper budget; the code lists only what the
  cap dropped.
* `reliability.md:44` allows one retry per agent, ever. A remote lane is retried
  by the client and by the server's own worker, up to four provider calls.
* A line is what `splitlines` makes of it (`base.py:170`), so a valid record with a
  raw U+2028, U+2029 or U+0085 in a string is broken apart and lost, unless it is
  the whole of its fence.
* A torn line costs one more record than the fault: the next run's first record is
  glued behind it, although `append` acknowledged it and `ledger.py:5` says
  "whatever reached disk is intact and valid". `AnswersOnDisk` counts it as that fault's.
* `json.loads` can raise more than `JSONDecodeError` (a number of too many digits,
  too deep a nesting); in a local worker this is outside every `try`, and the lane
  fails with all the completion held.
* `read_all` raises over a record that `append` accepted if it contains U+2028,
  U+2029 or U+0085, and over every file with a torn line, in all later runs.
* A record with a lone surrogate makes `append` raise, in the quarantine too.
* The confidence caps of `confidence.md:90` (70 and 60) are not the code's (60 and
  40), which `orchestration/judging.md:160` has; `SeverityWithinCap` states the
  latter and would not catch the difference.
* `merge_queue` cannot ever be filled (`FunctionIsolation` states it).
* A refutation, counter-evidence or residual risk of the critic that is not a
  string is assigned as it was parsed and ends the run when `verified.json` is read
  back; the model keeps the critic's verdicts only.
* A parse failure drops a record without a trace; there is no repair pass and no
  resumption, which `reliability.md` describes.

## 7. Plan

Done: the orchestrator with its refinement, workers and transport, the ledger's
files and what is taken from a text, verifier, ingest and router, reduction in both
halves, judging, rendering and scoring, and a theorem for every safety invariant and
every action property of section 3. Next, what can be proved of the liveness
properties without fairness, beyond `NobodyIsStuck`, `NoArgumentIsStuck` and
`NobodyWaitsForAWaiter`:

1. Every step but a crash brings a run, a lane over A2A, a verification or a batch of
   appends nearer to its end, as an action property over what each lane, post,
   argument or thread has still to do.
2. `GateSpec` for several runs in a workdir, with an abstract gate that is told what
   an earlier run left.

Not modelled, and why: the vendor SDKs behind `providers.py` and the framework
behind `adk_graph.py` (neither is in the repository); `RemoteVerifier` and
`/tasks/verify` (nothing in the orchestrator uses them); how regular expressions
match Solidity text, file collection, argument parsing, page and scorecard layout,
`check_lenses.py` (data conversion without state); the prompts.
