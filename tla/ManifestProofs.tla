--------------------------- MODULE ManifestProofs ---------------------------
(***************************************************************************)
(* Theorems about what Orchestrator leaves on disk: run.json, the ledger,  *)
(* the quarantine and reduced.json tell one story, whatever crashes and    *)
(* however many runs follow each other in the workdir.                     *)
(***************************************************************************)
EXTENDS OrchestratorProofs

-----------------------------------------------------------------------------
(* Registered before running *)

Unlisted == {"absent", "skipped"}

\* A lane that may start, or has started, is in the manifest and in its copy on
\* disk, and both are those of this run.
Registering ==
  /\ man.run = run
  /\ \A a \in Agents :
       task[a] # "idle" \/ (pc = "gate" /\ a \in roster) =>
         /\ a \in roster
         /\ runjson.run = run
         /\ runjson.agents[a].status \notin Unlisted
         /\ man.agents[a].status \notin Unlisted

\* The phases that leave every AgentRun alone.
LEMMA PhaseKeepsLanes ==
  ASSUME TypeOK, Driver, ~Route
  PROVE  /\ man'.agents = man.agents /\ man'.run = man.run
         /\ \/ runjson' = man'
            \/ runjson' = runjson /\ (BeginHunt \/ Gathered)
<1>1. man \in Manifest
  BY DEF TypeOK
<1>2. CASE Preflight \/ AbortBlind \/ AbortQuorum
  BY <1>1, <1>2 DEF Preflight, AbortBlind, AbortQuorum, Phase, Manifest
<1>3. CASE BeginHunt \/ Gathered
  BY <1>3 DEF BeginHunt, Gathered
<1>4. CASE TakeQuorum
  BY <1>1, <1>4 DEF TakeQuorum, Phase, Manifest
<1>5. CASE Verify \/ Reduce \/ Report
  BY <1>1, <1>5 DEF Verify, VerifyInto, Reduce, Report, Phase, Manifest
<1> QED
  BY <1>2, <1>3, <1>4, <1>5 DEF Driver

\* A lane's step changes its own AgentRun only, and leaves it listed.
LEMMA LaneKeepsOthers ==
  ASSUME TypeOK, Filing, NEW a \in Agents, Lane(a)
  PROVE  /\ runjson' = runjson /\ man'.run = man.run /\ man'.quorum = man.quorum
         /\ \A b \in Agents : b # a => man'.agents[b] = man.agents[b]
         /\ man'.agents[a].status = man.agents[a].status
              \/ man'.agents[a].status \in WorkerStatus \cup {"quarantined"}
<1>1. CASE StartRemote(a) \/ StartLocal(a)
  <2>1. PICK v \in {"a2a", "local"} : man' = [man EXCEPT !.agents[a].via = v]
    BY <1>1 DEF StartRemote, StartLocal
  <2> QED
    BY <1>1, <2>1 DEF StartRemote, StartLocal, TypeOK, Manifest, AgentRun
<1>2. CASE SettleRaised(a)
  BY <1>2 DEF SettleRaised, TypeOK, Manifest, AgentRun, WorkerStatus
<1>3. CASE SettleReturned(a)
  <2>1. FinalStatus(res[a], res[a].recs) \in WorkerStatus \cup {"quarantined"}
    BY DEF TypeOK, FinalStatus, Result, WorkerStatus
  <2>2. runjson' = runjson
    BY <1>3 DEF SettleReturned, SettleWith
  <2> QED
    BY <1>3, <2>1, <2>2, SettledEntry
<1>4. CASE man' = man /\ runjson' = runjson
  BY <1>4
<1> QED
  BY <1>1, <1>2, <1>3, <1>4
     DEF Lane, StartUnroutable, LocalAttempt, RemoteAttempt, EndAttempt, WorkerRaises,
         AppendValid, AppendInvalid

LEMMA RegisteringStep ==
  ASSUME TypeOK, Underway, Filing, Registering, [Next]_vars
  PROVE  Registering'
<1> USE DEF Registering
<1>1. CASE Route
  <2>1. PICK kept \in SUBSET Agents :
          /\ roster' = kept
          /\ man'.agents = [a \in Agents |->
                              Listed(IF a \in kept THEN "spawned" ELSE "skipped")]
          /\ man'.run = man.run /\ runjson' = man'
    BY <1>1 DEF Route, Phase, TypeOK, Manifest
  <2>2. /\ pc = "route" /\ task' = task /\ run' = run
        /\ \A a \in Agents : task[a] = "idle"
    BY <1>1 DEF Route, Underway, Early
  <2> QED
    BY <2>1, <2>2 DEF Listed, Unlisted
<1>2. CASE Driver /\ ~Route
  <2>1. /\ UNCHANGED <<run, roster>>
        /\ pc' # "gate"
        /\ \A a \in Agents : task'[a] # "idle" =>
             task[a] # "idle" \/ (pc = "gate" /\ a \in roster)
    BY <1>2 DEF Driver, Preflight, AbortBlind, BeginHunt, Gathered, TakeQuorum,
                AbortQuorum, Verify, VerifyInto, Reduce, Report, memory
  <2> QED
    BY <1>2, <2>1, PhaseKeepsLanes
<1>3. ASSUME NEW a \in Agents, Lane(a)
      PROVE  Registering'
  <2>1. /\ UNCHANGED <<run, roster, pc>> /\ pc # "gate"
        /\ \A b \in Agents : task'[b] # "idle" => task[b] # "idle"
    <3>1. CASE LocalAttempt(a) \/ RemoteAttempt(a) \/ WorkerRaises(a)
      BY <3>1 DEF LocalAttempt, RemoteAttempt, WorkerRaises, EndAttempt, TypeOK
    <3>2. CASE StartRemote(a) \/ StartUnroutable(a) \/ StartLocal(a)
      BY <3>2 DEF StartRemote, StartUnroutable, StartLocal, Admitted, First, TypeOK
    <3>3. CASE UNCHANGED task
      BY <1>3, <3>3, HuntFrame DEF SettleRaised, AppendValid, AppendInvalid,
                                   SettleReturned, SettleWith, Settling, outputs
    <3> QED
      BY <1>3, <3>1, <3>2, <3>3 DEF Lane, SettleRaised, AppendValid, AppendInvalid,
                                    SettleReturned, SettleWith
  <2>2. Unlisted \cap (WorkerStatus \cup {"quarantined"}) = {}
    BY DEF Unlisted, WorkerStatus
  <2>3. /\ runjson' = runjson /\ man'.run = man.run
        /\ \A b \in Agents : man'.agents[b].status \in Unlisted =>
             man.agents[b].status \in Unlisted
    BY <1>3, <2>2, LaneKeepsOthers
  <2> QED
    BY <2>1, <2>3
<1>4. CASE Restart
  BY <1>4 DEF Restart, NewManifest
<1>5. CASE Crash \/ UNCHANGED vars
  BY <1>5 DEF Crash, vars, memory
<1> QED
  BY <1>1, <1>2, <1>3, <1>4, <1>5 DEF Next

\* A lane that has been started, or that died with the process, is listed in
\* run.json of the run that started it.
THEOREM EveryLaneRegistered == Spec => []RegisteredBeforeRunning
<1>1. Init => Registering
  BY DEF Init, Registering, NewManifest
<1>2. TypeOK /\ Filing /\ [Next]_vars => Filing'
  BY FilingStep
<1>3. TypeOK /\ Underway /\ Filing /\ Registering /\ [Next]_vars => Registering'
  BY RegisteringStep
<1>4. Registering => RegisteredBeforeRunning
  BY DEF Registering, RegisteredBeforeRunning, Unlisted
<1> QED
  BY <1>1, <1>2, <1>3, <1>4, FilingInit, TypeCorrect, PTL DEF Spec
-----------------------------------------------------------------------------
(* run.json and the files agree *)

\* The entry e of lane a says of this run what the files say.
Counts(e, a) ==
  /\ e.accepted = ledger[a][run]
  /\ e.emitted = e.accepted + quarantine[a][run]

\* While the manifest and the files move one after the other, no quorum is on
\* disk to be contradicted: that of an earlier run is overwritten by the first
\* flush, and that of this one is written once every lane is settled.
Matching ==
  /\ pc \notin {"aborted", "dead"} =>
       \A a \in Agents :
         IF a \in unsettled
         THEN man.agents[a].accepted = 0 /\ man.agents[a].emitted = 0
         ELSE Counts(man.agents[a], a)
  /\ pc \in {"route", "gate", "hunt", "settle"} => ~runjson.quorum.taken
  /\ ManifestMatchesLedger

\* One lane's turn in the loop after gather.
LEMMA MatchingSettle ==
  ASSUME TypeOK, Filing, Matching, NEW a \in Agents,
         SettleRaised(a) \/ AppendValid(a) \/ AppendInvalid(a) \/ SettleReturned(a)
  PROVE  Matching'
<1>1. /\ pc = "settle" /\ pc' = "settle" /\ run' = run /\ runjson' = runjson
      /\ First(a, unsettled) /\ a \in unsettled
      /\ ledger[a][run] = tally.good /\ quarantine[a][run] = tally.bad
      /\ task[a] # "returned" => tally = NoRecords
  BY DEF Settling, SettleRaised, AppendValid, AppendInvalid, SettleReturned, SettleWith,
         First, Filing, Begun
<1>2. CASE AppendValid(a) \/ AppendInvalid(a)
  <2>1. /\ UNCHANGED <<man, unsettled>>
        /\ ledger' \in {ledger, Extended(ledger, a)}
        /\ quarantine' \in {quarantine, Extended(quarantine, a)}
    BY <1>2 DEF AppendValid, AppendInvalid
  <2>2. \A b \in Agents : b # a => /\ ledger'[b][run] = ledger[b][run]
                                   /\ quarantine'[b][run] = quarantine[b][run]
    BY <2>1, ExtendedAt DEF TypeOK
  <2> QED
    BY <1>1, <2>1, <2>2 DEF Matching, Counts, ManifestMatchesLedger
<1>3. CASE SettleRaised(a) \/ SettleReturned(a)
  <2>1. /\ unsettled' = unsettled \ {a} /\ ledger' = ledger /\ quarantine' = quarantine
    BY <1>3 DEF SettleRaised, SettleReturned, SettleWith, outputs
  <2>2. \A b \in Agents : b # a => man'.agents[b] = man.agents[b]
    BY <1>3, LaneKeepsOthers DEF Lane
  <2>3. Counts(man'.agents[a], a)
    <3>1. CASE SettleRaised(a)
      <4>1. /\ man'.agents[a].accepted = man.agents[a].accepted
            /\ man'.agents[a].emitted = man.agents[a].emitted
        BY <3>1 DEF SettleRaised, TypeOK, Manifest, AgentRun
      <4>2. tally = NoRecords
        BY <1>1, <3>1 DEF SettleRaised
      <4> QED
        BY <1>1, <4>1, <4>2 DEF Counts, Matching, NoRecords
    <3>2. CASE SettleReturned(a)
      <4>1. tally = res[a].recs
        BY <3>2 DEF SettleReturned, SettleWith
      <4> QED
        BY <1>1, <3>2, <4>1, SettledEntry DEF Counts
    <3> QED
      BY <1>3, <3>1, <3>2
  <2> QED
    BY <1>1, <2>1, <2>2, <2>3 DEF Matching, Counts, ManifestMatchesLedger
<1> QED
  BY <1>2, <1>3

\* A step of the hunt changes no count and no file.
LEMMA MatchingHunt ==
  ASSUME TypeOK, Matching, NEW a \in Agents, Lane(a), pc = "hunt", pc' = "hunt",
         UNCHANGED <<run, unsettled, runjson, outputs>>
  PROVE  Matching'
<1>1. \A b \in Agents : /\ man'.agents[b].accepted = man.agents[b].accepted
                        /\ man'.agents[b].emitted = man.agents[b].emitted
  <2>1. CASE StartRemote(a) \/ StartLocal(a)
    <3>1. PICK v \in {"a2a", "local"} : man' = [man EXCEPT !.agents[a].via = v]
      BY <2>1 DEF StartRemote, StartLocal
    <3>2. man \in Manifest
      BY DEF TypeOK
    <3>3. man.agents[a] \in AgentRun
      BY <3>2 DEF Manifest
    <3>4. man'.agents = [man.agents EXCEPT ![a] = [@ EXCEPT !.via = v]]
      BY <3>1, <3>2 DEF Manifest
    <3>5. /\ [man.agents[a] EXCEPT !.via = v].accepted = man.agents[a].accepted
          /\ [man.agents[a] EXCEPT !.via = v].emitted = man.agents[a].emitted
      BY <3>3 DEF AgentRun
    <3> QED
      BY <3>2, <3>4, <3>5 DEF Manifest
  <2>2. CASE man' = man
    BY <2>2
  <2> QED
    BY <2>1, <2>2
       DEF Lane, StartUnroutable, LocalAttempt, RemoteAttempt, EndAttempt, WorkerRaises,
           SettleRaised, AppendValid, AppendInvalid, SettleReturned, SettleWith, Settling
<1> QED
  BY <1>1 DEF Matching, Counts, ManifestMatchesLedger, outputs

LEMMA MatchingStep ==
  ASSUME TypeOK, Filing, Naming, Registering, Matching, [Next]_vars
  PROVE  Matching'
<1>1. CASE Route
  <2>1. /\ \A a \in Agents : man'.agents[a].accepted = 0 /\ man'.agents[a].emitted = 0
        /\ ~runjson'.quorum.taken
    BY <1>1 DEF Route, Phase, TypeOK, Manifest, Listed, Naming, Early
  <2>2. /\ pc = "route" /\ unsettled' = {} /\ run' = run
        /\ \A a \in Agents : ledger'[a][run] = 0 /\ quarantine'[a][run] = 0
    BY <1>1 DEF Route, Filing, Early, outputs
  <2> QED
    BY <2>1, <2>2 DEF Matching, Counts, ManifestMatchesLedger
<1>2. CASE Gathered
  <2>1. /\ pc = "hunt" /\ unsettled = {} /\ UNCHANGED <<run, man, runjson, ledger, quarantine>>
        /\ \A a \in Agents : ledger[a][run] = 0 /\ quarantine[a][run] = 0
    BY <1>2 DEF Gathered, Filing, Early, outputs
  <2> QED
    BY <2>1 DEF Matching, Counts, ManifestMatchesLedger
<1>3. CASE Preflight \/ AbortBlind \/ BeginHunt
  <2>1. /\ man'.agents = man.agents /\ UNCHANGED <<run, unsettled, ledger, quarantine>>
        /\ pc' \in {"route", "aborted", "hunt"}
        /\ ~runjson'.quorum.taken
    <3>1. CASE Preflight
      BY <3>1 DEF Preflight, Phase, TypeOK, Manifest, memory, outputs, Naming, Early, Matching
    <3>2. CASE AbortBlind
      BY <3>2 DEF AbortBlind, Phase, TypeOK, Manifest, memory, outputs, Naming, Early, Matching
    <3>3. CASE BeginHunt
      BY <3>3 DEF BeginHunt, Phase, TypeOK, Manifest, memory, outputs, Naming, Early, Matching
    <3> QED
      BY <1>3, <3>1, <3>2, <3>3
  <2>2. pc \notin {"aborted", "dead"}
    BY <1>3 DEF Preflight, AbortBlind, BeginHunt
  <2> QED
    BY <2>1, <2>2 DEF Matching, Counts, ManifestMatchesLedger
<1>4. CASE TakeQuorum \/ AbortQuorum \/ Verify \/ Reduce \/ Report
  <2>1. /\ man'.agents = man.agents /\ runjson' = man' /\ man'.run = man.run
        /\ UNCHANGED <<run, unsettled, ledger, quarantine>>
        /\ pc' \in After \cup {"aborted"} /\ pc \in {"settle"} \cup After
        /\ unsettled = {}
    BY <1>4 DEF TakeQuorum, AbortQuorum, Verify, VerifyInto, Reduce, Report, Phase, TypeOK,
                Manifest, memory, outputs, After, Filing
  <2>2. /\ \A a \in Agents : Counts(man.agents[a], a)
        /\ runjson'.run = run
        /\ {"aborted", "dead", "route", "gate", "hunt", "settle"} \cap After = {}
    BY <2>1 DEF Matching, Registering, After
  <2> QED
    BY <2>1, <2>2 DEF Matching, Counts, ManifestMatchesLedger
<1>5. ASSUME NEW a \in Agents, Lane(a)
      PROVE  Matching'
  BY <1>5, HuntFrame, MatchingSettle, MatchingHunt
<1>6. CASE Restart
  <2>1. /\ unsettled' = {} /\ pc' = "preflight" /\ UNCHANGED <<runjson, ledger, quarantine>>
        /\ \A a \in Agents : man'.agents[a].accepted = 0 /\ man'.agents[a].emitted = 0
    BY <1>6 DEF Restart, NewManifest, Listed, outputs
  <2>2. \A a \in Agents : ledger'[a][run'] = 0 /\ quarantine'[a][run'] = 0
    <3>1. run' \in Runs /\ run' > run
      BY <1>6, AgentsAssumption DEF Restart, Runs, TypeOK
    <3> QED
      BY <2>1, <3>1 DEF Filing
  <2> QED
    BY <2>1, <2>2 DEF Matching, Counts, ManifestMatchesLedger
<1>7. CASE Crash \/ UNCHANGED vars
  BY <1>7 DEF Crash, vars, memory, outputs, Matching, Counts, ManifestMatchesLedger
<1> QED
  BY <1>1, <1>2, <1>3, <1>4, <1>5, <1>6, <1>7 DEF Next, Driver

LEMMA MatchingInit == Init => Matching
<1>1. 1 \in Runs
  BY AgentsAssumption DEF Runs
<1> QED
  BY <1>1 DEF Init, Matching, Counts, NewManifest, NoFile, Listed, NoQuorum,
              ManifestMatchesLedger

\* Once run.json carries a quorum, its record counts are those of the ledger and
\* of the quarantine for its run, whatever became of the process and of the
\* workdir since.
THEOREM ManifestTellsTheFiles == Spec => []ManifestMatchesLedger
<1>1. Init => Registering
  BY DEF Init, Registering, NewManifest
<1>2. TypeOK /\ Filing /\ [Next]_vars => Filing'
  BY FilingStep
<1>3. TypeOK /\ Filing /\ Counting /\ [Next]_vars => Counting'
  BY CountingStep
<1>4. TypeOK /\ Filing /\ Counting /\ Naming /\ [Next]_vars => Naming'
  BY NamingStep
<1>5. TypeOK /\ Underway /\ Filing /\ Registering /\ [Next]_vars => Registering'
  BY RegisteringStep
<1>6. TypeOK /\ Filing /\ Naming /\ Registering /\ Matching /\ [Next]_vars => Matching'
  BY MatchingStep
<1>7. Matching => ManifestMatchesLedger
  BY DEF Matching
<1> QED
  BY <1>1, <1>2, <1>3, <1>4, <1>5, <1>6, <1>7, FilingInit, CountingInit, NamingInit,
     MatchingInit, TypeCorrect, PTL DEF Spec

-----------------------------------------------------------------------------
(* The report, and who may write *)

\* What verify wrote is what reduce reads, and neither the ledger nor the report
\* moves behind it.
Covering ==
  /\ reduced.run <= run
  /\ pc = "reduce" => verified = ledger
  /\ ReportCoversLedger
  /\ pc = "report" => reduced.run = run /\ reduced.from = ledger

LEMMA CoveringStep ==
  ASSUME TypeOK, Covering, [Next]_vars
  PROVE  Covering'
<1> USE DEF Covering, ReportCoversLedger
<1>0. run \in Nat /\ reduced.run \in Nat
  BY AgentsAssumption DEF TypeOK, Runs
<1>1. CASE Driver
  BY <1>0, <1>1
     DEF Driver, Preflight, Route, AbortBlind, BeginHunt, Gathered, TakeQuorum, AbortQuorum,
         Verify, VerifyInto, Reduce, Report, outputs
<1>2. ASSUME NEW a \in Agents, Lane(a)
      PROVE  Covering'
  BY <1>2, HuntFrame
     DEF SettleRaised, AppendValid, AppendInvalid, SettleReturned, SettleWith, Settling,
         outputs
<1>3. CASE Restart
  BY <1>0, <1>3 DEF Restart, outputs
<1>4. CASE Crash \/ UNCHANGED vars
  BY <1>4 DEF Crash, vars, outputs
<1> QED
  BY <1>1, <1>2, <1>3, <1>4 DEF Next

LEMMA CoveringInit == Init => Covering
BY DEF Init, Covering, ReportCoversLedger

\* reduced.json is computed from the whole ledger as it is when the run ends.
THEOREM ReportIsOfThisLedger == Spec => []ReportCoversLedger
<1>1. TypeOK /\ Covering /\ [Next]_vars => Covering'
  BY CoveringStep
<1>2. Covering => ReportCoversLedger
  BY DEF Covering
<1> QED
  BY <1>1, <1>2, CoveringInit, TypeCorrect, PTL DEF Spec

\* What one step may do to the files.
OwnLines ==
  /\ \A a \in Agents, r \in Runs :
       /\ ledger'[a][r] >= ledger[a][r]
       /\ quarantine'[a][r] >= quarantine[a][r]
       /\ r # run => /\ ledger'[a][r] = ledger[a][r]
                     /\ quarantine'[a][r] = quarantine[a][r]
  /\ reduced'.run # reduced.run => reduced'.run = run /\ reduced.run < run

\* One more line in the file of lane a, of this run.
LEMMA ExtendedOwn ==
  ASSUME run \in Runs, NEW file \in PerRun, NEW a \in Agents, NEW b \in Agents,
         NEW r \in Runs
  PROVE  /\ Extended(file, a)[b][r] >= file[b][r]
         /\ r # run => Extended(file, a)[b][r] = file[b][r]
<1>1. file[b][r] \in Nat
  BY DEF PerRun
<1> QED
  BY <1>1, ExtendedAt

LEMMA OwnLinesStep ==
  ASSUME TypeOK, Covering, [Next]_vars
  PROVE  OwnLines
<1>0. \A a \in Agents, r \in Runs : ledger[a][r] \in Nat /\ quarantine[a][r] \in Nat
  BY DEF TypeOK, PerRun
<1>1. CASE Reduce
  <2>1. /\ ledger' = ledger /\ quarantine' = quarantine /\ reduced'.run = run
    BY <1>1 DEF Reduce
  <2>2. run \in Nat /\ reduced.run \in Nat /\ reduced.run <= run
    BY AgentsAssumption DEF TypeOK, Runs, Covering
  <2> QED
    BY <1>0, <2>1, <2>2 DEF OwnLines
<1>2. CASE UNCHANGED <<ledger, quarantine, reduced>>
  BY <1>0, <1>2 DEF OwnLines
<1>3. ASSUME NEW a \in Agents, AppendValid(a) \/ AppendInvalid(a)
      PROVE  OwnLines
  <2>1. /\ reduced' = reduced
        /\ ledger' \in {ledger, Extended(ledger, a)}
        /\ quarantine' \in {quarantine, Extended(quarantine, a)}
    BY <1>3 DEF AppendValid, AppendInvalid
  <2>2. ledger \in PerRun /\ quarantine \in PerRun /\ run \in Runs
    BY DEF TypeOK
  <2> QED
    BY <1>0, <2>1, <2>2, ExtendedOwn DEF OwnLines
<1>4. CASE Driver /\ ~Reduce
  BY <1>2, <1>4
     DEF Driver, Preflight, Route, AbortBlind, BeginHunt, Gathered, TakeQuorum, AbortQuorum,
         Verify, VerifyInto, Report, outputs
<1>5. ASSUME NEW a \in Agents, Lane(a)
      PROVE  OwnLines
  BY <1>2, <1>3, <1>5, HuntFrame DEF SettleRaised, SettleReturned, SettleWith, outputs
<1>6. CASE Crash \/ Restart \/ UNCHANGED vars
  BY <1>2, <1>6 DEF Crash, Restart, vars, outputs
<1> QED
  BY <1>1, <1>4, <1>5, <1>6 DEF Next

\* The files only grow, and only with lines of the current run; a report is only
\* ever replaced by that of a later run.
THEOREM OnlyOwnLinesWritten == Spec => OnlyOwnLines
<1>1. TypeOK /\ Covering /\ [Next]_vars => Covering'
  BY CoveringStep
<1>2. TypeOK /\ Covering /\ [Next]_vars => [OwnLines]_vars
  BY OwnLinesStep
<1>3. Spec => [][OwnLines]_vars
  BY <1>1, <1>2, CoveringInit, TypeCorrect, PTL DEF Spec
<1> QED
  BY <1>3 DEF OnlyOwnLines, OwnLines

-----------------------------------------------------------------------------
(* No silent fallback *)

\* Whoever is counted has returned, and with transport=remote whoever has been
\* admitted without an error holds a card and went over A2A.
Remotely ==
  /\ \A a \in heard : task[a] = "returned"
  /\ transport = "remote" =>
       \A a \in Agents : task[a] \in {"running", "returned"} =>
         a \in Carded /\ man.agents[a].via = "a2a"

LEMMA RemotelyStep ==
  ASSUME TypeOK, Underway, Filing, Counting, Remotely, [Next]_vars
  PROVE  Remotely'
<1> USE DEF Remotely
<1>1. CASE Route
  BY <1>1 DEF Route, Underway, Early, Counting
<1>2. CASE BeginHunt
  <2>1. heard' = {} /\ \A a \in Agents : task'[a] \in {"queued", "idle"}
    BY <1>2 DEF BeginHunt, Counting, Early
  <2> QED
    BY <2>1
<1>3. CASE Driver /\ ~Route /\ ~BeginHunt
  <2>1. UNCHANGED <<transport, task, heard>>
    BY <1>3 DEF Driver, Preflight, AbortBlind, Gathered, TakeQuorum, AbortQuorum, Verify,
                VerifyInto, Reduce, Report, memory
  <2>2. man'.agents = man.agents
    BY <1>3, PhaseKeepsLanes
  <2> QED
    BY <2>1, <2>2
<1>4. ASSUME NEW a \in Agents, Lane(a)
      PROVE  Remotely'
  <2>1. \A b \in Agents : b # a => man'.agents[b] = man.agents[b]
    BY <1>4, LaneKeepsOthers
  <2>2. CASE StartRemote(a)
    <3>1. man'.agents[a].via = "a2a" /\ a \in Carded
      BY <2>2 DEF StartRemote, GoesRemote, TypeOK, Manifest, AgentRun
    <3> QED
      BY <2>1, <2>2, <3>1 DEF StartRemote, Admitted, First, TypeOK
  <2>3. CASE StartLocal(a)
    BY <2>3 DEF StartLocal, RunsLocally, Admitted, First, TypeOK
  <2>4. CASE StartUnroutable(a) \/ WorkerRaises(a)
    BY <2>4 DEF StartUnroutable, WorkerRaises, Admitted, First, TypeOK
  <2>5. CASE LocalAttempt(a) \/ RemoteAttempt(a)
    BY <2>5 DEF LocalAttempt, RemoteAttempt, EndAttempt, TypeOK
  <2>6. CASE SettleRaised(a)
    <3>1. man'.agents[a].via = man.agents[a].via
      BY <2>6 DEF SettleRaised, TypeOK, Manifest, AgentRun
    <3> QED
      BY <2>1, <2>6, <3>1 DEF SettleRaised
  <2>7. CASE SettleReturned(a)
    <3>1. /\ UNCHANGED <<task, transport>> /\ task[a] = "returned"
          /\ heard' = heard \/ heard' = heard \cup {a}
      BY <2>7 DEF SettleReturned, SettleWith
    <3> QED
      BY <2>1, <2>7, <3>1, SettledEntry
  <2>8. CASE AppendValid(a) \/ AppendInvalid(a)
    BY <2>8 DEF AppendValid, AppendInvalid
  <2> QED
    BY <1>4, <2>2, <2>3, <2>4, <2>5, <2>6, <2>7, <2>8 DEF Lane
<1>5. CASE Restart
  BY <1>5 DEF Restart
<1>6. CASE Crash \/ UNCHANGED vars
  BY <1>6 DEF Crash, vars, memory
<1> QED
  BY <1>1, <1>2, <1>3, <1>4, <1>5, <1>6 DEF Next

\* A run configured for A2A counts no lane that hunted in process.
THEOREM NeverFallsBack == Spec => []NoSilentFallback
<1>1. Init => Remotely
  BY DEF Init, Remotely
<1>2. TypeOK /\ Filing /\ [Next]_vars => Filing'
  BY FilingStep
<1>3. TypeOK /\ Filing /\ Counting /\ [Next]_vars => Counting'
  BY CountingStep
<1>4. TypeOK /\ Underway /\ Filing /\ Counting /\ Remotely /\ [Next]_vars => Remotely'
  BY RemotelyStep
<1>5. TypeOK /\ Remotely => NoSilentFallback
  BY DEF TypeOK, Remotely, NoSilentFallback
<1> QED
  BY <1>1, <1>2, <1>3, <1>4, <1>5, FilingInit, CountingInit, TypeCorrect, PTL DEF Spec

-----------------------------------------------------------------------------
(* The gate a single run keeps: every step of Orchestrator is, to the reader of *)
(* the audit, a step of AuditGate or none at all.                               *)


\* What the reader would see of each lane, phase by phase: nobody is heard or
\* lost before the loop after gather comes to it, and from then on heard means
\* lines in the ledger of this run.
Seen ==
  /\ pc \in {"preflight", "route"} => roster = {}
  /\ pc \in {"gate", "hunt", "settle"} \cup After => Core \subseteq roster
  /\ pc \in Early \cup {"hunt"} => \A a \in Agents : LaneView(a) = "pending"
  /\ pc \in {"settle"} \cup After =>
       \A a \in Agents :
         LaneView(a) = IF a \notin roster \ unsettled THEN "pending"
                       ELSE IF a \in heard THEN "heard" ELSE "lost"
  /\ pc \in {"settle"} \cup After =>
       \A a \in roster \ unsettled : a \in heard <=> ledger[a][run] > 0

\* A lane's entry says pending, heard or lost by its status alone.
LEMMA ViewOfStatus ==
  ASSUME NEW a
  PROVE  /\ man.agents[a].status \in {"absent", "spawned", "skipped"} =>
              LaneView(a) = "pending"
         /\ man.agents[a].status \in {"ok", "retried-ok"} => LaneView(a) = "heard"
         /\ man.agents[a].status \in LostStatus => LaneView(a) = "lost"
BY DEF LaneView, LostStatus

\* What a step does to the entries is all it does to the view.
LEMMA ViewKept ==
  ASSUME NEW a, man'.agents[a].status = man.agents[a].status
  PROVE  LaneView(a)' = LaneView(a)
BY DEF LaneView

\* The status a worker's result ends in.
LEMMA FinalStatusHeard ==
  ASSUME NEW r \in Result, r.status = "retried-ok" => r.recs # NoRecords
  PROVE  IF r.recs.good > 0 THEN FinalStatus(r, r.recs) \in {"ok", "retried-ok"}
         ELSE FinalStatus(r, r.recs) \in LostStatus
BY DEF FinalStatus, LostStatus, Result, WorkerStatus, Emission, NoRecords

LEMMA SeenSettle ==
  ASSUME TypeOK, Filing, Naming, Seen, NEW a \in Agents,
         SettleRaised(a) \/ SettleReturned(a)
  PROVE  /\ a \in roster /\ a \in unsettled /\ pc = "settle" /\ pc' = "settle"
         /\ LaneView(a) = "pending" /\ LaneView(a)' \in {"heard", "lost"}
         /\ \A b \in Agents : b # a => LaneView(b)' = LaneView(b)
         /\ UNCHANGED <<run, roster, blind>> /\ Seen'
<1>1. /\ a \in roster /\ a \in unsettled /\ pc = "settle" /\ pc' = "settle"
      /\ First(a, unsettled) /\ a \notin heard
      /\ unsettled' = unsettled \ {a} /\ UNCHANGED <<run, roster, blind, ledger>>
  BY DEF Settling, SettleRaised, SettleReturned, SettleWith, First, Filing, Naming, outputs
<1>2. LaneView(a) = "pending"
  BY <1>1 DEF Seen
<1>3. \A b \in Agents : b # a => man'.agents[b] = man.agents[b]
  BY LaneKeepsOthers DEF Lane
<1>4. ledger[a][run] = tally.good /\ (task[a] # "returned" => tally = NoRecords)
  BY <1>1 DEF Filing, Begun
<1>5. /\ LaneView(a)' = IF a \in heard' THEN "heard" ELSE "lost"
      /\ a \in heard' <=> ledger[a][run] > 0
      /\ heard' \ {a} = heard \ {a}
  <2>1. CASE SettleRaised(a)
    <3>1. man'.agents[a].status = "failed" /\ heard' = heard
      BY <2>1 DEF SettleRaised, TypeOK, Manifest, AgentRun
    <3>2. ledger[a][run] = 0
      BY <1>4, <2>1 DEF SettleRaised, NoRecords
    <3>3. LaneView(a)' = "lost"
      BY <3>1 DEF LaneView
    <3> QED
      BY <1>1, <3>1, <3>2, <3>3
  <2>2. CASE SettleReturned(a)
    <3>1. /\ heard' = IF res[a].recs.good > 0 THEN heard \cup {a} ELSE heard
          /\ tally = res[a].recs
      BY <2>2 DEF SettleReturned, SettleWith, Counted
    <3>2. IF res[a].recs.good > 0
          THEN FinalStatus(res[a], res[a].recs) \in {"ok", "retried-ok"}
          ELSE FinalStatus(res[a], res[a].recs) \in LostStatus
      BY FinalStatusHeard DEF TypeOK, Naming
    <3>3. man'.agents[a].status = FinalStatus(res[a], res[a].recs)
      BY <2>2, SettledEntry
    <3>4. LaneView(a)' = IF res[a].recs.good > 0 THEN "heard" ELSE "lost"
      BY <3>2, <3>3 DEF LaneView, LostStatus
    <3> QED
      BY <1>1, <1>4, <3>1, <3>4
  <2> QED
    BY <2>1, <2>2
<1>6. \A b \in Agents : b # a => LaneView(b)' = LaneView(b)
  BY <1>3 DEF LaneView
<1>7. Seen'
  BY <1>1, <1>5, <1>6 DEF Seen, Early, After
<1> QED
  BY <1>1, <1>2, <1>5, <1>6, <1>7

\* A step of the hunt shows the reader nothing.
LEMMA SeenHunt ==
  ASSUME TypeOK, NEW a \in Agents, Lane(a), pc = "hunt"
  PROVE  \A b \in Agents : LaneView(b)' = LaneView(b)
<1>1. \A b \in Agents : man'.agents[b].status = man.agents[b].status
  <2>1. CASE StartRemote(a) \/ StartLocal(a)
    <3>1. PICK v \in {"a2a", "local"} : man' = [man EXCEPT !.agents[a].via = v]
      BY <2>1 DEF StartRemote, StartLocal
    <3> QED
      BY <3>1 DEF TypeOK, Manifest, AgentRun
  <2>2. CASE man' = man
    BY <2>2
  <2> QED
    BY <2>1, <2>2
       DEF Lane, StartUnroutable, LocalAttempt, RemoteAttempt, EndAttempt, WorkerRaises,
           SettleRaised, AppendValid, AppendInvalid, SettleReturned, SettleWith, Settling
<1> QED
  BY <1>1, ViewKept

\* Lines of the lane the loop is at do not count before it is settled.
LEMMA SeenAppend ==
  ASSUME TypeOK, Filing, Seen, NEW a \in Agents, AppendValid(a) \/ AppendInvalid(a)
  PROVE  /\ UNCHANGED <<roster, pc, man>> /\ pc = "settle" /\ Seen'
<1>1. /\ a \in unsettled /\ pc = "settle"
      /\ UNCHANGED <<run, roster, pc, man, unsettled, heard>>
      /\ ledger' \in {ledger, Extended(ledger, a)}
  BY DEF AppendValid, AppendInvalid, Settling, First
<1>2. \A b \in Agents : b # a => ledger'[b][run] = ledger[b][run]
  BY <1>1, ExtendedAt DEF TypeOK
<1>3. \A b \in Agents : LaneView(b)' = LaneView(b)
  BY <1>1, ViewKept
<1> QED
  BY <1>1, <1>2, <1>3 DEF Seen, Early, After, TypeOK

\* What the driver shows of the lanes: nothing.
LEMMA DriverView ==
  ASSUME TypeOK, Seen, Driver
  PROVE  \A a \in Agents : LaneView(a)' = LaneView(a)
<1>1. CASE Route
  <2>1. \A a \in Agents : man'.agents[a].status \in {"absent", "spawned", "skipped"}
    BY <1>1 DEF Route, Phase, TypeOK, Manifest, Listed
  <2>2. \A a \in Agents : LaneView(a)' = "pending"
    BY <2>1 DEF LaneView
  <2>3. \A a \in Agents : LaneView(a) = "pending"
    BY <1>1 DEF Route, Seen, Early
  <2> QED
    BY <2>2, <2>3
<1>2. CASE ~Route
  BY <1>2, PhaseKeepsLanes, ViewKept
<1> QED
  BY <1>1, <1>2

LEMMA SeenStep ==
  ASSUME TypeOK, Filing, Naming, Seen, [Next]_vars
  PROVE  Seen'
<1>1. CASE Route
  <2>1. /\ pc = "route" /\ pc' = "gate" /\ Core \subseteq roster'
    BY <1>1 DEF Route
  <2> QED
    BY <1>1, <2>1, DriverView DEF Driver, Seen, Early, After
<1>2. CASE Gathered
  <2>1. /\ pc = "hunt" /\ pc' = "settle" /\ roster' = roster /\ unsettled' = roster
    BY <1>2 DEF Gathered
  <2> QED
    BY <1>2, <2>1, DriverView DEF Driver, Seen, Early, After
<1>3. CASE Preflight \/ AbortBlind \/ BeginHunt
  <2>1. /\ roster' = roster
        /\ \/ pc = "preflight" /\ pc' = "route"
           \/ pc = "gate" /\ pc' \in {"aborted", "hunt"}
    BY <1>3 DEF Preflight, AbortBlind, BeginHunt, memory
  <2> QED
    BY <1>3, <2>1, DriverView DEF Driver, Seen, Early, After
<1>4. CASE TakeQuorum \/ AbortQuorum \/ Verify \/ Reduce \/ Report
  <2>1. /\ pc \in {"settle"} \cup After /\ pc' \in After \cup {"aborted"}
        /\ UNCHANGED <<run, roster, unsettled, heard, ledger>>
    BY <1>4 DEF TakeQuorum, AbortQuorum, Verify, VerifyInto, Reduce, Report, memory, outputs,
                After
  <2> QED
    BY <1>4, <2>1, DriverView DEF Driver, Seen, Early, After
<1>5. ASSUME NEW a \in Agents, Lane(a)
      PROVE  Seen'
  <2>1. CASE /\ pc = "hunt" /\ pc' = "hunt"
             /\ UNCHANGED <<run, transport, roster, blind, unsettled, tally, heard,
                            runjson, outputs>>
    BY <1>5, <2>1, SeenHunt DEF Seen, Early, After
  <2> QED
    BY <1>5, <2>1, HuntFrame, SeenSettle, SeenAppend
<1>6. CASE Restart
  <2>1. /\ roster' = {} /\ pc' = "preflight"
        /\ \A a \in Agents : man'.agents[a].status = "absent"
    BY <1>6 DEF Restart, NewManifest, Listed
  <2>2. \A a \in Agents : LaneView(a)' = "pending"
    BY <2>1 DEF LaneView
  <2> QED
    BY <2>1, <2>2 DEF Seen, Early, After
<1>7. CASE Crash
  BY <1>7 DEF Crash, Seen, Early, After
<1>8. CASE UNCHANGED vars
  <2>1. \A a \in Agents : LaneView(a)' = LaneView(a)
    BY <1>8, ViewKept DEF vars
  <2> QED
    BY <1>8, <2>1 DEF vars, memory, outputs, Seen, Early, After
<1> QED
  BY <1>1, <1>2, <1>3, <1>4, <1>5, <1>6, <1>7, <1>8 DEF Next, Driver

LEMMA SeenInit == Init => Seen
<1> SUFFICES ASSUME Init PROVE Seen
  OBVIOUS
<1>1. \A a \in Agents : man.agents[a].status = "absent"
  BY DEF Init, NewManifest, Listed
<1>2. \A a \in Agents : LaneView(a) = "pending"
  BY <1>1 DEF LaneView
<1> QED
  BY <1>2 DEF Init, Seen, Early, After

-----------------------------------------------------------------------------
(* The steps *)

\* AuditGate counts as this module does.
LEMMA SameCount ==
  ASSUME NEW S
  PROVE  Gate!Cardinality(S) = Cardinality(S)
BY Zenon DEF Gate!Cardinality, Cardinality

\* The lanes AuditGate calls heard are those the quorum counts.
LEMMA HeardLanes ==
  ASSUME TypeOK, Filing, Counting, Seen, pc \in After
  PROVE  /\ Gate!Lanes("heard") = heard
         /\ Gate!Lanes("pending") = {}
         /\ roster # {}
<1>1. unsettled = {} /\ heard \subseteq roster /\ Core \subseteq roster
  BY DEF Filing, Counting, Seen
<1>2. \A a \in roster : LaneView(a) = IF a \in heard THEN "heard" ELSE "lost"
  BY <1>1 DEF Seen, TypeOK
<1> QED
  BY <1>1, <1>2, AgentsAssumption DEF Gate!Lanes, TypeOK

\* The verdict is silent until the run aborts or is done.
LEMMA Silent ==
  ASSUME pc \notin {"aborted", "done"}
  PROVE  VerdictView = "silent"
BY DEF VerdictView

\* To the reader the run starts where AuditGate does.
LEMMA GateInit == Init => Gate!GateInit
<1> SUFFICES ASSUME Init PROVE Gate!GateInit
  OBVIOUS
<1>1. \A a \in Agents : LaneView(a) = "pending"
  BY SeenInit DEF Seen, Early, Init
<1>2. VerdictView = "silent" /\ roster = {}
  BY Silent DEF Init
<1> QED
  BY <1>1, <1>2 DEF Gate!GateInit

\* Routing is assembling the team.
LEMMA RouteAssembles ==
  ASSUME TypeOK, Seen, Route
  PROVE  Gate!Assemble
<1>1. /\ pc = "route" /\ pc' = "gate" /\ roster = {}
      /\ roster' \in SUBSET Agents /\ Core \subseteq roster'
  BY DEF Route, Seen
<1>2. roster' # {}
  BY <1>1, AgentsAssumption
<1>3. VerdictView = "silent" /\ VerdictView' = "silent"
  BY <1>1 DEF VerdictView
<1>4. \A a \in Agents : LaneView(a)' = LaneView(a)
  BY DriverView DEF Driver
<1>5. [a \in Agents |-> LaneView(a)]' = [a \in Agents |-> LaneView(a)]
  BY <1>4
<1> QED
  BY <1>1, <1>2, <1>3, <1>5 DEF Gate!Assemble

\* A run without one of its core lenses refuses before anybody is asked.
LEMMA BlindRefuses ==
  ASSUME TypeOK, Seen, AbortBlind
  PROVE  Gate!Refuse
<1>1. pc = "gate" /\ pc' = "aborted" /\ roster' = roster /\ Core \subseteq roster
  BY DEF AbortBlind, Seen, memory
<1>2. roster # {}
  BY <1>1, AgentsAssumption
<1>3. Gate!Lanes("pending") = roster
  BY <1>1 DEF Gate!Lanes, Seen, Early, TypeOK
<1>4. VerdictView = "silent" /\ VerdictView' = "aborted"
  BY <1>1 DEF VerdictView
<1>5. [a \in Agents |-> LaneView(a)]' = [a \in Agents |-> LaneView(a)]
  BY DriverView DEF Driver
<1> QED
  BY <1>1, <1>2, <1>3, <1>4, <1>5 DEF Gate!Refuse

\* So does a run fewer than half of the lanes of which were heard.
LEMMA QuorumRefuses ==
  ASSUME TypeOK, Filing, Counting, Seen, AbortQuorum
  PROVE  Gate!Refuse
<1>1. /\ pc = "decide" /\ pc' = "aborted" /\ roster' = roster
      /\ BelowAbort(heard, roster)
  BY DEF AbortQuorum, Counting, After, memory
<1>2. /\ Gate!Lanes("pending") = {} /\ Gate!Lanes("heard") = heard /\ roster # {}
  BY <1>1, HeardLanes DEF After
<1>3. VerdictView = "silent" /\ VerdictView' = "aborted"
  BY <1>1 DEF VerdictView
<1>4. [a \in Agents |-> LaneView(a)]' = [a \in Agents |-> LaneView(a)]
  BY DriverView DEF Driver
<1> QED
  BY <1>1, <1>2, <1>3, <1>4, SameCount DEF Gate!Refuse, BelowAbort

\* A lane's turn in the loop after gather settles it for the reader.
LEMMA TurnSettles ==
  ASSUME TypeOK, Filing, Naming, Seen, NEW a \in Agents,
         SettleRaised(a) \/ SettleReturned(a)
  PROVE  Gate!Settle(a)
<1>1. /\ a \in roster /\ LaneView(a) = "pending" /\ LaneView(a)' \in {"heard", "lost"}
      /\ \A b \in Agents : b # a => LaneView(b)' = LaneView(b)
      /\ roster' = roster /\ pc = "settle" /\ pc' = "settle"
  BY SeenSettle
<1>2. VerdictView = "silent" /\ VerdictView' = "silent"
  BY <1>1 DEF VerdictView
<1>3. [b \in Agents |-> LaneView(b)]'
        = [[b \in Agents |-> LaneView(b)] EXCEPT ![a] = LaneView(a)']
  BY <1>1
<1> QED
  BY <1>1, <1>2, <1>3 DEF Gate!Settle

\* In a workdir of its own, the core lanes with lines on disk are those heard.
LEMMA CoreHeard ==
  ASSUME MaxRuns = 1, TypeOK, Filing, Seen, pc \in After
  PROVE  MissingCore = {} <=> Core \subseteq heard
<1>1. Core \subseteq roster \ unsettled /\ Core \subseteq Agents
  BY AgentsAssumption DEF Seen, Filing
<1>2. \A a \in Core : a \in heard <=> ledger[a][run] > 0
  BY <1>1 DEF Seen
<1>3. Runs = {run}
  BY DEF TypeOK, Runs
<1> QED
  BY <1>1, <1>2, <1>3 DEF MissingCore, AgentsWithOutput

\* The report says complete when AuditGate does, and degraded when it does.
LEMMA ReportPublishes ==
  ASSUME MaxRuns = 1, TypeOK, Filing, Counting, Judged, Seen, Report
  PROVE  Gate!Publish
<1>1. /\ pc = "report" /\ pc' = "done" /\ roster' = roster
      /\ man'.quorum = man.quorum
  BY DEF Report, Phase, TypeOK, Manifest, memory
<1>2. /\ Gate!Lanes("pending") = {} /\ Gate!Lanes("heard") = heard /\ roster # {}
  BY <1>1, HeardLanes DEF After
<1>3. Cardinality(heard) \in Nat /\ Cardinality(roster) \in Nat
  BY SubsetCardinality DEF TypeOK
<1>4. 2 * Cardinality(heard) >= Cardinality(roster)
  BY <1>1, <1>3 DEF Counting, BelowAbort
<1>5. man.quorum.degraded
        <=> ~(/\ 5 * Cardinality(heard) >= 4 * Cardinality(roster)
              /\ Core \subseteq heard)
  BY <1>1, <1>3, CoreHeard DEF Judged, After, BelowQuorum
<1>6. /\ VerdictView = "silent"
      /\ VerdictView' = IF man.quorum.degraded THEN "degraded" ELSE "complete"
  BY <1>1 DEF VerdictView
<1>7. [a \in Agents |-> LaneView(a)]' = [a \in Agents |-> LaneView(a)]
  BY DriverView DEF Driver
<1> QED
  BY <1>1, <1>2, <1>4, <1>5, <1>6, <1>7, SameCount DEF Gate!Publish

\* Every step is a step of AuditGate or none.
LEMMA GateStep ==
  ASSUME MaxRuns = 1, TypeOK, Filing, Counting, Naming, Judged, Seen, [Next]_vars
  PROVE  [Gate!GateNext]_(Gate!gateVars)
<1> USE DEF Gate!GateNext
<1>1. CASE Route \/ AbortBlind \/ AbortQuorum \/ Report
  BY <1>1, RouteAssembles, BlindRefuses, QuorumRefuses, ReportPublishes
<1>2. CASE Preflight \/ BeginHunt \/ Gathered \/ TakeQuorum \/ Verify \/ Reduce
  <2>1. /\ pc \notin {"aborted", "done"} /\ pc' \notin {"aborted", "done"}
        /\ roster' = roster
    BY <1>2 DEF Preflight, BeginHunt, Gathered, TakeQuorum, Verify, VerifyInto, Reduce,
                memory
  <2>2. VerdictView' = VerdictView
    BY <2>1 DEF VerdictView
  <2>3. [a \in Agents |-> LaneView(a)]' = [a \in Agents |-> LaneView(a)]
    BY <1>2, DriverView DEF Driver
  <2> QED
    BY <2>1, <2>2, <2>3 DEF Gate!gateVars
<1>3. ASSUME NEW a \in Agents, SettleRaised(a) \/ SettleReturned(a)
      PROVE  Gate!GateNext
  BY <1>3, TurnSettles
<1>4. ASSUME NEW a \in Agents, Lane(a), ~(SettleRaised(a) \/ SettleReturned(a))
      PROVE  UNCHANGED Gate!gateVars
  <2>1. /\ pc' = pc /\ roster' = roster
        /\ \A b \in Agents : LaneView(b)' = LaneView(b)
    <3>1. CASE AppendValid(a) \/ AppendInvalid(a)
      BY <3>1, SeenAppend, ViewKept
    <3>2. CASE ~(AppendValid(a) \/ AppendInvalid(a))
      BY <1>4, <3>2, HuntFrame, SeenHunt
    <3> QED
      BY <3>1, <3>2
  <2>2. pc \in {"hunt", "settle"}
    BY <1>4, HuntFrame, SeenAppend
  <2>3. VerdictView' = VerdictView
    BY <2>1, <2>2 DEF VerdictView
  <2>4. [b \in Agents |-> LaneView(b)]' = [b \in Agents |-> LaneView(b)]
    BY <2>1
  <2> QED
    BY <2>1, <2>3, <2>4 DEF Gate!gateVars
<1>5. CASE Restart
  BY <1>5 DEF Restart, TypeOK, Runs
<1>6. CASE Crash \/ UNCHANGED vars
  <2>1. VerdictView' = VerdictView
    BY <1>6 DEF Crash, Ended, vars, VerdictView
  <2>2. roster' = roster /\ man' = man
    BY <1>6 DEF Crash, vars, memory
  <2>3. [a \in Agents |-> LaneView(a)]' = [a \in Agents |-> LaneView(a)]
    BY <2>2 DEF LaneView
  <2> QED
    BY <2>1, <2>2, <2>3 DEF Gate!gateVars
<1> QED
  BY <1>1, <1>2, <1>3, <1>4, <1>5, <1>6 DEF Next, Driver

\* In a workdir of its own a run keeps every promise of AuditGate: it asks a team
\* that holds the core, reports only when every lane is settled and half of them
\* were heard, and says complete only of four fifths and the whole core.
THEOREM KeepsTheGate ==
  ASSUME MaxRuns = 1
  PROVE  Spec => GateSpec
<1>1. TypeOK /\ Filing /\ [Next]_vars => Filing'
  BY FilingStep
<1>2. TypeOK /\ Filing /\ Counting /\ [Next]_vars => Counting'
  BY CountingStep
<1>3. TypeOK /\ Filing /\ Counting /\ Naming /\ [Next]_vars => Naming'
  BY NamingStep
<1>4. Init => Judged
  BY DEF Init, Judged, After
<1>5. TypeOK /\ Judged /\ [Next]_vars => Judged'
  BY JudgedStep
<1>6. TypeOK /\ Filing /\ Naming /\ Seen /\ [Next]_vars => Seen'
  BY SeenStep
<1>7. /\ TypeOK /\ Filing /\ Counting /\ Naming /\ Judged /\ Seen /\ [Next]_vars
      => [Gate!GateNext]_(Gate!gateVars)
  BY GateStep
<1> QED
  BY <1>1, <1>2, <1>3, <1>4, <1>5, <1>6, <1>7, FilingInit, CountingInit, NamingInit,
     SeenInit, GateInit, TypeCorrect, PTL DEF Spec, GateSpec, Gate!GateSpec
=============================================================================
