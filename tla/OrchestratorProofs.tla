------------------------- MODULE OrchestratorProofs -------------------------
(***************************************************************************)
(* Theorems about Orchestrator, for every roster, core, set of cards,      *)
(* concurrency, emission and number of runs.                               *)
(***************************************************************************)
EXTENDS Orchestrator, Orders

-----------------------------------------------------------------------------
(* Workers: every way an attempt can end leaves an AgentResult *)

LEMMA FreshIsResult == FreshResult \in Result /\ NoLens \in Result
BY DEF FreshResult, NoLens, Result, NoRecords, Emission, MaxAttempts, WorkerStatus

LEMMA AttemptIsResult ==
  ASSUME NEW r \in Result, MayAttempt(r),
         NEW q \in LocalAttempts(r) \cup RemoteAttempts(r)
  PROVE  q \in Result
<1>1. r.attempts \in 0..1 /\ r.recs \in Emission /\ r.billed \in Nat
      /\ r.attempts + 1 \in 0..MaxAttempts /\ r.billed + 1 \in Nat
  BY DEF Result, MayAttempt, MaxAttempts
<1>2. ASSUME NEW e \in Emissions
      PROVE  /\ e \in Emission
             /\ Screened(e) \in Emission
             /\ Completed(r, e) \in Result
  BY <1>1, EmissionsAssumption
     DEF Screened, Completed, Emission, Result, WorkerStatus
<1>3. ASSUME NEW e \in Emission, NEW s \in {"ok", "retried-ok"}
      PROVE  Answered(r, e, s) \in Result
  BY <1>1 DEF Answered, Result, WorkerStatus
<1>4. {TimedOut(r), ProviderFailed(r), PostFailed(r)} \subseteq Result
  BY <1>1 DEF TimedOut, ProviderFailed, PostFailed, Result, WorkerStatus
<1> QED
  BY <1>2, <1>3, <1>4 DEF LocalAttempts, RemoteAttempts

-----------------------------------------------------------------------------
(* Type correctness *)

\* A phase entry added to a manifest, and the flush.
LEMMA PhaseType ==
  ASSUME NEW m \in Manifest, NEW name, NEW status,
         <<name, status>> \in PhaseEntry, Phase(m, name, status)
  PROVE  man' \in Manifest /\ runjson' \in Manifest
<1>1. Append(m.phases, <<name, status>>) \in Seq(PhaseEntry)
  BY DEF Manifest
<1> QED
  BY <1>1 DEF Phase, Manifest

LEMMA InitType == Init => TypeOK
<1> SUFFICES ASSUME Init PROVE TypeOK
  OBVIOUS
<1>1. 1 \in Runs /\ Runs \subseteq Nat /\ 0 \in 0..MaxRuns /\ 1 \in 0..MaxRuns
  BY AgentsAssumption DEF Runs
<1>2. <<>> \in Seq(PhaseEntry) /\ NoQuorum \in [taken : BOOLEAN, valid : SUBSET Agents,
                          degraded : BOOLEAN, missing : SUBSET Agents]
  BY DEF NoQuorum
<1>3. Listed("absent") \in AgentRun
  BY DEF Listed, AgentRun, AgentStatus
<1>4. NewManifest(1) \in Manifest /\ NoFile \in Manifest
  BY <1>1, <1>2, <1>3 DEF NewManifest, NoFile, Manifest
<1>5. [a \in Agents |-> [r \in Runs |-> 0]] \in PerRun
  BY DEF PerRun
<1> QED
  BY <1>1, <1>4, <1>5, FreshIsResult
     DEF Init, TypeOK, PCs, TaskStates, NoRecords, Emission

LEMMA DriverType ==
  ASSUME TypeOK, Driver
  PROVE  TypeOK'
<1>1. CASE Preflight
  <2>1. <<"preflight", "ok">> \in PhaseEntry
    BY DEF PhaseEntry
  <2> QED
    BY <1>1, <2>1, PhaseType DEF TypeOK, Preflight, PCs, memory, outputs
<1>2. CASE Route
  <2>1. <<"route", "ok">> \in PhaseEntry
    BY DEF PhaseEntry
  <2>2. PICK kept \in SUBSET Agents, lost \in SUBSET Blindable :
          /\ roster' = kept
          /\ blind' = lost \cap kept
          /\ Phase([man EXCEPT !.agents =
                      [a \in Agents |->
                         Listed(IF a \in kept THEN "spawned" ELSE "skipped")]],
                   "route", "ok")
    BY <1>2 DEF Route
  <2>3. \A s \in {"spawned", "skipped"} : Listed(s) \in AgentRun
    BY DEF Listed, AgentRun, AgentStatus
  <2>4. [man EXCEPT !.agents =
           [a \in Agents |-> Listed(IF a \in kept THEN "spawned" ELSE "skipped")]]
          \in Manifest
    BY <2>3 DEF TypeOK, Manifest
  <2>5. man' \in Manifest /\ runjson' \in Manifest
    BY <2>1, <2>2, <2>4, PhaseType
  <2> QED
    BY <1>2, <2>2, <2>5 DEF TypeOK, Route, PCs, outputs
<1>3. CASE AbortBlind
  <2>1. <<"hunt", "failed">> \in PhaseEntry /\ [man EXCEPT !.finished = TRUE] \in Manifest
    BY DEF PhaseEntry, TypeOK, Manifest
  <2>2. man' \in Manifest /\ runjson' \in Manifest
    BY <1>3, <2>1, PhaseType DEF AbortBlind
  <2> QED
    BY <1>3, <2>2 DEF TypeOK, AbortBlind, PCs, memory, outputs
<1>4. CASE BeginHunt
  BY <1>4 DEF TypeOK, BeginHunt, PCs, TaskStates, outputs
<1>5. CASE Gathered
  BY <1>5 DEF TypeOK, Gathered, PCs, outputs
<1>6. CASE TakeQuorum
  <2> DEFINE degraded == BelowQuorum(heard, roster) \/ MissingCore # {}
             q == [taken |-> TRUE, valid |-> heard, degraded |-> degraded,
                   missing |-> MissingLanes]
  <2>1. degraded \in BOOLEAN
    OBVIOUS
  <2>2. <<"hunt", IF degraded THEN "degraded" ELSE "ok">> \in PhaseEntry
    BY DEF PhaseEntry
  <2>3. MissingLanes \in SUBSET Agents
    BY DEF MissingLanes
  <2> HIDE DEF degraded
  <2>4. [man EXCEPT !.quorum = q] \in Manifest
    BY <2>1, <2>3 DEF TypeOK, Manifest
  <2>5. Phase([man EXCEPT !.quorum = q], "hunt", IF degraded THEN "degraded" ELSE "ok")
    BY <1>6 DEF TakeQuorum, degraded
  <2>6. man' \in Manifest /\ runjson' \in Manifest
    BY <2>2, <2>4, <2>5, PhaseType
  <2> QED
    BY <1>6, <2>6 DEF TypeOK, TakeQuorum, PCs, memory, outputs
<1>7. CASE AbortQuorum
  <2>1. <<"report", "failed">> \in PhaseEntry /\ [man EXCEPT !.finished = TRUE] \in Manifest
    BY DEF PhaseEntry, TypeOK, Manifest
  <2>2. man' \in Manifest /\ runjson' \in Manifest
    BY <1>7, <2>1, PhaseType DEF AbortQuorum
  <2> QED
    BY <1>7, <2>2 DEF TypeOK, AbortQuorum, PCs, memory, outputs
<1>8. CASE Verify
  <2>1. <<"verify", "ok">> \in PhaseEntry
    BY DEF PhaseEntry
  <2>2. man' \in Manifest /\ runjson' \in Manifest
    BY <1>8, <2>1, PhaseType DEF Verify, VerifyInto, TypeOK
  <2> QED
    BY <1>8, <2>2 DEF TypeOK, Verify, VerifyInto, PCs, memory
<1>9. CASE Reduce
  <2>1. <<"reduce", "ok">> \in PhaseEntry
    BY DEF PhaseEntry
  <2>2. man' \in Manifest /\ runjson' \in Manifest
    BY <1>9, <2>1, PhaseType DEF Reduce, TypeOK
  <2>3. run \in 0..MaxRuns
    BY AgentsAssumption DEF TypeOK, Runs
  <2> QED
    BY <1>9, <2>2, <2>3 DEF TypeOK, Reduce, PCs, memory
<1>10. CASE Report
  <2> DEFINE m == [man EXCEPT !.cost = [a \in Agents |-> man.agents[a].tokens],
                              !.finished = TRUE]
             status == IF man.quorum.degraded THEN "degraded" ELSE "ok"
  <2>1. <<"report", status>> \in PhaseEntry
    BY DEF PhaseEntry
  <2>2. \A a \in Agents : man.agents[a].tokens \in Nat
    BY DEF TypeOK, Manifest, AgentRun
  <2>3. m \in Manifest
    BY <2>2 DEF TypeOK, Manifest
  <2>4. Phase(m, "report", status)
    BY <1>10 DEF Report, AggregatedCost
  <2>5. man' \in Manifest /\ runjson' \in Manifest
    BY <2>1, <2>3, <2>4, PhaseType
  <2> QED
    BY <1>10, <2>5 DEF TypeOK, Report, PCs, memory, outputs
<1> QED
  BY <1>1, <1>2, <1>3, <1>4, <1>5, <1>6, <1>7, <1>8, <1>9, <1>10 DEF Driver

\* A change to the entry of one lane.
LEMMA EntryType ==
  ASSUME NEW m \in Manifest, NEW a \in Agents, NEW e \in AgentRun
  PROVE  [m EXCEPT !.agents[a] = e] \in Manifest
BY DEF Manifest

LEMMA ExtendedType ==
  ASSUME run \in Runs, NEW file \in PerRun, NEW a \in Agents
  PROVE  Extended(file, a) \in PerRun
BY DEF Extended, PerRun

LEMMA FinalStatusType ==
  ASSUME NEW r \in Result, NEW n \in Emission
  PROVE  FinalStatus(r, n) \in AgentStatus
BY DEF FinalStatus, Result, Emission, AgentStatus, WorkerStatus

\* A worker goes round again only when it may: the strengthening that makes
\* TypeOK inductive.
Early == {"preflight", "route", "gate"}

Underway ==
  \A a \in Agents :
    /\ pc \in Early => task[a] = "idle"
    /\ task[a] \in {"idle", "queued"} => res[a] = FreshResult
    /\ task[a] = "running" => MayAttempt(res[a])

LEMMA FreshMayAttempt == MayAttempt(FreshResult)
BY DEF MayAttempt, FreshResult, MaxAttempts

LEMMA LaneType ==
  ASSUME TypeOK, Underway, NEW a \in Agents, Lane(a)
  PROVE  TypeOK'
<1> USE DEF TypeOK
<1>a. man.agents[a] \in AgentRun
  BY DEF Manifest
<1>b. \A v \in {"local", "a2a"} : [man EXCEPT !.agents[a].via = v] \in Manifest
  BY <1>a DEF Manifest, AgentRun
<1>1. CASE StartRemote(a)
  BY <1>1, <1>b DEF StartRemote, TaskStates, outputs
<1>2. CASE StartUnroutable(a)
  BY <1>2 DEF StartUnroutable, TaskStates, outputs
<1>3. CASE StartLocal(a)
  <2>1. res' \in [Agents -> Result] /\ task' \in [Agents -> TaskStates]
    BY <1>3, FreshIsResult DEF StartLocal, TaskStates
  <2> QED
    BY <1>3, <1>b, <2>1 DEF StartLocal, outputs
<1>4. CASE LocalAttempt(a) \/ RemoteAttempt(a)
  <2>1. PICK r \in LocalAttempts(res[a]) \cup RemoteAttempts(res[a]) :
          /\ EndAttempt(a, r)
          /\ UNCHANGED <<verified, reduced, ledger, quarantine>>
    BY <1>4 DEF LocalAttempt, RemoteAttempt, EndAttempt, outputs
  <2>2. r \in Result
    BY <1>4, AttemptIsResult DEF Underway, LocalAttempt, RemoteAttempt
  <2> QED
    BY <2>1, <2>2 DEF EndAttempt, TaskStates
<1>5. CASE WorkerRaises(a)
  BY <1>5 DEF WorkerRaises, TaskStates, outputs
<1>6. CASE SettleRaised(a)
  <2>1. [man EXCEPT !.agents[a].status = "failed"] \in Manifest
    BY <1>a DEF Manifest, AgentRun, AgentStatus, WorkerStatus
  <2> QED
    BY <1>6, <2>1 DEF SettleRaised, outputs
<1>7. CASE AppendValid(a)
  BY <1>7, ExtendedType DEF AppendValid, Emission
<1>8. CASE AppendInvalid(a)
  BY <1>8, ExtendedType DEF AppendInvalid, Emission
<1>9. CASE SettleReturned(a)
  <2>1. /\ FinalStatus(res[a], tally) \in AgentStatus
        /\ res[a].recs.good + res[a].recs.bad \in Nat
        /\ tally.good \in Nat /\ res[a].billed \in Nat /\ NoRecords \in Emission
    BY FinalStatusType DEF Emission, Result, NoRecords
  <2> DEFINE e == [man.agents[a] EXCEPT
                     !.status   = FinalStatus(res[a], tally),
                     !.emitted  = res[a].recs.good + res[a].recs.bad,
                     !.accepted = tally.good,
                     !.tokens   = res[a].billed]
  <2>2. e \in AgentRun
    BY <1>a, <2>1 DEF AgentRun
  <2>3. man' = [man EXCEPT !.agents[a] = e]
    BY <1>9 DEF SettleReturned, SettleWith
  <2> HIDE DEF e
  <2>4. man' \in Manifest
    BY <2>2, <2>3, EntryType
  <2> QED
    BY <1>9, <2>1, <2>4 DEF SettleReturned, SettleWith, outputs
<1> QED
  BY <1>1, <1>2, <1>3, <1>4, <1>5, <1>6, <1>7, <1>8, <1>9 DEF Lane

LEMMA RestartType ==
  ASSUME TypeOK, Restart
  PROVE  TypeOK'
<1>1. run + 1 \in Runs /\ run + 1 \in 0..MaxRuns
  BY AgentsAssumption DEF TypeOK, Runs, Restart
<1>2. /\ <<>> \in Seq(PhaseEntry)
      /\ NoQuorum \in [taken : BOOLEAN, valid : SUBSET Agents,
                       degraded : BOOLEAN, missing : SUBSET Agents]
      /\ Listed("absent") \in AgentRun
  BY DEF NoQuorum, Listed, AgentRun, AgentStatus
<1>3. NewManifest(run + 1) \in Manifest
  BY <1>1, <1>2 DEF NewManifest, Manifest
<1> QED
  BY <1>1, <1>3, FreshIsResult
     DEF TypeOK, Restart, PCs, TaskStates, NoRecords, Emission, outputs

LEMMA UnderwayStep ==
  ASSUME TypeOK, Underway, [Next]_vars
  PROVE  Underway'
<1> USE DEF TypeOK, Underway, Early
<1>1. CASE Driver
  <2>1. CASE BeginHunt
    BY <2>1 DEF BeginHunt
  <2> QED
    BY <1>1, <2>1
       DEF Driver, Preflight, Route, AbortBlind, Gathered, TakeQuorum, AbortQuorum, Verify,
           VerifyInto, Reduce, Report, memory
<1>2. ASSUME NEW a \in Agents, Lane(a)
      PROVE  Underway'
  <2>1. CASE StartRemote(a)
    BY <2>1, FreshMayAttempt DEF StartRemote, Admitted, First
  <2>2. CASE StartLocal(a)
    BY <2>2, FreshMayAttempt DEF StartLocal, Admitted, First
  <2>3. CASE LocalAttempt(a) \/ RemoteAttempt(a)
    BY <2>3 DEF LocalAttempt, RemoteAttempt, EndAttempt
  <2>4. CASE StartUnroutable(a) \/ WorkerRaises(a)
    BY <2>4 DEF StartUnroutable, WorkerRaises, Admitted, First
  <2> QED
    BY <1>2, <2>1, <2>2, <2>3, <2>4
       DEF Lane, Settling, SettleRaised, AppendValid, AppendInvalid, SettleReturned,
           SettleWith
<1>3. CASE Restart
  BY <1>3 DEF Restart
<1>4. CASE Crash \/ UNCHANGED vars
  BY <1>4 DEF Crash, memory, vars
<1> QED
  BY <1>1, <1>2, <1>3, <1>4 DEF Next

LEMMA TypeStep ==
  ASSUME TypeOK, Underway, [Next]_vars
  PROVE  TypeOK'
<1>1. CASE Crash \/ UNCHANGED vars
  BY <1>1 DEF TypeOK, Crash, PCs, vars, memory, outputs
<1> QED
  BY <1>1, DriverType, LaneType, RestartType DEF Next

\* Every variable always holds a value of its type.
THEOREM TypeCorrect == Spec => [](TypeOK /\ Underway)
<1>1. Init => TypeOK /\ Underway
  BY InitType DEF Init, Underway, Early
<1>2. TypeOK /\ Underway /\ [Next]_vars => (TypeOK /\ Underway)'
  BY TypeStep, UnderwayStep
<1> QED
  BY <1>1, <1>2, PTL DEF Spec

-----------------------------------------------------------------------------
(* The ledger and the results agree, lane by lane *)

After == {"decide", "reduce", "report", "done"}

\* What append_many has written for a lane the loop has yet to deal with.
Begun(a) == IF First(a, unsettled) THEN tally ELSE NoRecords

\* The strengthening that makes RecordsAccounted inductive: the lane the loop is
\* at has exactly the tally on disk, those behind it have nothing yet, and runs
\* to come have left no lines.
Filing ==
  /\ \A a \in Agents, r \in Runs :
       r > run => ledger[a][r] = 0 /\ quarantine[a][r] = 0
  /\ pc \in Early \cup {"hunt"} =>
       /\ tally = NoRecords
       /\ \A a \in Agents : ledger[a][run] = 0 /\ quarantine[a][run] = 0
  /\ unsettled \subseteq roster
  /\ pc \in Early \cup {"hunt"} => unsettled = {}
  /\ pc = "settle" =>
       \A a \in unsettled :
         /\ ledger[a][run] = Begun(a).good
         /\ quarantine[a][run] = Begun(a).bad
         /\ task[a] # "returned" => Begun(a) = NoRecords
  /\ pc \in After => unsettled = {}
  /\ RecordsAccounted

LEMMA FirstUnique ==
  ASSUME NEW s \in SUBSET Agents, NEW a, NEW b, First(a, s), First(b, s)
  PROVE  a = b
BY AgentsAssumption DEF First

\* One more line in the file of lane a, and nowhere else.
LEMMA ExtendedAt ==
  ASSUME run \in Runs, NEW file \in PerRun, NEW a \in Agents
  PROVE  /\ Extended(file, a)[a][run] = file[a][run] + 1
         /\ \A b \in Agents, r \in Runs :
              b # a \/ r # run => Extended(file, a)[b][r] = file[b][r]
BY DEF Extended, PerRun

LEMMA FilingSettle ==
  ASSUME TypeOK, Filing, NEW a \in Agents,
         SettleRaised(a) \/ AppendValid(a) \/ AppendInvalid(a) \/ SettleReturned(a)
  PROVE  Filing'
<1> USE DEF TypeOK, Settling
<1>0. /\ pc = "settle" /\ pc' = "settle" /\ run' = run /\ roster' = roster
      /\ task' = task /\ res' = res /\ First(a, unsettled) /\ a \in unsettled
      /\ "settle" \notin Early \cup {"hunt"} \cup After
      /\ ledger[a][run] = tally.good /\ quarantine[a][run] = tally.bad
      /\ task[a] # "returned" => tally = NoRecords
  BY DEF SettleRaised, AppendValid, AppendInvalid, SettleReturned, SettleWith, First,
         Early, After, Filing, Begun
<1>1. \A b \in unsettled : b # a => ~First(b, unsettled)
  BY <1>0, FirstUnique
<1>2. \A b \in unsettled : b # a => ledger[b][run] = 0 /\ quarantine[b][run] = 0
  BY <1>0, <1>1 DEF Filing, Begun, NoRecords
<1>3. CASE SettleRaised(a) \/ SettleReturned(a)
  <2>1. /\ unsettled' = unsettled \ {a} /\ tally' = NoRecords
        /\ ledger' = ledger /\ quarantine' = quarantine
    BY <1>0, <1>3 DEF SettleRaised, SettleReturned, SettleWith, outputs
  <2>2. \A b \in unsettled' : Begun(b)' = NoRecords
    BY <2>1 DEF Begun
  <2>3. LET emitted == IF task[a] = "raised" THEN NoRecords ELSE res[a].recs IN
          tally.good = emitted.good /\ tally.bad = emitted.bad
    BY <1>0, <1>3 DEF SettleRaised, SettleReturned, SettleWith
  <2>4. RecordsAccounted'
    BY <1>0, <2>1, <2>3 DEF Filing, RecordsAccounted
  <2> QED
    BY <1>0, <1>2, <2>1, <2>2, <2>4 DEF Filing, NoRecords
<1>4. CASE AppendValid(a) \/ AppendInvalid(a)
  <2>1. /\ unsettled' = unsettled /\ task[a] = "returned"
        /\ \/ ledger' = Extended(ledger, a) /\ quarantine' = quarantine
              /\ tally' = [tally EXCEPT !.good = @ + 1]
           \/ quarantine' = Extended(quarantine, a) /\ ledger' = ledger
              /\ tally' = [tally EXCEPT !.bad = @ + 1]
    BY <1>4 DEF AppendValid, AppendInvalid
  <2>2. /\ ledger'[a][run] = tally'.good /\ quarantine'[a][run] = tally'.bad
        /\ \A b \in Agents, r \in Runs :
             b # a \/ r # run => /\ ledger'[b][r] = ledger[b][r]
                                 /\ quarantine'[b][r] = quarantine[b][r]
    BY <1>0, <2>1, ExtendedAt DEF Emission
  <2>3. \A b \in unsettled' : Begun(b)' = IF b = a THEN tally' ELSE NoRecords
    BY <1>0, <1>1, <2>1 DEF Begun
  <2>4. RecordsAccounted'
    BY <1>0, <2>1, <2>2 DEF Filing, RecordsAccounted
  <2>5. \A b \in Agents, r \in Runs :
          r > run => ledger'[b][r] = 0 /\ quarantine'[b][r] = 0
    BY <2>2 DEF Filing, Runs
  <2>6. \A b \in unsettled' :
          /\ ledger'[b][run] = Begun(b)'.good
          /\ quarantine'[b][run] = Begun(b)'.bad
          /\ task[b] # "returned" => Begun(b)' = NoRecords
    BY <1>2, <2>1, <2>2, <2>3 DEF NoRecords
  <2> QED
    BY <1>0, <2>1, <2>4, <2>5, <2>6 DEF Filing
<1> QED
  BY <1>3, <1>4

\* The steps of a lane before the loop after gather touch no file and no tally.
LEMMA HuntFrame ==
  ASSUME NEW a \in Agents, Lane(a)
  PROVE  \/ SettleRaised(a) \/ AppendValid(a) \/ AppendInvalid(a) \/ SettleReturned(a)
         \/ /\ pc = "hunt" /\ pc' = "hunt"
            /\ UNCHANGED <<run, transport, roster, blind, unsettled, tally, heard,
                           runjson, outputs>>
<1>1. CASE LocalAttempt(a) \/ RemoteAttempt(a)
  BY <1>1 DEF LocalAttempt, RemoteAttempt, EndAttempt
<1> QED
  BY <1>1 DEF Lane, StartRemote, StartUnroutable, StartLocal, WorkerRaises, Admitted

LEMMA FilingStep ==
  ASSUME TypeOK, Filing, [Next]_vars
  PROVE  Filing'
<1> USE DEF TypeOK, Filing, Early, After
<1>1. CASE Gathered
  <2>1. /\ pc' = "settle" /\ unsettled' = roster /\ tally' = NoRecords
        /\ \A b \in Agents : ledger'[b][run'] = 0 /\ quarantine'[b][run'] = 0
        /\ UNCHANGED <<run, roster, ledger, quarantine, task, res>>
    BY <1>1 DEF Gathered, outputs
  <2>2. \A b \in unsettled' : Begun(b)' = NoRecords
    BY <2>1 DEF Begun
  <2> QED
    BY <2>1, <2>2 DEF RecordsAccounted, NoRecords
<1>2. CASE Driver /\ ~Gathered
  <2>1. /\ UNCHANGED <<run, unsettled, tally, ledger, quarantine, res>>
        /\ pc \in Early => pc' \in Early \cup {"hunt", "aborted"}
        /\ pc \notin Early => UNCHANGED <<roster, task>>
        /\ pc' \in After => pc \in After \/ (pc = "settle" /\ unsettled = {})
        /\ pc' # "settle"
    BY <1>2 DEF Driver, Preflight, Route, AbortBlind, BeginHunt, TakeQuorum, AbortQuorum,
                Verify, VerifyInto, Reduce, Report, memory, outputs
  <2>2. pc' \in Early \cup {"hunt"} => pc \in Early
    BY <1>2 DEF Driver, Preflight, Route, AbortBlind, BeginHunt, TakeQuorum, AbortQuorum,
                Verify, VerifyInto, Reduce, Report
  <2> QED
    BY <2>1, <2>2 DEF RecordsAccounted
<1>3. ASSUME NEW a \in Agents, Lane(a)
      PROVE  Filing'
  <2>1. CASE /\ pc = "hunt" /\ pc' = "hunt"
             /\ UNCHANGED <<run, transport, roster, blind, unsettled, tally, heard,
                            runjson, outputs>>
    BY <2>1 DEF outputs, RecordsAccounted
  <2> QED
    BY <1>3, <2>1, HuntFrame, FilingSettle
<1>4. CASE Restart
  <2>1. run + 1 \in Runs /\ run + 1 > run
    BY <1>4, AgentsAssumption DEF Restart, Runs
  <2> QED
    BY <1>4, <2>1 DEF Restart, RecordsAccounted, outputs, Runs
<1>5. CASE Crash
  BY <1>5 DEF Crash, Ended, RecordsAccounted, memory, outputs
<1>6. CASE UNCHANGED vars
  BY <1>6 DEF vars, memory, outputs, RecordsAccounted, Begun
<1> QED
  BY <1>1, <1>2, <1>3, <1>4, <1>5, <1>6 DEF Next

LEMMA FilingInit == Init => Filing
<1>1. 1 \in Runs
  BY AgentsAssumption DEF Runs
<1> QED
  BY <1>1 DEF Init, Filing, Early, After, RecordsAccounted

\* No record is lost or doubled on the way from a worker to the files.
THEOREM NoRecordLost == Spec => []RecordsAccounted
<1>1. TypeOK /\ Filing /\ [Next]_vars => Filing'
  BY FilingStep
<1>2. Filing => RecordsAccounted
  BY DEF Filing
<1> QED
  BY <1>1, <1>2, FilingInit, TypeCorrect, PTL DEF Spec

-----------------------------------------------------------------------------
(* The quorum gates the report *)

\* What the quorum counts has lines of this run; once the phase graph is past
\* the gates, the gates were passed.
Counting ==
  /\ \A a \in heard : a \in roster /\ ledger[a][run] > 0
  /\ pc \in Early \cup {"hunt"} => heard = {}
  /\ pc \in After => man.quorum.taken /\ man.quorum.valid = heard
  /\ pc \in {"reduce", "report", "done"} => ~BelowAbort(heard, roster)
  /\ pc \in {"hunt", "settle"} \cup After => blind \cap Core = {}

LEMMA CountingSettle ==
  ASSUME TypeOK, Filing, Counting, NEW a \in Agents,
         SettleRaised(a) \/ AppendValid(a) \/ AppendInvalid(a) \/ SettleReturned(a)
  PROVE  Counting'
<1> USE DEF TypeOK, Counting, Settling, Early, After
<1>1. CASE SettleReturned(a)
  <2>1. a \in unsettled /\ First(a, unsettled) /\ pc = "settle"
    BY <1>1 DEF SettleReturned, SettleWith, First
  <2>2. ledger[a][run] = tally.good
    BY <2>1 DEF Filing, Begun
  <2>3. heard' = IF tally.good > 0 THEN heard \cup {a} ELSE heard
    BY <1>1 DEF SettleReturned, SettleWith, Counted
  <2>4. a \in roster
    BY <2>1 DEF Filing
  <2> QED
    <3>1. /\ pc' = "settle" /\ ledger' = ledger
          /\ UNCHANGED <<run, roster, blind>>
      BY <1>1, <2>1 DEF SettleReturned, SettleWith, outputs
    <3> QED
      BY <2>1, <2>2, <2>3, <2>4, <3>1
<1>2. CASE AppendValid(a)
  <2>1. /\ pc = "settle" /\ pc' = "settle" /\ ledger' = Extended(ledger, a)
        /\ UNCHANGED <<run, roster, blind, heard, man>>
    BY <1>2 DEF AppendValid
  <2>2. \A b \in Agents : ledger[b][run] \in Nat
    BY DEF PerRun
  <2>3. \A b \in Agents : ledger[b][run] > 0 => ledger'[b][run] > 0
    BY <2>1, <2>2, ExtendedAt
  <2> QED
    BY <2>1, <2>3
<1>3. CASE SettleRaised(a) \/ AppendInvalid(a)
  BY <1>3 DEF SettleRaised, AppendInvalid, outputs
<1> QED
  BY <1>1, <1>2, <1>3

LEMMA CountingStep ==
  ASSUME TypeOK, Filing, Counting, [Next]_vars
  PROVE  Counting'
<1> USE DEF TypeOK, Counting, Early, After
<1>1. CASE Preflight \/ Route \/ AbortBlind
  BY <1>1 DEF Preflight, Route, AbortBlind, Phase, memory, outputs
<1>2. CASE BeginHunt \/ Gathered
  BY <1>2 DEF BeginHunt, Gathered, CoreBlind, outputs
<1>3. CASE TakeQuorum
  <2>1. /\ man'.quorum.taken /\ man'.quorum.valid = heard
        /\ pc' = "decide" /\ pc = "settle"
        /\ UNCHANGED <<run, memory, ledger>>
    BY <1>3 DEF TakeQuorum, Phase, Manifest, outputs
  <2> QED
    BY <2>1 DEF memory
<1>4. CASE AbortQuorum \/ Verify \/ Reduce \/ Report
  <2>1. /\ man'.quorum = man.quorum
        /\ UNCHANGED <<run, memory, ledger>>
    BY <1>4 DEF AbortQuorum, Verify, VerifyInto, Reduce, Report, Phase, Manifest, outputs
  <2>2. /\ pc' \in After => /\ pc \in After
                            /\ pc = "decide" => ~BelowAbort(heard, roster)
        /\ pc' \in After \cup {"aborted"}
    BY <1>4 DEF AbortQuorum, Verify, VerifyInto, Reduce, Report
  <2> QED
    BY <2>1, <2>2 DEF memory
<1>5. ASSUME NEW a \in Agents, Lane(a)
      PROVE  Counting'
  <2>1. CASE /\ pc = "hunt" /\ pc' = "hunt"
             /\ UNCHANGED <<run, transport, roster, blind, unsettled, tally, heard,
                            runjson, outputs>>
    BY <2>1 DEF outputs
  <2> QED
    BY <1>5, <2>1, HuntFrame, CountingSettle
<1>6. CASE Restart
  BY <1>6 DEF Restart
<1>7. CASE Crash \/ UNCHANGED vars
  BY <1>7 DEF Crash, vars, memory, outputs
<1> QED
  BY <1>1, <1>2, <1>3, <1>4, <1>5, <1>6, <1>7 DEF Next, Driver

LEMMA CountingInit == Init => Counting
BY DEF Init, Counting, Early, After

LEMMA SubsetCardinality ==
  ASSUME NEW s \in SUBSET Agents, NEW t \in SUBSET s
  PROVE  /\ Cardinality(s) \in Nat /\ Cardinality(t) \in Nat
         /\ Cardinality(t) <= Cardinality(s)
<1>1. IsFiniteSet(s) /\ IsFiniteSet(t)
  BY AgentsAssumption, FS_Subset
<1> QED
  BY <1>1, FS_Subset, FS_CardinalityType

LEMMA CountingGates ==
  ASSUME TypeOK, Counting
  PROVE  ReportGated
<1> SUFFICES ASSUME pc \in {"reduce", "report", "done"}
             PROVE  /\ 2 * Cardinality(Delivered) >= Cardinality(roster)
                    /\ blind \cap Core = {}
  BY DEF ReportGated
<1>1. heard \subseteq Delivered /\ Delivered \in SUBSET Agents
  BY DEF Counting, Delivered, TypeOK
<1>2. 2 * Cardinality(heard) >= Cardinality(roster)
  BY SubsetCardinality DEF Counting, BelowAbort, TypeOK
<1>3. /\ Cardinality(heard) <= Cardinality(Delivered)
      /\ Cardinality(heard) \in Nat /\ Cardinality(Delivered) \in Nat
      /\ Cardinality(roster) \in Nat
  BY <1>1, SubsetCardinality DEF TypeOK
<1> QED
  BY <1>2, <1>3 DEF Counting, After

\* No report without lines of this run from half of the roster and every core
\* lens in place, whatever earlier runs left in the workdir.
THEOREM ReportIsGated == Spec => []ReportGated
<1>1. TypeOK /\ Filing /\ [Next]_vars => Filing'
  BY FilingStep
<1>2. TypeOK /\ Filing /\ Counting /\ [Next]_vars => Counting'
  BY CountingStep
<1>3. TypeOK /\ Counting => ReportGated
  BY CountingGates
<1> QED
  BY <1>1, <1>2, <1>3, FilingInit, CountingInit, TypeCorrect, PTL DEF Spec

-----------------------------------------------------------------------------
(* Every lane of the roster is counted as valid or named as missing *)

\* A result that says retried-ok holds a record, and at any point of the loop
\* after gather the two bookkeepings agree on the lanes behind it.
Naming ==
  /\ \A a \in Agents : res[a].status = "retried-ok" => res[a].recs # NoRecords
  /\ pc \in Early \cup {"hunt", "settle"} => ~man.quorum.taken
  /\ pc \in {"gate", "hunt", "settle"} =>
       \A a \in Agents \ roster : man.agents[a].status \notin LostStatus
  /\ pc = "settle" =>
       /\ heard \cap unsettled = {}
       /\ \A a \in roster \ unsettled :
            man.agents[a].status \in LostStatus <=> a \notin heard
  /\ LanesAccounted

LEMMA FinalStatusLost ==
  ASSUME NEW r \in Result, r.status = "retried-ok" => r.recs # NoRecords
  PROVE  FinalStatus(r, r.recs) \in LostStatus <=> ~(r.recs.good > 0)
BY DEF FinalStatus, LostStatus, Result, WorkerStatus, Emission, NoRecords

\* What the loop's body leaves in the manifest.
LEMMA SettledEntry ==
  ASSUME TypeOK, NEW a \in Agents, SettleReturned(a)
  PROVE  /\ man'.agents[a].status = FinalStatus(res[a], res[a].recs)
         /\ man'.agents[a].accepted = res[a].recs.good
         /\ man'.agents[a].emitted = res[a].recs.good + res[a].recs.bad
         /\ man'.agents[a].via = man.agents[a].via
         /\ \A b \in Agents : b # a => man'.agents[b] = man.agents[b]
         /\ man'.quorum = man.quorum /\ man'.run = man.run
<1> DEFINE e == [man.agents[a] EXCEPT
                   !.status   = FinalStatus(res[a], res[a].recs),
                   !.emitted  = res[a].recs.good + res[a].recs.bad,
                   !.accepted = res[a].recs.good,
                   !.tokens   = res[a].billed]
<1>1. man' = [man EXCEPT !.agents[a] = e]
  BY DEF SettleReturned, SettleWith
<1>2. /\ e.status = FinalStatus(res[a], res[a].recs)
      /\ e.accepted = res[a].recs.good
      /\ e.emitted = res[a].recs.good + res[a].recs.bad
      /\ e.via = man.agents[a].via
  BY DEF TypeOK, Manifest, AgentRun
<1> HIDE DEF e
<1> QED
  BY <1>1, <1>2 DEF TypeOK, Manifest

LEMMA NamingSettle ==
  ASSUME TypeOK, Filing, Naming, NEW a \in Agents,
         SettleRaised(a) \/ SettleReturned(a)
  PROVE  Naming'
<1> USE DEF Settling
<1>1. /\ a \in unsettled /\ pc = "settle" /\ pc' = "settle" /\ a \notin heard
      /\ unsettled' = unsettled \ {a} /\ a \in roster
      /\ UNCHANGED <<roster, res>>
      /\ heard' = heard \/ heard' = heard \cup {a}
  BY DEF SettleRaised, SettleReturned, SettleWith, First, Naming, Filing
<1>2. man'.agents[a].status \in LostStatus <=> a \notin heard'
  <2>1. CASE SettleRaised(a)
    BY <1>1, <2>1 DEF SettleRaised, LostStatus, TypeOK, Manifest, AgentRun
  <2>2. CASE SettleReturned(a)
    <3>1. heard' = IF res[a].recs.good > 0 THEN heard \cup {a} ELSE heard
      BY <2>2 DEF SettleReturned, SettleWith, Counted
    <3>2. res[a] \in Result
      BY DEF TypeOK
    <3> QED
      BY <1>1, <2>2, <3>1, <3>2, SettledEntry, FinalStatusLost DEF Naming
  <2> QED
    BY <2>1, <2>2
<1>3. /\ \A b \in Agents : b # a => man'.agents[b] = man.agents[b]
      /\ man'.quorum = man.quorum
  <2>1. CASE SettleRaised(a)
    BY <2>1 DEF SettleRaised, TypeOK, Manifest
  <2>2. CASE SettleReturned(a)
    BY <2>2, SettledEntry
  <2> QED
    BY <2>1, <2>2
<1> QED
  BY <1>1, <1>2, <1>3 DEF Naming, LanesAccounted, Early, TypeOK

\* The ways an attempt can end keep the first conjunct of Naming.
LEMMA RetriedHasRecords ==
  ASSUME NEW r \in Result, r.status = "retried-ok" => r.recs # NoRecords,
         NEW q \in LocalAttempts(r) \cup RemoteAttempts(r), q.status = "retried-ok"
  PROVE  q.recs # NoRecords
<1>1. TimedOut(r).status = "timeout" /\ ProviderFailed(r).status = "failed"
      /\ PostFailed(r).status = "failed"
  BY DEF TimedOut, ProviderFailed, PostFailed, Result
<1>2. ASSUME NEW e, Completed(r, e).status = "retried-ok"
      PROVE  Completed(r, e).recs # NoRecords
  BY <1>2 DEF Completed
<1>3. ASSUME NEW e, NEW s \in {"ok", "retried-ok"}, Answered(r, e, s).status = "retried-ok"
      PROVE  Answered(r, e, s).recs # NoRecords
  BY <1>3 DEF Answered, Result
<1> QED
  BY <1>1, <1>2, <1>3 DEF LocalAttempts, RemoteAttempts

LEMMA NamingHunt ==
  ASSUME TypeOK, Naming, NEW a \in Agents, Lane(a), pc = "hunt", pc' = "hunt",
         UNCHANGED <<roster, unsettled, heard>>
  PROVE  Naming'
<1>1. \A b \in Agents : res'[b].status = "retried-ok" => res'[b].recs # NoRecords
  <2>1. CASE LocalAttempt(a) \/ RemoteAttempt(a)
    <3>1. PICK q \in LocalAttempts(res[a]) \cup RemoteAttempts(res[a]) :
            res' = [res EXCEPT ![a] = q]
      BY <2>1 DEF LocalAttempt, RemoteAttempt, EndAttempt
    <3>2. q.status = "retried-ok" => q.recs # NoRecords
      BY RetriedHasRecords DEF TypeOK, Naming
    <3> QED
      BY <3>1, <3>2 DEF TypeOK, Naming
  <2>2. CASE StartLocal(a)
    BY <2>2 DEF StartLocal, NoLens, FreshResult, TypeOK, Naming
  <2> QED
    BY <2>1, <2>2
       DEF Lane, StartRemote, StartUnroutable, WorkerRaises, SettleRaised, AppendValid,
           AppendInvalid, SettleReturned, SettleWith, Settling, Naming
<1>2. /\ man'.quorum = man.quorum
      /\ \A b \in Agents : man'.agents[b].status = man.agents[b].status
  <2>1. CASE StartRemote(a) \/ StartLocal(a)
    <3>1. PICK v \in {"a2a", "local"} : man' = [man EXCEPT !.agents[a].via = v]
      BY <2>1 DEF StartRemote, StartLocal
    <3> QED
      BY <3>1 DEF TypeOK, Manifest, AgentRun
  <2>2. CASE man' = man
    BY <2>2
  <2> QED
    BY <2>1, <2>2
       DEF Lane, StartUnroutable, LocalAttempt, RemoteAttempt, EndAttempt, WorkerRaises,
           SettleRaised, AppendValid, AppendInvalid, SettleReturned, SettleWith, Settling
<1> QED
  BY <1>1, <1>2 DEF Naming, LanesAccounted, Early

LEMMA NamingStep ==
  ASSUME TypeOK, Filing, Counting, Naming, [Next]_vars
  PROVE  Naming'
<1>1. CASE Route
  <2>1. PICK kept \in SUBSET Agents :
          /\ roster' = kept
          /\ man'.agents = [a \in Agents |->
                              Listed(IF a \in kept THEN "spawned" ELSE "skipped")]
          /\ man'.quorum = man.quorum
    BY <1>1 DEF Route, Phase, TypeOK, Manifest
  <2>2. /\ pc = "route" /\ pc' = "gate" /\ res' = res
        /\ \A a \in Agents : man'.agents[a].status \notin LostStatus
    BY <1>1, <2>1 DEF Route, Listed, LostStatus
  <2> QED
    BY <2>1, <2>2 DEF Naming, LanesAccounted, Early
<1>2. CASE Preflight \/ AbortBlind \/ BeginHunt
  <2>1. /\ man'.quorum = man.quorum /\ man'.agents = man.agents
        /\ UNCHANGED <<roster, res>>
        /\ pc \in Early /\ pc' \in {"route", "aborted", "hunt"}
        /\ pc' = "hunt" => pc = "gate"
    BY <1>2 DEF Preflight, AbortBlind, BeginHunt, Phase, TypeOK, Manifest, memory, Early
  <2> QED
    BY <2>1 DEF Naming, LanesAccounted, Early
<1>3. CASE Gathered
  <2>1. heard = {}
    BY <1>3 DEF Gathered, Counting
  <2> QED
    BY <1>3, <2>1 DEF Gathered, Naming, LanesAccounted, Early
<1>4. CASE TakeQuorum
  <2>1. /\ pc = "settle" /\ unsettled = {} /\ pc' = "decide"
        /\ man'.quorum.valid = heard /\ man'.quorum.missing = MissingLanes
        /\ UNCHANGED <<roster, res>>
    BY <1>4 DEF TakeQuorum, Phase, TypeOK, Manifest, memory
  <2>2. heard \subseteq roster
    BY DEF Counting
  <2>3. MissingLanes = roster \ heard
    BY <2>1, <2>2 DEF Naming, MissingLanes, TypeOK
  <2> QED
    BY <2>1, <2>2, <2>3 DEF Naming, LanesAccounted, Early
<1>5. CASE AbortQuorum \/ Verify \/ Reduce \/ Report
  <2>1. /\ man'.quorum = man.quorum /\ UNCHANGED <<roster, res>>
        /\ pc' \in {"aborted", "reduce", "report", "done"}
    BY <1>5 DEF AbortQuorum, Verify, VerifyInto, Reduce, Report, Phase, TypeOK, Manifest,
                memory
  <2> QED
    BY <2>1 DEF Naming, LanesAccounted, Early
<1>6. ASSUME NEW a \in Agents, Lane(a)
      PROVE  Naming'
  <2>1. CASE AppendValid(a) \/ AppendInvalid(a)
    BY <2>1 DEF AppendValid, AppendInvalid, Naming, LanesAccounted
  <2> QED
    BY <1>6, <2>1, HuntFrame, NamingSettle, NamingHunt
<1>7. CASE Restart
  <2>1. /\ ~man'.quorum.taken /\ pc' = "preflight"
        /\ \A a \in Agents : res'[a].status # "retried-ok"
    BY <1>7 DEF Restart, NewManifest, NoQuorum, FreshResult
  <2> QED
    BY <2>1 DEF Naming, LanesAccounted
<1>8. CASE Crash \/ UNCHANGED vars
  BY <1>8 DEF Crash, vars, memory, Naming, LanesAccounted, Early
<1> QED
  BY <1>1, <1>2, <1>3, <1>4, <1>5, <1>6, <1>7, <1>8 DEF Next, Driver

LEMMA NamingInit == Init => Naming
BY DEF Init, Naming, LanesAccounted, Early, NewManifest, NoQuorum, FreshResult

\* Every lane of the roster is either counted by the quorum or named as missing.
THEOREM EveryLaneNamed == Spec => []LanesAccounted
<1>1. TypeOK /\ Filing /\ [Next]_vars => Filing'
  BY FilingStep
<1>2. TypeOK /\ Filing /\ Counting /\ [Next]_vars => Counting'
  BY CountingStep
<1>3. TypeOK /\ Filing /\ Counting /\ Naming /\ [Next]_vars => Naming'
  BY NamingStep
<1>4. Naming => LanesAccounted
  BY DEF Naming
<1> QED
  BY <1>1, <1>2, <1>3, <1>4, FilingInit, CountingInit, NamingInit, TypeCorrect, PTL
     DEF Spec

-----------------------------------------------------------------------------
(* What a report without the banner means *)

\* The ledger does not change after the quorum is taken, so its verdict goes on
\* describing it.
Judged ==
  pc \in After =>
    (man.quorum.degraded <=> BelowQuorum(heard, roster) \/ MissingCore # {})

LEMMA JudgedStep ==
  ASSUME TypeOK, Judged, [Next]_vars
  PROVE  Judged'
<1> USE DEF Judged, After, Early
<1>1. CASE TakeQuorum
  <2>1. /\ man'.quorum.degraded = (BelowQuorum(heard, roster) \/ MissingCore # {})
        /\ UNCHANGED <<roster, heard, ledger>>
    BY <1>1 DEF TakeQuorum, Phase, TypeOK, Manifest, memory, outputs
  <2> QED
    BY <2>1 DEF MissingCore, AgentsWithOutput
<1>2. CASE AbortQuorum \/ Verify \/ Reduce \/ Report
  <2>1. /\ man'.quorum = man.quorum /\ UNCHANGED <<roster, heard, ledger>>
        /\ pc' \in After => pc \in After
    BY <1>2 DEF AbortQuorum, Verify, VerifyInto, Reduce, Report, Phase, TypeOK, Manifest,
                memory, outputs
  <2> QED
    BY <2>1 DEF MissingCore, AgentsWithOutput
<1>3. CASE UNCHANGED vars
  BY <1>3 DEF vars, memory, outputs, MissingCore, AgentsWithOutput
<1>4. CASE \/ Preflight \/ Route \/ AbortBlind \/ BeginHunt \/ Gathered \/ Crash
           \/ Restart
  BY <1>4 DEF Preflight, Route, AbortBlind, BeginHunt, Gathered, Crash, Restart
<1>5. ASSUME NEW a \in Agents, Lane(a)
      PROVE  pc' \notin After
  BY <1>5, HuntFrame DEF SettleRaised, AppendValid, AppendInvalid, SettleReturned,
                         SettleWith, Settling
<1> QED
  BY <1>1, <1>2, <1>3, <1>4, <1>5 DEF Next, Driver

LEMMA JudgedHonest ==
  ASSUME MaxRuns = 1, TypeOK, Counting, Judged
  PROVE  HonestBanner
<1> SUFFICES ASSUME pc = "done", ~man.quorum.degraded
             PROVE  /\ 5 * Cardinality(Delivered) >= 4 * Cardinality(roster)
                    /\ Core \subseteq Delivered
  BY DEF HonestBanner
<1>1. ~BelowQuorum(heard, roster) /\ MissingCore = {}
  BY DEF Judged, After
<1>2. heard \subseteq Delivered /\ Delivered \in SUBSET Agents
  BY DEF Counting, Delivered, TypeOK
<1>3. AgentsWithOutput = Delivered
  BY DEF AgentsWithOutput, Delivered, TypeOK, Runs
<1>4. /\ Cardinality(heard) <= Cardinality(Delivered)
      /\ Cardinality(heard) \in Nat /\ Cardinality(Delivered) \in Nat
      /\ Cardinality(roster) \in Nat
  BY <1>2, SubsetCardinality DEF TypeOK
<1> QED
  BY <1>1, <1>3, <1>4, AgentsAssumption DEF BelowQuorum, MissingCore

\* In a workdir of its own, a run that reports without the DEGRADED banner heard
\* from four fifths of its roster and from the whole core.
THEOREM BannerIsHonest ==
  ASSUME MaxRuns = 1
  PROVE  Spec => []HonestBanner
<1>1. TypeOK /\ Filing /\ [Next]_vars => Filing'
  BY FilingStep
<1>2. TypeOK /\ Filing /\ Counting /\ [Next]_vars => Counting'
  BY CountingStep
<1>3. Init => Judged
  BY DEF Init, Judged, After
<1>4. TypeOK /\ Judged /\ [Next]_vars => Judged'
  BY JudgedStep
<1>5. TypeOK /\ Counting /\ Judged => HonestBanner
  BY JudgedHonest
<1> QED
  BY <1>1, <1>2, <1>3, <1>4, <1>5, FilingInit, CountingInit, TypeCorrect, PTL DEF Spec

-----------------------------------------------------------------------------
(* Nothing is spent on a blind audit *)

\* With a core lane blind, the run never gets to where a lane could start.
Unspent ==
  /\ NothingSpentBlind
  /\ pc \in Early => \A a \in Agents : res[a].attempts = 0

LEMMA UnspentStep ==
  ASSUME TypeOK, Counting, Unspent, [Next]_vars
  PROVE  Unspent'
<1> USE DEF Unspent, NothingSpentBlind
<1>1. CASE Driver
  <2>1. /\ res' = res
        /\ pc' \in Early => pc \in Early
        /\ blind' # blind => pc \in Early
    BY <1>1 DEF Driver, Preflight, Route, AbortBlind, BeginHunt, Gathered, TakeQuorum,
                AbortQuorum, Verify, VerifyInto, Reduce, Report, memory, Early
  <2> QED
    BY <2>1
<1>2. ASSUME NEW a \in Agents, Lane(a)
      PROVE  Unspent'
  <2>1. /\ blind' = blind /\ pc' = pc /\ pc \in {"hunt", "settle"}
    BY <1>2, HuntFrame DEF SettleRaised, AppendValid, AppendInvalid, SettleReturned,
                           SettleWith, Settling, outputs
  <2>2. blind \cap Core = {}
    BY <2>1 DEF Counting
  <2> QED
    BY <2>1, <2>2 DEF Early
<1>3. CASE Restart
  BY <1>3 DEF Restart, FreshResult
<1>4. CASE Crash \/ UNCHANGED vars
  BY <1>4 DEF Crash, vars, memory, Early
<1> QED
  BY <1>1, <1>2, <1>3, <1>4 DEF Next

\* No worker makes an attempt in a run a core lane of which has no lens.
THEOREM NothingIsSpentBlind == Spec => []NothingSpentBlind
<1>1. TypeOK /\ Filing /\ [Next]_vars => Filing'
  BY FilingStep
<1>2. TypeOK /\ Filing /\ Counting /\ [Next]_vars => Counting'
  BY CountingStep
<1>3. Init => Unspent
  BY DEF Init, Unspent, NothingSpentBlind, FreshResult
<1>4. TypeOK /\ Counting /\ Unspent /\ [Next]_vars => Unspent'
  BY UnspentStep
<1>5. Unspent => NothingSpentBlind
  BY DEF Unspent
<1> QED
  BY <1>1, <1>2, <1>3, <1>4, <1>5, FilingInit, CountingInit, TypeCorrect, PTL DEF Spec

-----------------------------------------------------------------------------
(* The semaphore and the barrier: nobody is stuck *)

\* No more workers run at once than there are permits.
FanOut == Cardinality(PermitsHeld) <= MaxConcurrency

\* Among finitely many lanes a smaller set, or one with one lane more.
LEMMA HeldCardinality ==
  ASSUME NEW S \in SUBSET Agents, NEW T \in SUBSET Agents
  PROVE  /\ Cardinality(S) \in Nat /\ Cardinality(T) \in Nat
         /\ S \subseteq T => Cardinality(S) <= Cardinality(T)
         /\ \A a \in Agents : S \subseteq T \cup {a} => Cardinality(S) <= Cardinality(T) + 1
<1>1. IsFiniteSet(S) /\ IsFiniteSet(T)
  BY AgentsAssumption, FS_Subset
<1>2. Cardinality(S) \in Nat /\ Cardinality(T) \in Nat
  BY <1>1, FS_CardinalityType
<1>3. S \subseteq T => Cardinality(S) <= Cardinality(T)
  BY <1>1, FS_Subset
<1>4. ASSUME NEW a \in Agents, S \subseteq T \cup {a}
      PROVE  Cardinality(S) <= Cardinality(T) + 1
  <2>1. IsFiniteSet(T \cup {a}) /\ (Cardinality(T \cup {a}) = Cardinality(T)
                                    \/ Cardinality(T \cup {a}) = Cardinality(T) + 1)
    BY <1>1, FS_AddElement
  <2>2. Cardinality(S) <= Cardinality(T \cup {a})
    BY <1>4, <2>1, FS_Subset
  <2> QED
    BY <1>2, <2>1, <2>2
<1> QED
  BY <1>2, <1>3, <1>4

LEMMA FanOutStep ==
  ASSUME TypeOK, FanOut, [Next]_vars
  PROVE  FanOut'
<1>1. PermitsHeld \in SUBSET Agents /\ PermitsHeld' \in SUBSET Agents
  BY DEF PermitsHeld
<1>2. MaxConcurrency \in Nat
  BY AgentsAssumption
<1>3. ASSUME NEW a \in Agents, Admitted(a), PermitsHeld' \subseteq PermitsHeld \cup {a}
      PROVE  FanOut'
  <2>1. Cardinality(PermitsHeld) < MaxConcurrency
    BY <1>3 DEF Admitted
  <2> QED
    BY <1>1, <1>2, <1>3, <2>1, HeldCardinality DEF FanOut
<1>4. ASSUME PermitsHeld' \subseteq PermitsHeld PROVE FanOut'
  BY <1>1, <1>2, <1>4, HeldCardinality DEF FanOut
<1>5. CASE Driver
  BY <1>4, <1>5 DEF PermitsHeld, Driver, Preflight, Route, AbortBlind, BeginHunt, Gathered,
                    TakeQuorum, AbortQuorum, Verify, VerifyInto, Reduce, Report, memory
<1>6. ASSUME NEW a \in Agents, StartRemote(a) \/ StartLocal(a) PROVE FanOut'
  <2>1. Admitted(a) /\ \A b \in Agents \ {a} : task'[b] = task[b]
    BY <1>6 DEF StartRemote, StartLocal, TypeOK
  <2> QED
    BY <1>3, <2>1 DEF PermitsHeld
<1>7. ASSUME NEW a \in Agents, LocalAttempt(a) \/ RemoteAttempt(a) PROVE FanOut'
  <2>1. task[a] = "running" /\ \A b \in Agents \ {a} : task'[b] = task[b]
    BY <1>7 DEF LocalAttempt, RemoteAttempt, EndAttempt, TypeOK
  <2> QED
    BY <1>4, <2>1 DEF PermitsHeld
<1>8. ASSUME NEW a \in Agents, StartUnroutable(a) \/ WorkerRaises(a) PROVE FanOut'
  <2>1. \A b \in Agents : task'[b] = "running" => task[b] = "running"
    BY <1>8 DEF StartUnroutable, WorkerRaises, TypeOK
  <2> QED
    BY <1>4, <2>1 DEF PermitsHeld
<1>9. ASSUME NEW a \in Agents,
             SettleRaised(a) \/ AppendValid(a) \/ AppendInvalid(a) \/ SettleReturned(a)
      PROVE  FanOut'
  BY <1>4, <1>9 DEF SettleRaised, AppendValid, AppendInvalid, SettleReturned, SettleWith,
                    PermitsHeld
<1>10. CASE Restart
  BY <1>4, <1>10 DEF Restart, PermitsHeld
<1>11. CASE Crash \/ UNCHANGED vars
  BY <1>4, <1>11 DEF Crash, vars, memory, PermitsHeld
<1> QED
  BY <1>5, <1>6, <1>7, <1>8, <1>9, <1>10, <1>11 DEF Next, Lane

\* The hunt never runs more workers at once than the semaphore has permits,
\* however lanes return, raise or are retried.  (asyncio.Semaphore in _phase_hunt)
THEOREM FanOutBounded == Spec => []FanOut
<1>1. Init => FanOut
  <2> SUFFICES ASSUME Init PROVE FanOut
    OBVIOUS
  <2>1. PermitsHeld = {}
    BY DEF Init, PermitsHeld
  <2> QED
    BY <2>1, FS_EmptySet, AgentsAssumption DEF FanOut
<1>2. TypeOK /\ FanOut /\ [Next]_vars => FanOut'
  BY FanOutStep
<1> QED
  BY <1>1, <1>2, TypeCorrect, PTL DEF Spec

\* While lanes are hunting, one that has not ended runs or is next for a permit;
\* in the loop after the gather, the lane it is at raised, has a record left, or
\* has all of them on disk.
CanGoOn ==
  /\ pc = "hunt" /\ (\E a \in roster : task[a] \notin {"returned", "raised"}) =>
       \E a \in roster : task[a] = "running" \/ Admitted(a)
  /\ pc = "settle" /\ unsettled # {} =>
       \E a \in unsettled :
         /\ Settling(a)
         /\ \/ task[a] = "raised"
            \/ /\ task[a] = "returned"
               /\ \/ tally.good < res[a].recs.good
                  \/ tally.bad < res[a].recs.bad
                  \/ tally = res[a].recs

\* What keeps a run going: a task for the lanes of the roster, all of them ended
\* when the loop begins, and never more on disk of a lane than it has records.
Manned ==
  /\ pc = "hunt" => \A a \in Agents : a \in roster <=> task[a] # "idle"
  /\ pc = "settle" =>
       \A a \in unsettled :
         /\ task[a] \in {"returned", "raised"}
         /\ Begun(a).good <= res[a].recs.good
         /\ Begun(a).bad <= res[a].recs.bad

LEMMA MannedSettle ==
  ASSUME TypeOK, Filing, Manned, NEW a \in Agents,
         SettleRaised(a) \/ AppendValid(a) \/ AppendInvalid(a) \/ SettleReturned(a)
  PROVE  Manned'
<1>1. /\ pc = "settle" /\ pc' = "settle" /\ a \in unsettled /\ First(a, unsettled)
      /\ unsettled' \subseteq unsettled
      /\ UNCHANGED <<task, res>>
  BY DEF SettleRaised, AppendValid, AppendInvalid, SettleReturned, SettleWith, Settling, First
<1>2. \A b \in Agents : /\ res[b].recs.good \in Nat /\ res[b].recs.bad \in Nat
                       /\ 0 <= res[b].recs.good /\ 0 <= res[b].recs.bad
  BY DEF TypeOK, Result, Emission
<1>3. CASE SettleRaised(a) \/ SettleReturned(a)
  <2>1. tally' = NoRecords
    BY <1>1, <1>3 DEF SettleRaised, SettleReturned, SettleWith, Filing, Begun
  <2>2. \A b \in unsettled' : Begun(b)' = NoRecords
    BY <2>1 DEF Begun
  <2> QED
    BY <1>1, <1>2, <2>2 DEF Manned, NoRecords, TypeOK
<1>4. CASE AppendValid(a) \/ AppendInvalid(a)
  <2>1. unsettled' = unsettled /\ tally.good \in Nat /\ tally.bad \in Nat
    BY <1>4 DEF AppendValid, AppendInvalid, TypeOK, Emission
  <2>2. tally'.good <= res[a].recs.good /\ tally'.bad <= res[a].recs.bad
    <3>1. tally.good <= res[a].recs.good /\ tally.bad <= res[a].recs.bad
      BY <1>1 DEF Manned, Begun
    <3>2. CASE AppendValid(a)
      <4>1. tally'.good = tally.good + 1 /\ tally'.bad = tally.bad
            /\ tally.good < res[a].recs.good
        BY <3>2 DEF AppendValid, TypeOK, Emission
      <4> QED
        BY <1>2, <2>1, <3>1, <4>1
    <3>3. CASE AppendInvalid(a)
      <4>1. tally'.bad = tally.bad + 1 /\ tally'.good = tally.good
            /\ tally.bad < res[a].recs.bad
        BY <3>3 DEF AppendInvalid, TypeOK, Emission
      <4> QED
        BY <1>2, <2>1, <3>1, <4>1
    <3> QED
      BY <1>4, <3>2, <3>3
  <2>3. Begun(a)' = tally'
    BY <1>1, <2>1 DEF Begun
  <2>4. ASSUME NEW b \in unsettled, b # a PROVE Begun(b)' = Begun(b)
    <3>1. ~First(b, unsettled)
      BY <1>1, <2>4, FirstUnique DEF TypeOK
    <3> QED
      BY <2>1, <3>1 DEF Begun
  <2> QED
    BY <1>1, <2>1, <2>2, <2>3, <2>4 DEF Manned
<1> QED
  BY <1>3, <1>4

LEMMA MannedStep ==
  ASSUME TypeOK, Filing, Manned, [Next]_vars
  PROVE  Manned'
<1>1. CASE BeginHunt
  <2>1. pc' = "hunt" /\ roster' = roster
        /\ \A a \in Agents : task'[a] = IF a \in roster THEN "queued" ELSE "idle"
    BY <1>1 DEF BeginHunt
  <2> QED
    BY <2>1 DEF Manned
<1>2. CASE Gathered
  <2>1. /\ pc = "hunt" /\ pc' = "settle" /\ unsettled' = roster
        /\ \A a \in roster : task'[a] \in {"returned", "raised"}
        /\ tally' = NoRecords /\ res' = res
    BY <1>2 DEF Gathered, Filing
  <2>2. \A b \in unsettled' : Begun(b)' = NoRecords
    BY <2>1 DEF Begun
  <2>3. \A b \in Agents : 0 <= res[b].recs.good /\ 0 <= res[b].recs.bad
    BY DEF TypeOK, Result, Emission
  <2> QED
    BY <2>1, <2>2, <2>3 DEF Manned, NoRecords, TypeOK
<1>3. CASE Driver /\ ~BeginHunt /\ ~Gathered
  <2>1. pc' \notin {"hunt", "settle"}
    BY <1>3 DEF Driver, Preflight, Route, AbortBlind, TakeQuorum, AbortQuorum, Verify,
                VerifyInto, Reduce, Report
  <2> QED
    BY <2>1 DEF Manned
<1>4. ASSUME NEW a \in Agents, Lane(a)
      PROVE  Manned'
  <2>1. CASE ~(SettleRaised(a) \/ AppendValid(a) \/ AppendInvalid(a) \/ SettleReturned(a))
    <3>1. pc = "hunt" /\ pc' = "hunt" /\ roster' = roster
      BY <1>4, <2>1, HuntFrame
    <3>2. task[a] \in {"queued", "running"}
      BY <1>4, <2>1 DEF Lane, StartRemote, StartUnroutable, StartLocal, LocalAttempt,
                        RemoteAttempt, WorkerRaises, Admitted, First
    <3>3. task'[a] \in {"running", "returned", "raised"}
          /\ \A b \in Agents \ {a} : task'[b] = task[b]
      BY <1>4, <2>1 DEF Lane, StartRemote, StartUnroutable, StartLocal, LocalAttempt,
                        RemoteAttempt, EndAttempt, WorkerRaises, TypeOK
    <3> QED
      BY <3>1, <3>2, <3>3 DEF Manned
  <2> QED
    BY <1>4, <2>1, MannedSettle
<1>5. CASE Restart \/ Crash
  BY <1>5 DEF Restart, Crash, Manned
<1>6. CASE UNCHANGED vars
  BY <1>6 DEF vars, memory, Manned, Begun
<1> QED
  BY <1>1, <1>2, <1>3, <1>4, <1>5, <1>6 DEF Next

\* In a set of lanes that is not empty one is first.
LEMMA SomeoneIsFirst ==
  ASSUME NEW S \in SUBSET Agents, S # {}
  PROVE  \E a \in S : First(a, S)
BY AgentsAssumption, LeastNumber DEF First

LEMMA MannedGoesOn ==
  ASSUME TypeOK, Manned
  PROVE  CanGoOn
<1>1. ASSUME pc = "hunt", NEW b \in roster, task[b] \notin {"returned", "raised"},
             \A a \in roster : task[a] # "running"
      PROVE  \E a \in roster : Admitted(a)
  <2> DEFINE Q == {a \in roster : task[a] = "queued"}
  <2>1. roster \subseteq Agents
    BY DEF TypeOK
  <2>2. task[b] = "queued"
    BY <1>1, <2>1 DEF Manned, TypeOK, TaskStates
  <2>3. PICK a \in Q : First(a, Q)
    BY <2>1, <2>2, SomeoneIsFirst
  <2>4. task[a] = "queued" /\ a \in roster /\ Q = {x \in roster : task[x] = "queued"}
    BY <2>3
  <2>5. PermitsHeld = {}
    BY <1>1 DEF Manned, PermitsHeld
  <2>6. Cardinality(PermitsHeld) < MaxConcurrency
    BY <2>5, FS_EmptySet, AgentsAssumption
  <2> QED
    BY <1>1, <2>3, <2>4, <2>6 DEF Admitted
<1>2. ASSUME pc = "settle", unsettled # {}
      PROVE  \E a \in unsettled :
               /\ Settling(a)
               /\ \/ task[a] = "raised"
                  \/ /\ task[a] = "returned"
                     /\ \/ tally.good < res[a].recs.good
                        \/ tally.bad < res[a].recs.bad
                        \/ tally = res[a].recs
  <2>1. PICK a \in unsettled : First(a, unsettled)
    BY <1>2, SomeoneIsFirst DEF TypeOK
  <2>2. /\ task[a] \in {"returned", "raised"} /\ Settling(a)
        /\ tally.good <= res[a].recs.good /\ tally.bad <= res[a].recs.bad
    BY <1>2, <2>1 DEF Manned, Begun, Settling
  <2>3. tally \in Emission /\ res[a].recs \in Emission
    BY DEF TypeOK, Result
  <2>4. tally.good = res[a].recs.good /\ tally.bad = res[a].recs.bad => tally = res[a].recs
    BY <2>3 DEF Emission
  <2>5. \/ tally.good < res[a].recs.good \/ tally.bad < res[a].recs.bad
        \/ (tally.good = res[a].recs.good /\ tally.bad = res[a].recs.bad)
    BY <2>2, <2>3 DEF Emission
  <2> QED
    BY <2>2, <2>4, <2>5
<1> QED
  BY <1>1, <1>2 DEF CanGoOn

\* Until the run has ended somebody can take a step: no lane waits for a permit that
\* nobody will give back, the gather does not wait for a lane that will not end, and
\* the loop after it does not stop at a lane.  (run_one, gather and append_many)
THEOREM NobodyIsStuck == Spec => []CanGoOn
<1>1. TypeOK /\ Filing /\ [Next]_vars => Filing'
  BY FilingStep
<1>2. Init => Manned
  BY DEF Init, Manned
<1>3. TypeOK /\ Filing /\ Manned /\ [Next]_vars => Manned'
  BY MannedStep
<1>4. TypeOK /\ Manned => CanGoOn
  BY MannedGoesOn
<1> QED
  BY <1>1, <1>2, <1>3, <1>4, FilingInit, TypeCorrect, PTL DEF Spec
=============================================================================
