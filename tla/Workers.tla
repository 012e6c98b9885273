------------------------------ MODULE Workers ------------------------------
(***************************************************************************)
(* The two hunting workers behind one interface: HuntAgent (in process,    *)
(* agents/base.py) and RemoteHuntAgent (over A2A, a2a_client.py).  Each is *)
(* a loop of at most two attempts that transforms an AgentResult; this     *)
(* module gives one operator per way an attempt can end.  Who runs the     *)
(* loops, and when, is said by the modules that extend this one.           *)
(*                                                                         *)
(* The text a provider returns is abstracted to its emission: how many of  *)
(* the records extract_records finds in it Finding.model_validate accepts  *)
(* (good) and how many it rejects (bad).                                   *)
(***************************************************************************)
EXTENDS Naturals

CONSTANT Emissions      \* what one completion can carry

Emission == [good : Nat, bad : Nat]

ASSUME EmissionsAssumption == Emissions \subseteq Emission

NoRecords == [good |-> 0, bad |-> 0]

MaxAttempts == 2        \* "one retry, ever"

WorkerStatus == {"ok", "retried-ok", "timeout", "failed", "invalid-output"}

\* AgentResult.  billed counts the completions whose usage was added to
\* input_tokens and output_tokens.
Result == [attempts : 0..MaxAttempts,
           status   : WorkerStatus,
           recs     : Emission,
           billed   : Nat]

FreshResult ==
  [attempts |-> 0, status |-> "ok", recs |-> NoRecords, billed |-> 0]

\* Slip: off by one in the number of attempts.
MayAttemptThrice(r) == r.attempts <= MaxAttempts /\ r.recs = NoRecords

\* The loop goes round again only while no attempt has produced a record.
MayAttempt(r) == r.attempts < MaxAttempts /\ r.recs = NoRecords

-----------------------------------------------------------------------------
(* HuntAgent.run *)

\* The specialty file is missing or too small: no attempt is made.
NoLens == [FreshResult EXCEPT !.status = "failed"]

\* asyncio.wait_for gave up.
TimedOut(r) == [r EXCEPT !.attempts = @ + 1, !.status = "timeout"]

\* The provider raised.
ProviderFailed(r) == [r EXCEPT !.attempts = @ + 1, !.status = "failed"]

\* The provider answered with emission e: usage accumulates over attempts.
Completed(r, e) ==
  [attempts |-> r.attempts + 1,
   status   |-> IF e = NoRecords THEN "invalid-output"
                ELSE IF r.attempts = 0 THEN "ok" ELSE "retried-ok",
   recs     |-> e,
   billed   |-> r.billed + 1]

\* Every way one local attempt can end.
LocalAttempts(r) ==
  {TimedOut(r), ProviderFailed(r)} \cup {Completed(r, e) : e \in Emissions}

-----------------------------------------------------------------------------
(* The /tasks/hunt endpoint, and RemoteHuntAgent.run *)

\* The service boundary of the server puts only the records that validate
\* into HuntResponse.records.
Screened(e) == [e EXCEPT !.bad = 0]

\* TimeoutError or httpx.HTTPError: refused, dropped, late, or a 4xx/5xx.
PostFailed(r) == [r EXCEPT !.attempts = @ + 1, !.status = "failed"]

\* Slip: the status of the response is not looked at.
AnsweredAsOk(r, e, status) ==
  [r EXCEPT !.attempts = @ + 1,
            !.recs     = e,
            !.status   = IF e = NoRecords THEN "invalid-output"
                         ELSE IF r.attempts = 0 THEN "ok" ELSE "retried-ok"]

\* A HuntResponse arrived, with the records and the status the server gave
\* it.  It carries no usage, so nothing is billed to the lane.
Answered(r, e, status) ==
  [r EXCEPT !.attempts = @ + 1,
            !.recs     = e,
            !.status   = IF e = NoRecords THEN "invalid-output"
                         ELSE IF r.attempts = 0 THEN status
                         ELSE "retried-ok"]

\* Every way one remote attempt can end, whatever the server's own HuntAgent
\* went through (module RemoteHunt models that).
RemoteAttempts(r) ==
  {PostFailed(r)} \cup
  {Answered(r, Screened(e), s) : e \in Emissions, s \in {"ok", "retried-ok"}}
=============================================================================
