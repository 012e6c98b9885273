-------------------------- MODULE RemoteHuntProofs --------------------------
(***************************************************************************)
(* Theorems about RemoteHunt: whatever the network loses or delays, and    *)
(* whatever either side retries, for every set of emissions.               *)
(***************************************************************************)
EXTENDS RemoteHunt, TLAPS

-----------------------------------------------------------------------------
(* Type correctness *)

LEMMA StartIsResult ==
  /\ FreshResult \in Result /\ NoLens \in Result
  /\ MayAttempt(FreshResult) /\ FreshResult.recs = NoRecords /\ NoLens.recs = NoRecords
BY DEF FreshResult, NoLens, Result, NoRecords, Emission, MaxAttempts, WorkerStatus, MayAttempt

\* The server's own attempts: the result stays one, and a lane that needed one
\* attempt is exactly a lane marked ok.
LEMMA AttemptMade ==
  ASSUME NEW r \in Result, MayAttempt(r), NEW q \in LocalAttempts(r)
  PROVE  /\ q \in Result
         /\ q.recs # NoRecords => (q.status = "ok" <=> q.attempts = 1)
<1>1. r.attempts \in 0..1 /\ r.recs = NoRecords /\ r.recs \in Emission /\ r.billed \in Nat
      /\ r.attempts + 1 \in 0..MaxAttempts /\ r.billed + 1 \in Nat
  BY DEF Result, MayAttempt, MaxAttempts
<1>2. CASE q \in {TimedOut(r), ProviderFailed(r)}
  BY <1>1, <1>2 DEF TimedOut, ProviderFailed, Result, WorkerStatus
<1>3. ASSUME NEW e \in Emissions, q = Completed(r, e)
      PROVE  /\ q \in Result
             /\ q.recs # NoRecords => (q.status = "ok" <=> q.attempts = 1)
  <2>1. e \in Emission
    BY EmissionsAssumption
  <2> QED
    BY <1>1, <1>3, <2>1 DEF Completed, Result, WorkerStatus
<1> QED
  BY <1>2, <1>3 DEF LocalAttempts

\* The client's: a failed post leaves what was there.
LEMMA PostFails ==
  ASSUME NEW r \in Result, MayAttempt(r)
  PROVE  /\ PostFailed(r) \in Result /\ PostFailed(r).recs = NoRecords
         /\ PostFailed(r).attempts = r.attempts + 1
<1>1. r.recs = NoRecords /\ r.attempts + 1 \in 0..MaxAttempts
  BY DEF Result, MayAttempt, MaxAttempts
<1> QED
  BY <1>1 DEF PostFailed, Result, WorkerStatus

\* An answer replaces it.
LEMMA AnswerTaken ==
  ASSUME NEW r \in Result, MayAttempt(r), NEW e \in Emission, NEW s \in WorkerStatus
  PROVE  /\ Answered(r, e, s) \in Result
         /\ Answered(r, e, s).attempts = r.attempts + 1
         /\ Answered(r, e, s).recs = e
         /\ e # NoRecords =>
              Answered(r, e, s).status = IF r.attempts = 0 THEN s ELSE "retried-ok"
<1>1. r.attempts \in 0..1 /\ r.attempts + 1 \in 0..MaxAttempts
  BY DEF Result, MayAttempt, MaxAttempts
<1> QED
  BY <1>1 DEF Answered, Result, WorkerStatus

\* The service boundary only takes records away.
LEMMA ScreenedLess ==
  ASSUME NEW e \in Emission
  PROVE  Screened(e) \in Emission /\ (Screened(e) # NoRecords => e # NoRecords)
BY DEF Screened, Emission, NoRecords

\* Whoever may go on has an attempt left, the posts still to come are unsent, and
\* a handler works only on what was delivered.
Waiting ==
  /\ client \in {"ready", "waiting"} => MayAttempt(res)
  /\ client = "ready" => \A p \in Posts : p >= Current => wire[p] = "unsent"
  /\ client = "waiting" => \A p \in Posts : p > Current => wire[p] = "unsent"
  /\ \A p \in Posts :
       /\ server[p] # "idle" => wire[p] = "delivered"
       /\ server[p] = "hunting" => MayAttempt(work[p])

LEMMA CurrentIsPost ==
  ASSUME TypeOK, MayAttempt(res)
  PROVE  Current \in Posts /\ res.recs = NoRecords
BY DEF TypeOK, MayAttempt, Current, Posts, Result, MaxAttempts

LEMMA TypeStep ==
  ASSUME TypeOK, Waiting, [Next]_remoteVars
  PROVE  (TypeOK /\ Waiting)'
<1> USE DEF TypeOK, Waiting, Current
<1>1. CASE Post
  <2>1. MayAttempt(res)
    BY <1>1 DEF Post
  <2>2. Current \in Posts
    BY <2>1, CurrentIsPost
  <2>3. wire[Current] = "unsent" /\ server[Current] = "idle"
    BY <1>1, <2>2 DEF Post, Posts
  <2>4. \A p \in Posts : p > Current => p >= Current /\ p # Current
    BY <2>2 DEF Posts
  <2> QED
    BY <1>1, <2>1, <2>2, <2>3, <2>4 DEF Post
<1>2. CASE GiveUp
  <2>1. PostFailed(res) \in Result /\ PostFailed(res).attempts = res.attempts + 1
    BY <1>2, PostFails DEF GiveUp
  <2>2. \A p \in Posts : p >= res.attempts + 1 + 1 => p > res.attempts + 1
    BY DEF Posts, Result
  <2> QED
    BY <1>2, <2>1, <2>2 DEF GiveUp, Conclude
<1>3. CASE Raise
  BY <1>3 DEF Raise
<1>4. ASSUME NEW p \in Posts, Answer(p)
      PROVE  (TypeOK /\ Waiting)'
  <2>1. work[p] \in Result /\ work[p].recs \in Emission /\ work[p].status \in WorkerStatus
    BY DEF Result
  <2>2. MayAttempt(res) /\ Screened(work[p].recs) \in Emission
    BY <1>4, <2>1, ScreenedLess DEF Answer
  <2>3. Answered(res, Screened(work[p].recs), work[p].status) \in Result
    BY <2>1, <2>2, AnswerTaken
  <2>4. Answered(res, Screened(work[p].recs), work[p].status).attempts = res.attempts + 1
    BY <2>1, <2>2, AnswerTaken
  <2>5. \A q \in Posts : q >= res.attempts + 1 + 1 => q > res.attempts + 1
    BY DEF Posts, Result
  <2> QED
    BY <1>4, <2>3, <2>4, <2>5 DEF Answer, Conclude
<1>5. ASSUME NEW p \in Posts, Lose(p)
      PROVE  (TypeOK /\ Waiting)'
  BY <1>5 DEF Lose
<1>6. ASSUME NEW p \in Posts, Deliver(p)
      PROVE  (TypeOK /\ Waiting)'
  <2>1. PICK r \in {FreshResult, NoLens} :
          /\ work' = [work EXCEPT ![p] = r]
          /\ server' = [server EXCEPT ![p] =
                          IF r = FreshResult THEN "hunting" ELSE "answered"]
    BY <1>6 DEF Deliver
  <2>2. r \in Result
    BY StartIsResult
  <2> QED
    BY <1>6, <2>1, <2>2, StartIsResult DEF Deliver
<1>7. ASSUME NEW p \in Posts, ServerAttempt(p)
      PROVE  (TypeOK /\ Waiting)'
  <2>1. PICK r \in LocalAttempts(work[p]) :
          /\ work' = [work EXCEPT ![p] = r]
          /\ server' = [server EXCEPT ![p] = IF MayAttempt(r) THEN "hunting" ELSE "answered"]
    BY <1>7 DEF ServerAttempt
  <2>2. r \in Result
    BY <1>7, AttemptMade DEF ServerAttempt
  <2> QED
    BY <1>7, <2>1, <2>2 DEF ServerAttempt
<1>8. ASSUME NEW p \in Posts, ServerDies(p)
      PROVE  (TypeOK /\ Waiting)'
  BY <1>8 DEF ServerDies
<1>9. CASE UNCHANGED remoteVars
  BY <1>9 DEF remoteVars
<1> QED
  BY <1>1, <1>2, <1>3, <1>4, <1>5, <1>6, <1>7, <1>8, <1>9 DEF Next, Client, Handler, Network

\* Every variable always holds a value of its type; in particular neither side
\* ever makes a third attempt.
THEOREM RemoteTypeCorrect == Spec => [](TypeOK /\ Waiting)
<1>1. Init => TypeOK /\ Waiting
  BY StartIsResult DEF Init, TypeOK, Waiting, Posts
<1>2. TypeOK /\ Waiting /\ [Next]_remoteVars => (TypeOK /\ Waiting)'
  BY TypeStep
<1> QED
  BY <1>1, <1>2, PTL DEF Spec

-----------------------------------------------------------------------------
(* One answer, truthfully marked *)

\* The two reasons a handler's result may be relied on once it was taken: it was
\* final, and what it says of its attempts is true.
Taken ==
  /\ \A p \in Posts :
       work[p].recs # NoRecords => (work[p].status = "ok" <=> work[p].attempts = 1)
  /\ res.recs # NoRecords =>
       /\ served = res.attempts /\ served \in Posts /\ server[served] = "answered"
       /\ res.recs = Screened(work[served].recs)
       /\ res.status = "ok" <=> res.attempts = 1 /\ work[1].attempts = 1

\* What the server does to a post leaves an answer that was taken alone: its
\* handler has ended.
LEMMA TakenStays ==
  ASSUME TypeOK, Taken, NEW p \in Posts, server[p] # "answered",
         NEW r \in Result, r.recs # NoRecords => (r.status = "ok" <=> r.attempts = 1),
         work' = [work EXCEPT ![p] = r],
         NEW s \in {"hunting", "answered"}, server' = [server EXCEPT ![p] = s],
         UNCHANGED <<res, served>>
  PROVE  Taken'
<1>1. \A q \in Posts :
        work'[q].recs # NoRecords => (work'[q].status = "ok" <=> work'[q].attempts = 1)
  BY DEF TypeOK, Taken
<1>2. ASSUME res.recs # NoRecords
      PROVE  /\ server'[served] = "answered" /\ work'[served] = work[served]
             /\ res.attempts = 1 => work'[1] = work[1]
  BY <1>2 DEF TypeOK, Taken
<1> QED
  BY <1>1, <1>2 DEF Taken

LEMMA TakenStep ==
  ASSUME TypeOK, Waiting, Taken, [Next]_remoteVars
  PROVE  Taken'
<1>1. CASE Post \/ Raise
  BY <1>1 DEF Post, Raise, Taken
<1>2. CASE GiveUp
  <2>1. res' = PostFailed(res) /\ PostFailed(res).recs = NoRecords
    BY <1>2, PostFails DEF GiveUp, Conclude, TypeOK, Waiting
  <2> QED
    BY <1>2, <2>1 DEF GiveUp, Taken
<1>3. ASSUME NEW p \in Posts, Answer(p)
      PROVE  Taken'
  <2> DEFINE e == Screened(work[p].recs)
             s == work[p].status
  <2>1. /\ res' = Answered(res, e, s) /\ served' = p
        /\ p = Current /\ server[p] = "answered" /\ MayAttempt(res)
        /\ UNCHANGED <<server, work>>
    BY <1>3 DEF Answer, Answers, Conclude, Waiting
  <2>2. work[p] \in Result /\ work[p].recs \in Emission /\ s \in WorkerStatus
    BY DEF TypeOK, Result
  <2>3. e \in Emission /\ (e # NoRecords => work[p].recs # NoRecords)
    BY <2>2, ScreenedLess
  <2> HIDE DEF e, s
  <2>4. res \in Result
    BY DEF TypeOK
  <2>5. /\ res'.attempts = res.attempts + 1 /\ res'.recs = e
        /\ e # NoRecords =>
             res'.status = IF res.attempts = 0 THEN s ELSE "retried-ok"
    BY <2>1, <2>2, <2>3, <2>4, AnswerTaken
  <2>6. res.attempts \in Nat /\ p = res.attempts + 1
    BY <2>1, <2>4 DEF Result, Current
  <2>7. e # NoRecords => (res'.status = "ok" <=> res'.attempts = 1 /\ work[1].attempts = 1)
    <3>1. CASE res.attempts = 0
      BY <2>3, <2>5, <2>6, <3>1 DEF Taken, s
    <3>2. CASE res.attempts # 0
      BY <2>5, <2>6, <3>2
    <3> QED
      BY <3>1, <3>2
  <2> QED
    BY <2>1, <2>5, <2>6, <2>7 DEF Taken, e
<1>4. ASSUME NEW p \in Posts, Lose(p) \/ ServerDies(p)
      PROVE  Taken'
  <2>1. /\ UNCHANGED <<res, work, served>>
        /\ \A q \in Posts : server[q] = "answered" => server'[q] = "answered"
    BY <1>4 DEF Lose, ServerDies, TypeOK
  <2> QED
    BY <2>1 DEF Taken
<1>5. ASSUME NEW p \in Posts, Deliver(p)
      PROVE  Taken'
  <2>1. PICK r \in {FreshResult, NoLens} :
          /\ work' = [work EXCEPT ![p] = r]
          /\ server' = [server EXCEPT ![p] =
                          IF r = FreshResult THEN "hunting" ELSE "answered"]
    BY <1>5 DEF Deliver
  <2>2. server[p] # "answered" /\ UNCHANGED <<res, served>>
    BY <1>5 DEF Deliver, Waiting
  <2>3. r \in Result /\ r.recs = NoRecords
    BY StartIsResult
  <2> QED
    BY <2>1, <2>2, <2>3, TakenStays
<1>6. ASSUME NEW p \in Posts, ServerAttempt(p)
      PROVE  Taken'
  <2>1. PICK r \in LocalAttempts(work[p]) :
          /\ work' = [work EXCEPT ![p] = r]
          /\ server' = [server EXCEPT ![p] = IF MayAttempt(r) THEN "hunting" ELSE "answered"]
    BY <1>6 DEF ServerAttempt
  <2>2. server[p] = "hunting" /\ MayAttempt(work[p]) /\ UNCHANGED <<res, served>>
    BY <1>6 DEF ServerAttempt, Waiting
  <2>3. work[p] \in Result
    BY DEF TypeOK
  <2>4. r \in Result /\ (r.recs # NoRecords => (r.status = "ok" <=> r.attempts = 1))
    BY <2>2, <2>3, AttemptMade
  <2> QED
    BY <2>1, <2>2, <2>4, TakenStays
<1>7. CASE UNCHANGED remoteVars
  BY <1>7 DEF remoteVars, Taken
<1> QED
  BY <1>1, <1>2, <1>3, <1>4, <1>5, <1>6, <1>7 DEF Next, Client, Handler, Network

LEMMA TakenInit == Init => Taken
BY StartIsResult DEF Init, Taken, Posts

\* What a lane returns is what its last post found, and no two answers are merged.
THEOREM LaneIsOneAnswer == Spec => []OneAnswerOnly
<1>1. TypeOK /\ Waiting /\ Taken /\ [Next]_remoteVars => Taken'
  BY TakenStep
<1>2. Taken => OneAnswerOnly
  BY DEF Taken, OneAnswerOnly
<1> QED
  BY <1>1, <1>2, TakenInit, RemoteTypeCorrect, PTL DEF Spec

\* A lane is marked ok only when neither side needed a second attempt.
THEOREM RetriesAreShown == Spec => []RetriesShow
<1>1. TypeOK /\ Waiting /\ Taken /\ [Next]_remoteVars => Taken'
  BY TakenStep
<1>2. Taken => RetriesShow
  BY DEF Taken, RetriesShow
<1> QED
  BY <1>1, <1>2, TakenInit, RemoteTypeCorrect, PTL DEF Spec
=============================================================================
