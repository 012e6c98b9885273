----------------------------- MODULE RemoteHunt -----------------------------
(***************************************************************************)
(* One lane hunted over A2A: the client loop (a2a_client.py,               *)
(* RemoteHuntAgent.run), the /tasks/hunt endpoint of the worker            *)
(* (a2a_server.py), and the HuntAgent the endpoint runs for each request   *)
(* it gets.  Client and server each keep a retry of their own and neither  *)
(* knows of the other's: the client gives up on a post after timeout_s +   *)
(* 30 seconds, while the server may legitimately work for 2 * timeout_s,   *)
(* and a request whose client has gone is worked on to its end.            *)
(***************************************************************************)
EXTENDS Workers, Integers, FiniteSets

Posts == 1..MaxAttempts

VARIABLES
  client,       \* "ready" to post, "waiting" for an answer, "returned", "raised"
  res,          \* the AgentResult the client builds
  wire,         \* per post: "unsent", "sent", "lost" or "delivered"
  server,       \* per post: the handler, "idle", "hunting", "answered", "gone"
  work,         \* per post: the AgentResult of the server's own HuntAgent
  served        \* the post whose answer the client took last, 0 for none

remoteVars == <<client, res, wire, server, work, served>>

Init ==
  /\ client = "ready" /\ res = FreshResult /\ served = 0
  /\ wire   = [p \in Posts |-> "unsent"]
  /\ server = [p \in Posts |-> "idle"]
  /\ work   = [p \in Posts |-> FreshResult]

\* The post the client is at.
Current == res.attempts + 1

-----------------------------------------------------------------------------
(* The client *)

\* result.attempts = attempt; client.post(...)
Post ==
  /\ client = "ready" /\ client' = "waiting"
  /\ wire' = [wire EXCEPT ![Current] = "sent"]
  /\ UNCHANGED <<res, server, work, served>>

\* The loop's end: round again while nothing was found and an attempt is left.
Conclude(r) ==
  /\ res' = r
  /\ client' = IF MayAttempt(r) THEN "ready" ELSE "returned"

\* Slip: an answer to any earlier post is taken for an answer to this one.
TakesAnswer(p) == server[p] = "answered"

\* The connection of this post, and of no other, carries the answer.
Answers(p) == p = Current /\ server[p] = "answered"

\* 200 with a HuntResponse: the records that validated, and the status.
Answer(p) ==
  /\ client = "waiting" /\ Answers(p)
  /\ Conclude(Answered(res, Screened(work[p].recs), work[p].status))
  /\ served' = p
  /\ UNCHANGED <<wire, server, work>>

\* Slip: no timeout on the post.
NeverGivesUp == FALSE /\ UNCHANGED remoteVars

\* httpx gives up, or the connection fails: the answer, if it ever comes, has
\* nobody to come to.
GiveUp ==
  /\ client = "waiting"
  /\ Conclude(PostFailed(res))
  /\ UNCHANGED <<wire, server, work, served>>

\* A body that is not JSON: the exception leaves run.
Raise ==
  /\ client = "waiting" /\ client' = "raised"
  /\ UNCHANGED <<res, wire, server, work, served>>

-----------------------------------------------------------------------------
(* The network and the server *)

Lose(p) ==
  /\ wire[p] = "sent" /\ wire' = [wire EXCEPT ![p] = "lost"]
  /\ UNCHANGED <<client, res, server, work, served>>

\* The endpoint starts a HuntAgent; without a lens on its side that is over at
\* once.
Deliver(p) ==
  /\ wire[p] = "sent" /\ wire' = [wire EXCEPT ![p] = "delivered"]
  /\ \E r \in {FreshResult, NoLens} :
       /\ work' = [work EXCEPT ![p] = r]
       /\ server' = [server EXCEPT ![p] =
                       IF r = FreshResult THEN "hunting" ELSE "answered"]
  /\ UNCHANGED <<client, res, served>>

\* One attempt of the server's HuntAgent ends.
ServerAttempt(p) ==
  /\ server[p] = "hunting"
  /\ \E r \in LocalAttempts(work[p]) :
       /\ work' = [work EXCEPT ![p] = r]
       /\ server' = [server EXCEPT ![p] =
                       IF MayAttempt(r) THEN "hunting" ELSE "answered"]
  /\ UNCHANGED <<client, res, wire, served>>

\* The container is stopped under the handler.
ServerDies(p) ==
  /\ server[p] = "hunting" /\ server' = [server EXCEPT ![p] = "gone"]
  /\ UNCHANGED <<client, res, wire, work, served>>

Client == Post \/ (\E p \in Posts : Answer(p)) \/ GiveUp \/ Raise
Handler(p) == ServerAttempt(p) \/ ServerDies(p)
Network(p) == Lose(p) \/ Deliver(p)

Next == Client \/ \E p \in Posts : Handler(p) \/ Network(p)

Spec == Init /\ [][Next]_remoteVars

\* Both sides have timeouts on every wait, so both keep moving.  Nothing makes
\* the client raise, or the network deliver.
Prompt == Post \/ (\E p \in Posts : Answer(p)) \/ GiveUp

FairSpec ==
  Spec /\ WF_remoteVars(Prompt) /\ \A p \in Posts : WF_remoteVars(Handler(p))

-----------------------------------------------------------------------------
(* Properties *)

TypeOK ==
  /\ client \in {"ready", "waiting", "returned", "raised"}
  /\ res \in Result /\ served \in {0} \cup Posts
  /\ wire \in [Posts -> {"unsent", "sent", "lost", "delivered"}]
  /\ server \in [Posts -> {"idle", "hunting", "answered", "gone"}]
  /\ work \in [Posts -> Result]

\* What a lane returns is what one request found, the last one posted: records
\* of a request the client had given up on reach nobody, and no two answers are
\* ever merged.
OneAnswerOnly ==
  client = "returned" /\ res.recs # NoRecords =>
    /\ served = res.attempts
    /\ res.recs = Screened(work[served].recs)

\* A lane marked ok cost one attempt everywhere; whenever the answer it rests on
\* took a retry, of the client or of the server, it is marked retried-ok.
RetriesShow ==
  client = "returned" /\ res.recs # NoRecords =>
    (res.status = "ok" <=> res.attempts = 1 /\ work[1].attempts = 1)

\* The lane ends, and so does every request it left behind.
EverythingStops ==
  /\ <>(client \in {"returned", "raised"})
  /\ <>[](\A p \in Posts : server[p] # "hunting")

-----------------------------------------------------------------------------
(* What the documentation says and the code does not keep *)

\* "A rejected record is written to quarantine, never dropped" (ledger.py:46):
\* what the orchestrator is handed to append is all that the worker emitted.
RejectsReachTheOrchestrator ==
  client = "returned" /\ served = res.attempts /\ served # 0 =>
    res.recs = work[served].recs
=============================================================================
