------------------------------ MODULE Campaign ------------------------------
(***************************************************************************)
(* One BulkMail campaign on its way from POST /api/send to the provider:   *)
(* the request handlers that persist and enqueue it, its jobs row and its  *)
(* email_logs rows in PostgreSQL, the Bull jobs in Redis, the worker runs  *)
(* that send the mail, and the status endpoints that poll it.              *)
(*                                                                         *)
(* A recipient stands for the unique hash of (campaign, recipient,         *)
(* subject, sender): it is the key of the email_logs row and the id of the *)
(* Bull job.  Every access to PostgreSQL, Redis or Mailgrid that the code  *)
(* awaits separately is a step of its own.                                 *)
(***************************************************************************)
EXTENDS Naturals, FiniteSets

CONSTANTS
  Recipient,    \* the valid, deduplicated addresses a client may post
  Payload,      \* what a campaign sends: subject, body, sender, variables
  Request,      \* the send requests the API may be handling at once
  Worker,       \* the concurrent runs of the Bull processor
  None,         \* no worker, no recipient, no payload
  Lists,        \* the recipient lists clients post
  Outcomes,     \* what the provider may do: "accept" "reject" "unreadable"
                \* "throw" "lost"
  Faults,       \* what may fail: "api" "db" "crash" "lock"
  MaxAttempts,  \* attempts of a Bull job (MAX_RETRY_ATTEMPTS, 3 in the code)
  MaxStalled,   \* Bull's maxStalledCount (1 by default)
  ChunkSize     \* BULL_BULK_CHUNK_SIZE, 500 in the code

ASSUME SetsAssumption ==
  /\ IsFiniteSet(Recipient) /\ IsFiniteSet(Worker)
  /\ Lists \subseteq SUBSET Recipient
  /\ None \notin Recipient \cup Worker \cup Payload

ASSUME BoundsAssumption ==
  /\ MaxAttempts \in Nat \ {0}
  /\ MaxStalled \in Nat
  /\ ChunkSize \in Nat \ {0}

VARIABLES
  \* PostgreSQL
  job,          \* the jobs row of the campaign
  log,          \* status of the email_logs row of each recipient
  \* Redis, one Bull job per recipient
  bull,         \* where the Bull job is
  data,         \* the payload the Bull job carries
  returned,     \* its return value, once completed
  attemptsMade, \* attempts Bull has charged to it
  stalled,      \* times it was found active without a lock
  lock,         \* the run that holds its lock
  \* the send handlers of the API
  rpc,          \* where the request is
  rlist,        \* the recipients it names
  rpayload,     \* the payload it carries
  toSend,       \* recipients still to be looked up in the queue
  missing,      \* recipients of the current chunk found to have no Bull job
  blocked,      \* it met a terminal or uncertain Bull job
  \* the worker runs
  wpc, wjob, wok,
  \* a status poll that decided to write "completed"
  poll,
  \* history
  promised,     \* recipients some 202 answer covers
  accepted,     \* times the provider accepted mail for the recipient
  doubt         \* runs whose outcome the system could not learn

dbVars      == <<job, log>>
bullVars    == <<bull, data, returned, attemptsMade, stalled, lock>>
requestVars == <<rpc, rlist, rpayload, toSend, missing, blocked>>
workerVars  == <<wpc, wjob, wok>>
history     == <<promised, accepted, doubt>>
vars == <<dbVars, bullVars, requestVars, workerVars, poll, history>>

-----------------------------------------------------------------------------

LogStatus  == {"absent", "pending", "processing", "sent", "failed"}
JobStatus  == {"none", "pending", "processing", "completed"}
BullState  == {"absent", "waiting", "delayed", "active", "completed", "failed"}
RequestPC  == {"idle", "persist", "lookup", "add", "status"}
WorkerPC   == {"idle", "check", "mark", "send", "record", "count", "ack", "nack"}

NoJob == [status |-> "none", payload |-> None, valid |-> 0,
          completed |-> 0, failed |-> 0]

JobRow == [status: JobStatus, payload: Payload \cup {None}, valid: Nat,
           completed: Nat, failed: Nat]

TypeOK ==
  /\ job \in JobRow
  /\ log \in [Recipient -> LogStatus]
  /\ bull \in [Recipient -> BullState]
  /\ data \in [Recipient -> Payload \cup {None}]
  /\ returned \in [Recipient -> {"none", "success", "failure"}]
  /\ attemptsMade \in [Recipient -> 0 .. MaxAttempts]
  /\ stalled \in [Recipient -> 0 .. MaxStalled + 1]
  /\ lock \in [Recipient -> Worker \cup {None}]
  /\ rpc \in [Request -> RequestPC]
  /\ rlist \in [Request -> SUBSET Recipient]
  /\ rpayload \in [Request -> Payload \cup {None}]
  /\ toSend \in [Request -> SUBSET Recipient]
  /\ missing \in [Request -> SUBSET Recipient]
  /\ blocked \in [Request -> BOOLEAN]
  /\ wpc \in [Worker -> WorkerPC]
  /\ wjob \in [Worker -> Recipient \cup {None}]
  /\ wok \in [Worker -> BOOLEAN]
  /\ poll \in BOOLEAN
  /\ promised \subseteq Recipient
  /\ accepted \in [Recipient -> Nat]
  /\ doubt \in [Recipient -> Nat]

Init ==
  /\ job = NoJob
  /\ log = [r \in Recipient |-> "absent"]
  /\ bull = [r \in Recipient |-> "absent"]
  /\ data = [r \in Recipient |-> None]
  /\ returned = [r \in Recipient |-> "none"]
  /\ attemptsMade = [r \in Recipient |-> 0]
  /\ stalled = [r \in Recipient |-> 0]
  /\ lock = [r \in Recipient |-> None]
  /\ rpc = [q \in Request |-> "idle"]
  /\ rlist = [q \in Request |-> {}]
  /\ rpayload = [q \in Request |-> None]
  /\ toSend = [q \in Request |-> {}]
  /\ missing = [q \in Request |-> {}]
  /\ blocked = [q \in Request |-> FALSE]
  /\ wpc = [w \in Worker |-> "idle"]
  /\ wjob = [w \in Worker |-> None]
  /\ wok = [w \in Worker |-> FALSE]
  /\ poll = FALSE
  /\ promised = {}
  /\ accepted = [r \in Recipient |-> 0]
  /\ doubt = [r \in Recipient |-> 0]

-----------------------------------------------------------------------------
(***************************************************************************)
(* The status of a log row.  "sent" stands for the four statuses of        *)
(* wasEmailSent: webhooks and imports only move a row between them.        *)
(***************************************************************************)
Mut_ProcessingIsSent(status) == status \in {"sent", "processing"}
Mut_SentIsForgotten(status) == FALSE
WasEmailSent(status) == status = "sent"
NeedsManualRetry(status) == status = "failed"

\* jobStatusService: what counts as the end of an email, and when the
\* campaign is over.
Terminal == {r \in Recipient : log[r] \in {"sent", "failed"}}
Mut_StartedIsTerminal ==
  job.valid > 0 /\ Cardinality({r \in Recipient : log[r] \notin {"absent", "pending"}}) >= job.valid
Mut_StrictlyMore == job.valid > 0 /\ Cardinality(Terminal) > job.valid
IsComplete == job.valid > 0 /\ Cardinality(Terminal) >= job.valid

Finished == {"completed", "failed"}
InQueue  == {"waiting", "delayed", "active"}

-----------------------------------------------------------------------------
(***************************************************************************)
(* POST /api/send.                                                         *)
(***************************************************************************)

\* The handler forgets its request: it answered, or it was aborted.
Answered(q) ==
  /\ rpc' = [rpc EXCEPT ![q] = "idle"]
  /\ rlist' = [rlist EXCEPT ![q] = {}]
  /\ rpayload' = [rpayload EXCEPT ![q] = None]
  /\ toSend' = [toSend EXCEPT ![q] = {}]
  /\ missing' = [missing EXCEPT ![q] = {}]
  /\ blocked' = [blocked EXCEPT ![q] = FALSE]

\* 202: every recipient of the request is promised to the client.
AnswerAccepted(q) == Answered(q) /\ promised' = promised \cup rlist[q]

\* A valid request arrives and reads the log status of its recipients,
\* outside any transaction.  A failed recipient ends it with 409, unchanged.
Post(q, list, p) ==
  /\ rpc[q] = "idle"
  /\ list # {}
  /\ \A r \in list : ~NeedsManualRetry(log[r])
  /\ rpc' = [rpc EXCEPT ![q] = "persist"]
  /\ rlist' = [rlist EXCEPT ![q] = list]
  /\ rpayload' = [rpayload EXCEPT ![q] = p]
  /\ toSend' = [toSend EXCEPT ![q] = {r \in list : ~WasEmailSent(log[r])}]
  /\ UNCHANGED <<dbVars, bullVars, missing, blocked, workerVars, poll, history>>

\* jobRepo.create: the existing row, or a new one.
CreateJob(p, count) ==
  IF job.status # "none" THEN job
  ELSE [status |-> "pending", payload |-> p, valid |-> count,
        completed |-> 0, failed |-> 0]

\* campaignPayloadMatches.
Mut_AnyPayload(row, p) == TRUE
CampaignPayloadMatches(row, p) == row.payload = p

\* createBatch: ON CONFLICT (unique_hash) DO NOTHING.
Mut_Upsert(rs) == [r \in Recipient |-> IF r \in rs THEN "pending" ELSE log[r]]
CreateBatch(rs) ==
  [r \in Recipient |-> IF r \in rs /\ log[r] = "absent" THEN "pending" ELSE log[r]]

\* The transaction that persists the row and its logs, or rolls both back
\* when the campaign exists with another payload (409).
Persist(q) ==
  /\ rpc[q] = "persist"
  /\ LET row == CreateJob(rpayload[q], Cardinality(toSend[q])) IN
       \/ /\ CampaignPayloadMatches(row, rpayload[q])
          /\ job' = row
          /\ log' = CreateBatch(toSend[q])
          /\ \/ /\ toSend[q] # {}
                /\ rpc' = [rpc EXCEPT ![q] = "lookup"]
                /\ UNCHANGED <<rlist, rpayload, toSend, missing, blocked, promised>>
             \/ /\ toSend[q] = {}
                /\ AnswerAccepted(q)
       \/ /\ ~CampaignPayloadMatches(row, rpayload[q])
          /\ Answered(q)
          /\ UNCHANGED <<dbVars, promised>>
  /\ UNCHANGED <<bullVars, workerVars, poll, accepted, doubt>>

\* enqueueEmailJobs, first half of a chunk: getJob and getState of each of
\* its jobs.  getState may miss a job that moves between two lists, and then
\* reports it as uncertain.
LookupChunk(q) ==
  /\ rpc[q] = "lookup"
  /\ \E chunk \in SUBSET toSend[q], unsure \in BOOLEAN :
       /\ chunk # {}
       /\ Cardinality(chunk) <= ChunkSize
       /\ Cardinality(chunk) = ChunkSize \/ chunk = toSend[q]
       /\ unsure => \E r \in chunk : bull[r] \in InQueue
       /\ missing' = [missing EXCEPT ![q] = {r \in chunk : bull[r] = "absent"}]
       /\ toSend' = [toSend EXCEPT ![q] = @ \ chunk]
       /\ blocked' = [blocked EXCEPT
                        ![q] = @ \/ unsure \/ \E r \in chunk : bull[r] \in Finished]
  /\ rpc' = [rpc EXCEPT ![q] = "add"]
  /\ UNCHANGED <<dbVars, bullVars, rlist, rpayload, workerVars, poll, history>>

\* queue.addBulk: Bull ignores a job whose id it already holds.
BullAdd(rs, p) ==
  LET fresh == {r \in rs : bull[r] = "absent"} IN
  /\ bull' = [r \in Recipient |-> IF r \in fresh THEN "waiting" ELSE bull[r]]
  /\ data' = [r \in Recipient |-> IF r \in fresh THEN p ELSE data[r]]

\* The loop over the chunks.
Mut_FirstChunkOnly(q) == "status"
AfterChunk(q) == IF toSend[q] # {} THEN "lookup" ELSE "status"

\* Second half of the chunk, then the next chunk or the end of the loop,
\* where a terminal or uncertain job turns the answer into 409.
AddBulk(q) ==
  /\ rpc[q] = "add"
  /\ BullAdd(missing[q], rpayload[q])
  /\ \/ /\ toSend[q] = {} /\ blocked[q]
        /\ Answered(q)
     \/ /\ toSend[q] # {} \/ ~blocked[q]
        /\ rpc' = [rpc EXCEPT ![q] = AfterChunk(q)]
        /\ missing' = [missing EXCEPT ![q] = {}]
        /\ UNCHANGED <<rlist, rpayload, toSend, blocked>>
  /\ UNCHANGED <<dbVars, returned, attemptsMade, stalled, lock, workerVars, poll, history>>

\* updateStatus(job.id, "processing"), whatever the row says by now, and 202.
StartProcessing(q) ==
  /\ rpc[q] = "status"
  /\ job' = [job EXCEPT !.status = "processing"]
  /\ AnswerAccepted(q)
  /\ UNCHANGED <<log, bullVars, workerVars, poll, accepted, doubt>>

\* PostgreSQL or Redis refuses the pending call (503, 500, a lost race on the
\* unique campaign_id), or the API process dies.
AbortRequest(q) ==
  /\ "api" \in Faults
  /\ rpc[q] # "idle"
  /\ Answered(q)
  /\ UNCHANGED <<dbVars, bullVars, workerVars, poll, history>>

-----------------------------------------------------------------------------
(***************************************************************************)
(* The worker: Bull hands a job to a run of processEmailJob.               *)
(***************************************************************************)
Run(w) == wjob[w]
Goto(w, pc) == wpc' = [wpc EXCEPT ![w] = pc]

\* The run is over.
Release(w) ==
  /\ Goto(w, "idle")
  /\ wjob' = [wjob EXCEPT ![w] = None]
  /\ wok' = [wok EXCEPT ![w] = FALSE]

Take(w, r) ==
  /\ wpc[w] = "idle"
  /\ bull[r] = "waiting"
  /\ bull' = [bull EXCEPT ![r] = "active"]
  /\ lock' = [lock EXCEPT ![r] = w]
  /\ Goto(w, "check")
  /\ wjob' = [wjob EXCEPT ![w] = r]
  /\ UNCHANGED <<dbVars, data, returned, attemptsMade, stalled, requestVars, wok, poll, history>>

Mut_MissingReturn(w) ==
  /\ wpc[w] = "check"
  /\ Goto(w, IF WasEmailSent(log[Run(w)]) \/ log[Run(w)] = "absent" THEN "send" ELSE "mark")
  /\ UNCHANGED <<dbVars, bullVars, requestVars, wjob, wok, poll, history>>

\* findByUniqueHash: a mail already sent is skipped and reported as success.
CheckIdempotency(w) ==
  /\ wpc[w] = "check"
  /\ IF WasEmailSent(log[Run(w)])
       THEN /\ Goto(w, "ack")
            /\ wok' = [wok EXCEPT ![w] = TRUE]
       ELSE /\ Goto(w, IF log[Run(w)] = "absent" THEN "send" ELSE "mark")
            /\ UNCHANGED wok
  /\ UNCHANGED <<dbVars, bullVars, requestVars, wjob, poll, history>>

\* update(existing.id, processing): by id, whatever the status is by now.
MarkProcessing(w) ==
  /\ wpc[w] = "mark"
  /\ log' = [log EXCEPT ![Run(w)] = "processing"]
  /\ Goto(w, "send")
  /\ UNCHANGED <<job, bullVars, requestVars, wjob, wok, poll, history>>

\* Mailgrid accepted the mail and the worker got its message id.
SendAccepted(w) ==
  /\ wpc[w] = "send"
  /\ "accept" \in Outcomes
  /\ accepted' = [accepted EXCEPT ![Run(w)] = @ + 1]
  /\ wok' = [wok EXCEPT ![w] = TRUE]
  /\ Goto(w, "record")
  /\ UNCHANGED <<dbVars, bullVars, requestVars, wjob, poll, promised, doubt>>

\* A permanent error, or a job without its required fields.
SendRejected(w) ==
  /\ wpc[w] = "send"
  /\ "reject" \in Outcomes
  /\ Goto(w, "record")
  /\ UNCHANGED <<dbVars, bullVars, requestVars, wjob, wok, poll, history>>

\* Mailgrid accepted the mail, but its answer has no message id, or is no JSON
\* and no 5xx: to the worker a permanent error.
SendUnreadable(w) ==
  /\ wpc[w] = "send"
  /\ "unreadable" \in Outcomes
  /\ accepted' = [accepted EXCEPT ![Run(w)] = @ + 1]
  /\ Goto(w, "record")
  /\ UNCHANGED <<dbVars, bullVars, requestVars, wjob, wok, poll, promised, doubt>>

\* The exception leaves processEmailJob before it touches the database again.
Mut_CountEveryAttempt(w) ==
  Goto(w, "nack") /\ job' = [job EXCEPT !.failed = @ + 1] /\ UNCHANGED log
ThrowToBull(w) == Goto(w, "nack") /\ UNCHANGED dbVars

\* A retryable error: sendEmail throws and Bull gets the job back.
SendThrows(w) ==
  /\ wpc[w] = "send"
  /\ "throw" \in Outcomes
  /\ ThrowToBull(w)
  /\ UNCHANGED <<bullVars, requestVars, wjob, wok, poll, history>>

\* The same for the worker (a timeout, a truncated answer), but Mailgrid did
\* accept the mail.
SendLost(w) ==
  /\ wpc[w] = "send"
  /\ "lost" \in Outcomes
  /\ accepted' = [accepted EXCEPT ![Run(w)] = @ + 1]
  /\ doubt' = [doubt EXCEPT ![Run(w)] = @ + 1]
  /\ ThrowToBull(w)
  /\ UNCHANGED <<bullVars, requestVars, wjob, wok, poll, promised>>

\* markAsSent or markAsFailed of an existing row, whatever its status is by now.
RecordResult(w) ==
  /\ wpc[w] = "record"
  /\ IF log[Run(w)] = "absent"
       THEN Goto(w, "ack") /\ UNCHANGED log
       ELSE /\ Goto(w, "count")
            /\ log' = [log EXCEPT ![Run(w)] = IF wok[w] THEN "sent" ELSE "failed"]
  /\ UNCHANGED <<job, bullVars, requestVars, wjob, wok, poll, history>>

\* incrementCompletedCount or incrementFailedCount.
CountResult(w) ==
  /\ wpc[w] = "count"
  /\ job' = IF wok[w] THEN [job EXCEPT !.completed = @ + 1]
                      ELSE [job EXCEPT !.failed = @ + 1]
  /\ Goto(w, "ack")
  /\ UNCHANGED <<log, bullVars, requestVars, wjob, wok, poll, history>>

\* Where a run goes on after a database error, which it logs and swallows:
\* without the idempotency check, or without recording its result.
Mut_RetryUnrecorded(pc) == IF pc \in {"check", "mark"} THEN "send" ELSE "nack"
AfterDatabaseError(pc) == IF pc \in {"check", "mark"} THEN "send" ELSE "ack"

DatabaseError(w) ==
  /\ "db" \in Faults
  /\ wpc[w] \in {"check", "mark", "record", "count"}
  /\ Goto(w, AfterDatabaseError(wpc[w]))
  /\ UNCHANGED <<dbVars, bullVars, requestVars, wjob, wok, poll, history>>

\* Bull compares the token of the lock with the run's before it moves a job.
Mut_NoToken(w) == TRUE
HoldsLock(w) == lock[Run(w)] = w

\* The option removeOnComplete, which buildBullJobs does not set.
Mut_RemoveOnComplete(w) ==
  /\ wpc[w] = "ack"
  /\ bull' = [bull EXCEPT ![Run(w)] = IF HoldsLock(w) THEN "absent" ELSE @]
  /\ lock' = [lock EXCEPT ![Run(w)] = IF @ = w THEN None ELSE @]
  /\ Release(w)
  /\ UNCHANGED <<dbVars, data, returned, attemptsMade, stalled, requestVars, poll, history>>

\* Bull moves the job to completed if the run still holds its lock.
MoveToCompleted(w) ==
  /\ wpc[w] = "ack"
  /\ \/ /\ HoldsLock(w)
        /\ bull' = [bull EXCEPT ![Run(w)] = "completed"]
        /\ returned' = [returned EXCEPT
                          ![Run(w)] = IF wok[w] THEN "success" ELSE "failure"]
        /\ lock' = [lock EXCEPT ![Run(w)] = None]
     \/ /\ ~HoldsLock(w)
        /\ UNCHANGED <<bull, returned, lock>>
  /\ Release(w)
  /\ UNCHANGED <<dbVars, data, attemptsMade, stalled, requestVars, poll, history>>

\* buildBullJobs: attempts with exponential backoff.
Mut_OneAttemptMore(r) == attemptsMade[r] < MaxAttempts
RetryLeft(r) == attemptsMade[r] + 1 < MaxAttempts
Mut_NotCharged(r) == attemptsMade[r]
ChargeAttempt(r) == attemptsMade[r] + 1

\* Bull charges an attempt and retries the job later, or gives it up.  The
\* log row is not told: sendEmail threw past markAsFailed.
MoveToFailed(w) ==
  /\ wpc[w] = "nack"
  /\ \/ /\ HoldsLock(w)
        /\ attemptsMade' = [attemptsMade EXCEPT ![Run(w)] = ChargeAttempt(Run(w))]
        /\ bull' = [bull EXCEPT
                      ![Run(w)] = IF RetryLeft(Run(w)) THEN "delayed" ELSE "failed"]
        /\ lock' = [lock EXCEPT ![Run(w)] = None]
     \/ /\ ~HoldsLock(w)
        /\ UNCHANGED <<bull, attemptsMade, lock>>
  /\ Release(w)
  /\ UNCHANGED <<dbVars, data, returned, stalled, requestVars, poll, history>>

\* The backoff delay is over.
Promote(r) ==
  /\ bull[r] = "delayed"
  /\ bull' = [bull EXCEPT ![r] = "waiting"]
  /\ UNCHANGED <<dbVars, data, returned, attemptsMade, stalled, lock,
                 requestVars, workerVars, poll, history>>

\* The worker dies in the middle of a run; the lock it held expires.
CrashRun(w) ==
  /\ "crash" \in Faults
  /\ wpc[w] # "idle"
  /\ lock' = [r \in Recipient |-> IF lock[r] = w THEN None ELSE lock[r]]
  /\ Release(w)
  /\ UNCHANGED <<dbVars, bull, data, returned, attemptsMade, stalled, requestVars, poll, history>>

\* The lock expires under a run that goes on (a blocked event loop, a Redis
\* connection lost for longer than lockDuration).
LoseLock(w) ==
  /\ "lock" \in Faults
  /\ wpc[w] # "idle"
  /\ HoldsLock(w)
  /\ lock' = [lock EXCEPT ![Run(w)] = None]
  /\ UNCHANGED <<dbVars, bull, data, returned, attemptsMade, stalled,
                 requestVars, workerVars, poll, history>>

\* Bull finds an active job without a lock: it goes back to the queue, or
\* fails when it has stalled too often.
RequeueStalled(r) ==
  /\ bull[r] = "active"
  /\ lock[r] = None
  /\ stalled' = [stalled EXCEPT ![r] = @ + 1]
  /\ \/ /\ stalled[r] < MaxStalled
        /\ bull' = [bull EXCEPT ![r] = "waiting"]
        /\ doubt' = [doubt EXCEPT ![r] = @ + 1]
     \/ /\ stalled[r] >= MaxStalled
        /\ bull' = [bull EXCEPT ![r] = "failed"]
        /\ UNCHANGED doubt
  /\ UNCHANGED <<dbVars, data, returned, attemptsMade, lock, requestVars,
                 workerVars, poll, promised, accepted>>

-----------------------------------------------------------------------------
(***************************************************************************)
(* GET /api/status/:id and GET /api/jobs: a poll that finds every email    *)
(* terminal writes "completed" in a later statement.                       *)
(***************************************************************************)
PollRead ==
  /\ ~poll
  /\ job.status \in {"pending", "processing"}
  /\ IsComplete
  /\ poll' = TRUE
  /\ UNCHANGED <<dbVars, bullVars, requestVars, workerVars, history>>

PollSync ==
  /\ poll
  /\ poll' = FALSE
  /\ job' = [job EXCEPT !.status = "completed"]
  /\ UNCHANGED <<log, bullVars, requestVars, workerVars, history>>

-----------------------------------------------------------------------------

Handle(q) == Persist(q) \/ LookupChunk(q) \/ AddBulk(q) \/ StartProcessing(q)

WorkerStep(w) ==
  \/ CheckIdempotency(w) \/ MarkProcessing(w)
  \/ SendAccepted(w) \/ SendRejected(w) \/ SendUnreadable(w)
  \/ SendThrows(w) \/ SendLost(w)
  \/ RecordResult(w) \/ CountResult(w)
  \/ MoveToCompleted(w) \/ MoveToFailed(w)

Next ==
  \/ \E q \in Request :
       \/ \E list \in Lists, p \in Payload : Post(q, list, p)
       \/ Handle(q)
       \/ AbortRequest(q)
  \/ \E w \in Worker :
       \/ \E r \in Recipient : Take(w, r)
       \/ WorkerStep(w)
       \/ DatabaseError(w) \/ CrashRun(w) \/ LoseLock(w)
  \/ \E r \in Recipient : Promote(r) \/ RequeueStalled(r)
  \/ PollRead \/ PollSync

Spec == Init /\ [][Next]_vars
-----------------------------------------------------------------------------
(***************************************************************************)
(* Fairness: a running worker process goes on with the job it holds and    *)
(* takes the next one, Bull promotes delayed jobs and looks for stalled    *)
(* ones, and somebody looks at the dashboard.  Nothing is assumed of the   *)
(* clients, of the provider's answers or of failures.                      *)
(***************************************************************************)
SystemFairness ==
  /\ \A w \in Worker : WF_vars(WorkerStep(w))
  /\ \A r \in Recipient : WF_vars(\E w \in Worker : Take(w, r))
  /\ \A r \in Recipient : WF_vars(Promote(r)) /\ WF_vars(RequeueStalled(r))
  /\ WF_vars(PollRead) /\ WF_vars(PollSync)

FairSpec == Spec /\ SystemFairness

\* A client that repeats its request for as long as it can be posted, and an
\* API whose databases answer again and again.
RetryFairness ==
  \A q \in Request :
    /\ \A list \in Lists, p \in Payload : SF_vars(Post(q, list, p))
    /\ SF_vars(Persist(q)) /\ SF_vars(LookupChunk(q))
    /\ SF_vars(AddBulk(q)) /\ SF_vars(StartProcessing(q))

RetrySpec == FairSpec /\ RetryFairness

-----------------------------------------------------------------------------
(***************************************************************************)
(* Safety.                                                                 *)
(***************************************************************************)

\* sendController persists before it touches Redis: a Bull job exists only
\* for a persisted recipient of a persisted campaign, and carries the payload
\* of the jobs row, whichever of several racing requests enqueued it.
QueuedIsPersisted ==
  \A r \in Recipient :
    bull[r] # "absent" => /\ log[r] # "absent"
                          /\ job.status # "none"
                          /\ data[r] = job.payload

\* A 202 is never given while one of the recipients it covers has no Bull
\* job, however the chunks and the other requests interleave.
AcceptedIsQueued == \A r \in promised : bull[r] # "absent"

\* The provider gets a mail a second time only after a run whose outcome the
\* system could not learn: repeated requests, retries and concurrent workers
\* alone never duplicate it.
AtMostOnceButDoubt == \A r \in Recipient : accepted[r] <= 1 + doubt[r]

\* The idempotency check of the processor: when runs only die, a mail whose
\* log already says "sent" never reaches the provider again.
NoResendAfterSent ==
  [][\A r \in Recipient : accepted'[r] # accepted[r] => log[r] # "sent"]_vars

\* The unconditional writes of the processor (update, markAsFailed) never
\* take a "sent" row back as long as no two runs hold the same job.
SentIsFinal ==
  [][\A r \in Recipient : log[r] = "sent" => log'[r] = "sent"]_vars

\* When a Bull job completes, its return value is what the log row says: the
\* agreement that reconcileEmailJobs requires of every terminal job.
QueueAndLogAgree ==
  \A r \in Recipient :
    bull[r] = "completed" =>
      log[r] = IF returned[r] = "success" THEN "sent" ELSE "failed"

\* Neither the send endpoint nor a late worker revives a Bull job that is
\* completed or failed: only the operator's retry does.
TerminalBullFinal ==
  [][\A r \in Recipient :
       bull[r] \in Finished => bull'[r] = bull[r] /\ returned'[r] = returned[r]]_vars

\* What is reported of a recipient: where its Bull job is, and what it returned.
ReportOf(where, result) ==
  CASE where = "absent" -> "none"
    [] where \in InQueue -> "open"
    [] where = "completed" -> result
    [] where = "failed" -> "givenUp"
Outcome == [r \in Recipient |-> ReportOf(bull[r], returned[r])]

\* Requests, Bull and the runs of the processor keep what MailPromise says a
\* campaign promises: a 202 stands for queued recipients, nobody is mailed twice
\* but after an unknown outcome, and a job that returns success mailed its
\* recipient and one that returns failure did not.
Contract == INSTANCE MailPromise
              WITH outcome <- Outcome, mails <- accepted, unknown <- doubt,
                   Readable <- "unreadable" \notin Outcomes
PromiseKept == Contract!Spec

\* The counters of the jobs row count a recipient at most once, and once more
\* for each time its Bull job stalled and was run again.
CountersBounded ==
  job.completed + job.failed
    <= Cardinality({r \in Recipient : log[r] # "absent"})
       + Cardinality({s \in Recipient \X (1 .. MaxStalled + 1) : s[2] <= stalled[s[1]]})

\* A stale poll never leaves "completed" on a campaign that has not reached
\* its number of valid recipients.
CompletedIsTruthful ==
  job.status = "completed" => Cardinality(Terminal) >= job.valid

\* What stands behind JobsSettle, in every state and whatever fails.  A job that Bull
\* believes active is held by a run that is at work on it, or has no lock, so that the
\* check for stalled jobs finds it.
NeverStranded ==
  \A r \in Recipient :
    bull[r] = "active" => \/ lock[r] = None
                          \/ wpc[lock[r]] # "idle" /\ wjob[lock[r]] = r

\* The moves Bull has left for a job, three for each attempt and for each stall it may
\* still charge, and the steps a run has left.
Moves(r) ==
  3 * ((MaxAttempts - attemptsMade[r]) + (MaxStalled + 1 - stalled[r]))
    + (CASE bull[r] = "delayed" -> 3 [] bull[r] = "waiting" -> 2
         [] bull[r] = "active" -> 1 [] OTHER -> 0)
StepsOf == [check |-> 6, mark |-> 5, send |-> 4, record |-> 3, count |-> 2,
            ack |-> 1, nack |-> 1, idle |-> 0]

\* And no retry, requeue or fault gives anything of that back: Bull moves a job only
\* against its attempts and stalls, and a run only goes on or ends.  So a job that is
\* never settled would have to wait for ever for one of these moves.
WorkRunsOut ==
  [][/\ \A r \in Recipient :
          bull[r] # "absent" => \/ bull'[r] = bull[r] /\ Moves(r)' = Moves(r)
                                \/ Moves(r)' \in 0 .. Moves(r) - 1
     /\ \A w \in Worker :
          wpc[w] # "idle" => wpc'[w] = wpc[w] \/ StepsOf[wpc'[w]] < StepsOf[wpc[w]]]_vars

\* Story 1.4, acceptance criterion 2: a completed campaign has every email in
\* a terminal state.
CompletedCoversEveryLog ==
  job.status = "completed" =>
    \A r \in Recipient : log[r] # "absent" => r \in Terminal

-----------------------------------------------------------------------------
(***************************************************************************)
(* Liveness.                                                               *)
(***************************************************************************)

\* Every queued job reaches the end of its Bull life, through retries,
\* crashes and lost locks.
JobsSettle ==
  \A r \in Recipient : bull[r] = "waiting" ~> bull[r] \in Finished

\* Once as many emails as the campaign counts have ended for good and the queue
\* is at rest, its row says so, and no late "processing" of a request undoes it.
CompletionSynced ==
  <>[](/\ job.valid > 0 /\ Cardinality({r \in Recipient : log[r] \in {"sent", "failed"}}) >= job.valid
       /\ \A r \in Recipient : bull[r] \in Finished)
    => <>[](job.status = "completed")

\* docs/stories/3.3/plan/self-critique-3.3.json: deterministic job ids make an
\* interrupted addBulk safe to retry.  A client that repeats the request gets
\* every persisted recipient into the queue.  TLC refutes this of RetrySpec, see
\* "Findings" in README.md.
RetryRecovers ==
  \A r \in Recipient : log[r] = "pending" ~> bull[r] # "absent"
=============================================================================
