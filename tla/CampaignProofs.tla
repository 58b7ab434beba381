--------------------------- MODULE CampaignProofs ---------------------------
(***************************************************************************)
(* Safety of Campaign for every set of recipients, requests and runs, and  *)
(* every combination of provider outcomes and faults.                      *)
(*                                                                         *)
(* None of the invariants is inductive alone. IInv adds what the queue,    *)
(* the requests and the runs know of each other, and the budget of mails   *)
(* each recipient has left. The step lemmas ask only for Types, which      *)
(* leaves Bull's limits out: an operator who repairs a campaign takes jobs *)
(* past them.                                                              *)
(*                                                                         *)
(* The last three sections prove what holds as long as a Bull job has one  *)
(* run at a time, that the work of the queue runs out, and that the        *)
(* campaign implements MailPromise.                                        *)
(***************************************************************************)
EXTENDS Campaign, FiniteSetTheorems, TLAPS

-----------------------------------------------------------------------------

\* Bull: an attempt or a stall is left as long as a job is in the queue, and
\* only an active job is locked.
LimitInv ==
  \A r \in Recipient :
    bull[r] \in {"absent"} \cup InQueue =>
      attemptsMade[r] < MaxAttempts /\ stalled[r] <= MaxStalled
LockInv == \A r \in Recipient : lock[r] # None => bull[r] = "active"
QueueInv == LimitInv /\ LockInv

\* Runs: a run works on a job that Bull has.
RunInv ==
  \A w \in Worker :
    wpc[w] # "idle" => wjob[w] \in Recipient /\ bull[wjob[w]] # "absent"

\* Log: only a run moves a row past "pending".
LogInv ==
  \A r \in Recipient :
    log[r] \in {"processing", "sent", "failed"} => bull[r] # "absent"

\* Requests: what a handler that has persisted may rely on, and which of its
\* recipients it still owes to the queue, which needs nothing of the rows.
PersistedInv ==
  \A q \in Request :
    /\ rpc[q] \in {"lookup", "add", "status"} =>
         /\ job.status # "none"
         /\ job.payload = rpayload[q]
         /\ \A r \in toSend[q] \cup missing[q] : log[r] # "absent"
    /\ rpc[q] # "add" => missing[q] = {}
OwedInv ==
  \A q \in Request :
    /\ \A r \in rlist[q] : bull[r] # "absent" \/ r \in toSend[q] \cup missing[q]
    /\ rpc[q] = "status" => toSend[q] = {}
    /\ rpc[q] # "add" => missing[q] = {}
RequestInv == PersistedInv /\ OwedInv

\* Runs that may still give a mail to the provider, or give the job back.
Pending(r) == {w \in Worker : wjob[w] = r /\ wpc[w] \in {"check", "mark", "send", "nack"}}

\* The mails given, the runs that may give another and the run the queue will
\* start never exceed one per run whose outcome is unknown, plus one.
Waiting(r) == IF bull[r] \in {"waiting", "delayed"} THEN 1 ELSE 0
Starts(r) == IF bull[r] \in {"waiting", "delayed", "absent"} THEN 1 ELSE 0
BudgetInv ==
  \A r \in Recipient :
    accepted[r] + Cardinality(Pending(r)) + Starts(r) <= 1 + doubt[r]

IInv == /\ TypeOK /\ QueueInv /\ RunInv /\ LogInv
        /\ RequestInv /\ QueuedIsPersisted /\ AcceptedIsQueued /\ BudgetInv

-----------------------------------------------------------------------------
(***************************************************************************)
(* Type correctness.                                                       *)
(***************************************************************************)

\* The types without Bull's limits, which an operator's retry may pass.
Types ==
  /\ job \in JobRow
  /\ log \in [Recipient -> LogStatus]
  /\ bull \in [Recipient -> BullState]
  /\ data \in [Recipient -> Payload \cup {None}]
  /\ returned \in [Recipient -> {"none", "success", "failure"}]
  /\ attemptsMade \in [Recipient -> Nat]
  /\ stalled \in [Recipient -> Nat]
  /\ lock \in [Recipient -> Worker \cup {None}]
  /\ rpc \in [Request -> RequestPC]
  /\ rlist \in [Request -> SUBSET Recipient]
  /\ rpayload \in [Request -> Payload \cup {None}]
  /\ toSend \in [Request -> SUBSET Recipient]
  /\ missing \in [Request -> SUBSET Recipient]
  /\ blocked \in [Request -> BOOLEAN]
  /\ wpc \in [Worker -> WorkerPC]
  /\ wjob \in [Worker -> Recipient \cup {None}]
  /\ wok \in [Worker -> BOOLEAN]
  /\ poll \in BOOLEAN
  /\ promised \subseteq Recipient
  /\ accepted \in [Recipient -> Nat]
  /\ doubt \in [Recipient -> Nat]

\* Bull charges no more attempts and stalls than it allows.
Limits ==
  /\ attemptsMade \in [Recipient -> 0 .. MaxAttempts]
  /\ stalled \in [Recipient -> 0 .. MaxStalled + 1]

\* The two together are the types of a campaign.
LEMMA TypesAndLimits == TypeOK <=> Types /\ Limits
<1>1. ASSUME NEW f, NEW n \in Nat, f \in [Recipient -> 0 .. n]
      PROVE  f \in [Recipient -> Nat]
  BY <1>1
<1>2. Limits => attemptsMade \in [Recipient -> Nat] /\ stalled \in [Recipient -> Nat]
  BY <1>1, BoundsAssumption DEF Limits
<1> QED
  BY <1>2 DEF TypeOK, Types, Limits

\* The number of recipients a new jobs row is given is a natural number.
LEMMA ListSize == \A S \in SUBSET Recipient : Cardinality(S) \in Nat
  BY FS_Subset, FS_CardinalityType, SetsAssumption

\* The types of a request, and that a handler that answers keeps them.
RequestTypes ==
  /\ rpc \in [Request -> RequestPC]
  /\ rlist \in [Request -> SUBSET Recipient]
  /\ rpayload \in [Request -> Payload \cup {None}]
  /\ toSend \in [Request -> SUBSET Recipient]
  /\ missing \in [Request -> SUBSET Recipient]
  /\ blocked \in [Request -> BOOLEAN]

\* Answering a request leaves the request variables well typed.
LEMMA AnsweredTypes ==
  ASSUME Types, NEW q \in Request, Answered(q)
  PROVE  RequestTypes'
  BY DEF Types, RequestTypes, RequestPC, Answered

\* The initial state has the types, the queue facts and the run facts.
LEMMA InitTypes == Init => TypeOK
<1> SUFFICES ASSUME Init PROVE TypeOK
  OBVIOUS
<1>1. job \in JobRow
  BY DEF Init, NoJob, JobRow, JobStatus
<1>2. /\ log \in [Recipient -> LogStatus]
      /\ bull \in [Recipient -> BullState]
      /\ data \in [Recipient -> Payload \cup {None}]
      /\ returned \in [Recipient -> {"none", "success", "failure"}]
      /\ attemptsMade \in [Recipient -> 0 .. MaxAttempts]
      /\ stalled \in [Recipient -> 0 .. MaxStalled + 1]
      /\ lock \in [Recipient -> Worker \cup {None}]
  BY BoundsAssumption DEF Init, LogStatus, BullState
<1>3. RequestTypes
  BY DEF Init, RequestTypes, RequestPC
<1> QED
  BY <1>1, <1>2, <1>3 DEF Init, TypeOK, RequestTypes, WorkerPC

\* Every step keeps the types; a run that is not idle has a job (RunInv).
LEMMA StepTypes ==
  ASSUME Types, RunInv, [Next]_vars
  PROVE  Types'
<1> USE SetsAssumption, BoundsAssumption
<1> USE DEF Types, RequestPC, WorkerPC, InQueue, Goto, Run
<1>1. ASSUME NEW q \in Request, NEW list \in Lists, NEW p \in Payload, Post(q, list, p)
      PROVE  Types'
  BY <1>1 DEF Post, vars, dbVars, bullVars, workerVars, history
<1>2. ASSUME NEW q \in Request, Persist(q)
      PROVE  Types'
  <2>1. job' \in JobRow
    BY <1>2, ListSize DEF Persist, CreateJob, JobRow, JobStatus, dbVars
  <2>2. log' \in [Recipient -> LogStatus]
    BY <1>2 DEF Persist, CreateBatch, LogStatus, dbVars
  <2>3. RequestTypes'
    <3>1. CASE Answered(q)
      BY <3>1, AnsweredTypes
    <3>2. CASE /\ rpc' = [rpc EXCEPT ![q] = "lookup"]
               /\ UNCHANGED <<rlist, rpayload, toSend, missing, blocked, promised>>
      BY <3>2 DEF RequestTypes
    <3> QED
      BY <1>2, <3>1, <3>2 DEF Persist, AnswerAccepted
  <2>4. promised' \subseteq Recipient
    BY <1>2 DEF Persist, AnswerAccepted
  <2> QED
    BY <1>2, <2>1, <2>2, <2>3, <2>4 DEF Persist, RequestTypes, bullVars, workerVars
<1>3. ASSUME NEW q \in Request, LookupChunk(q)
      PROVE  Types'
  BY <1>3 DEF LookupChunk, dbVars, bullVars, workerVars, history
<1>4. ASSUME NEW q \in Request, AddBulk(q)
      PROVE  Types'
  <2>1. /\ bull' \in [Recipient -> BullState]
        /\ data' \in [Recipient -> Payload \cup {None}]
    BY <1>4 DEF AddBulk, BullAdd, BullState
  <2>2. RequestTypes'
    <3>1. CASE Answered(q)
      BY <3>1, AnsweredTypes
    <3>2. CASE /\ rpc' = [rpc EXCEPT ![q] = AfterChunk(q)]
               /\ missing' = [missing EXCEPT ![q] = {}]
               /\ UNCHANGED <<rlist, rpayload, toSend, blocked>>
      BY <3>2 DEF RequestTypes, AfterChunk
    <3> QED
      BY <1>4, <3>1, <3>2 DEF AddBulk
  <2> QED
    BY <1>4, <2>1, <2>2 DEF AddBulk, RequestTypes, dbVars, workerVars, history
<1>5. ASSUME NEW q \in Request, StartProcessing(q)
      PROVE  Types'
  BY <1>5 DEF StartProcessing, AnswerAccepted, Answered, JobRow, JobStatus, bullVars, workerVars
<1>6. ASSUME NEW q \in Request, AbortRequest(q)
      PROVE  Types'
  BY <1>6 DEF AbortRequest, Answered, dbVars, bullVars, workerVars, history
<1>7. ASSUME NEW w \in Worker, NEW r \in Recipient, Take(w, r)
      PROVE  Types'
  BY <1>7 DEF Take, BullState, dbVars, requestVars, history
<1>8. ASSUME NEW w \in Worker, CheckIdempotency(w)
      PROVE  Types'
  <2>1. wpc' \in [Worker -> WorkerPC]
    BY <1>8 DEF CheckIdempotency
  <2>2. wok' \in [Worker -> BOOLEAN]
    <3>1. wok' = [wok EXCEPT ![w] = TRUE] \/ wok' = wok
      BY <1>8 DEF CheckIdempotency
    <3> QED
      BY <3>1
  <2> QED
    BY <1>8, <2>1, <2>2 DEF CheckIdempotency, dbVars, bullVars, requestVars, history
<1>9. ASSUME NEW w \in Worker, MarkProcessing(w)
      PROVE  Types'
  BY <1>9 DEF MarkProcessing, LogStatus, bullVars, requestVars, history
<1>10. ASSUME NEW w \in Worker, SendAccepted(w)
       PROVE  Types'
  <2>1. wjob[w] \in Recipient
    BY <1>10 DEF SendAccepted, RunInv
  <2>2. accepted' \in [Recipient -> Nat]
    BY <1>10, <2>1 DEF SendAccepted
  <2> QED
    BY <1>10, <2>2 DEF SendAccepted, dbVars, bullVars, requestVars
<1>11. ASSUME NEW w \in Worker, SendRejected(w)
       PROVE  Types'
  BY <1>11 DEF SendRejected, dbVars, bullVars, requestVars, history
<1>12. ASSUME NEW w \in Worker, SendUnreadable(w)
       PROVE  Types'
  <2>1. wjob[w] \in Recipient
    BY <1>12 DEF SendUnreadable, RunInv
  <2>2. accepted' \in [Recipient -> Nat]
    BY <1>12, <2>1 DEF SendUnreadable
  <2> QED
    BY <1>12, <2>2 DEF SendUnreadable, dbVars, bullVars, requestVars
<1>13. ASSUME NEW w \in Worker, SendThrows(w)
       PROVE  Types'
  BY <1>13 DEF SendThrows, ThrowToBull, dbVars, bullVars, requestVars, history
<1>14. ASSUME NEW w \in Worker, SendLost(w)
       PROVE  Types'
  <2>1. wjob[w] \in Recipient
    BY <1>14 DEF SendLost, RunInv
  <2>2. accepted' \in [Recipient -> Nat] /\ doubt' \in [Recipient -> Nat]
    BY <1>14, <2>1 DEF SendLost
  <2> QED
    BY <1>14, <2>2 DEF SendLost, ThrowToBull, dbVars, bullVars, requestVars
<1>15. ASSUME NEW w \in Worker, RecordResult(w)
       PROVE  Types'
  BY <1>15 DEF RecordResult, LogStatus, bullVars, requestVars, history
<1>16. ASSUME NEW w \in Worker, CountResult(w)
       PROVE  Types'
  BY <1>16 DEF CountResult, JobRow, bullVars, requestVars, history
<1>17. ASSUME NEW w \in Worker, MoveToCompleted(w)
       PROVE  Types'
  <2>1. /\ bull' \in [Recipient -> BullState]
        /\ returned' \in [Recipient -> {"none", "success", "failure"}]
        /\ lock' \in [Recipient -> Worker \cup {None}]
    BY <1>17 DEF MoveToCompleted, BullState
  <2> QED
    BY <1>17, <2>1 DEF MoveToCompleted, Release, dbVars, requestVars, history
<1>18. ASSUME NEW w \in Worker, MoveToFailed(w)
       PROVE  Types'
  <2>1. wjob[w] \in Recipient
    BY <1>18 DEF MoveToFailed, RunInv
  <2>2. attemptsMade' \in [Recipient -> Nat]
    BY <1>18, <2>1 DEF MoveToFailed, ChargeAttempt
  <2> QED
    BY <1>18, <2>1, <2>2 DEF MoveToFailed, Release, BullState, dbVars, requestVars, history
<1>19. ASSUME NEW w \in Worker, DatabaseError(w)
       PROVE  Types'
  BY <1>19 DEF DatabaseError, AfterDatabaseError, dbVars, bullVars, requestVars, history
<1>20. ASSUME NEW w \in Worker, CrashRun(w)
       PROVE  Types'
  BY <1>20 DEF CrashRun, Release, dbVars, requestVars, history
<1>21. ASSUME NEW w \in Worker, LoseLock(w)
       PROVE  Types'
  BY <1>21 DEF LoseLock, dbVars, requestVars, workerVars, history
<1>22. ASSUME NEW r \in Recipient, Promote(r)
       PROVE  Types'
  BY <1>22 DEF Promote, BullState, dbVars, requestVars, workerVars, history
<1>23. ASSUME NEW r \in Recipient, RequeueStalled(r)
       PROVE  Types'
  <2>1. stalled' \in [Recipient -> Nat]
    BY <1>23 DEF RequeueStalled
  <2> QED
    BY <1>23, <2>1 DEF RequeueStalled, BullState, dbVars, requestVars, workerVars
<1>24. CASE PollRead
  BY <1>24 DEF PollRead, dbVars, bullVars, requestVars, workerVars, history
<1>25. CASE PollSync
  BY <1>25 DEF PollSync, JobRow, JobStatus, bullVars, requestVars, workerVars, history
<1>26. CASE UNCHANGED vars
  BY <1>26 DEF vars, dbVars, bullVars, requestVars, workerVars, history
<1> QED
  BY <1>1, <1>2, <1>3, <1>4, <1>5, <1>6, <1>7, <1>8, <1>9, <1>10, <1>11, <1>12, <1>13,
     <1>14, <1>15, <1>16, <1>17, <1>18, <1>19, <1>20, <1>21, <1>22, <1>23, <1>24, <1>25,
     <1>26
  DEF Next, Handle, WorkerStep

-----------------------------------------------------------------------------
(***************************************************************************)
(* Which steps change what.                                                *)
(***************************************************************************)

\* Bull's jobs change hands only in these steps.
LEMMA BullSteps ==
  ASSUME [Next]_vars
  PROVE  \/ UNCHANGED bullVars
         \/ \E q \in Request : AddBulk(q)
         \/ \E w \in Worker, r \in Recipient : Take(w, r)
         \/ \E w \in Worker : MoveToCompleted(w) \/ MoveToFailed(w)
                             \/ CrashRun(w) \/ LoseLock(w)
         \/ \E r \in Recipient : Promote(r) \/ RequeueStalled(r)
<1> USE DEF bullVars
<1>1. ASSUME NEW q \in Request
      PROVE  /\ (\E list \in Lists, p \in Payload : Post(q, list, p)) => UNCHANGED bullVars
             /\ Persist(q) \/ LookupChunk(q) \/ StartProcessing(q) \/ AbortRequest(q)
                  => UNCHANGED bullVars
  BY DEF Post, Persist, LookupChunk, StartProcessing, AbortRequest
<1>2. ASSUME NEW w \in Worker
      PROVE  /\ CheckIdempotency(w) \/ MarkProcessing(w) \/ RecordResult(w) \/ CountResult(w)
                  => UNCHANGED bullVars
             /\ SendAccepted(w) \/ SendRejected(w) \/ SendUnreadable(w) \/ SendThrows(w)
                  \/ SendLost(w) \/ DatabaseError(w) => UNCHANGED bullVars
  BY DEF CheckIdempotency, MarkProcessing, RecordResult, CountResult, SendAccepted,
         SendRejected, SendUnreadable, SendThrows, SendLost, DatabaseError
<1>3. PollRead \/ PollSync \/ UNCHANGED vars => UNCHANGED bullVars
  BY DEF PollRead, PollSync, vars
<1> QED
  BY <1>1, <1>2, <1>3 DEF Next, Handle, WorkerStep

\* The log rows change only in these steps, and no row disappears.
LEMMA LogSteps ==
  ASSUME [Next]_vars
  PROVE  \/ UNCHANGED log
         \/ \E q \in Request : Persist(q)
         \/ \E w \in Worker : MarkProcessing(w) \/ RecordResult(w)
<1> USE DEF dbVars
<1>1. ASSUME NEW q \in Request
      PROVE  /\ (\E list \in Lists, p \in Payload : Post(q, list, p)) => UNCHANGED log
             /\ LookupChunk(q) \/ AddBulk(q) \/ StartProcessing(q) \/ AbortRequest(q)
                  => UNCHANGED log
  BY DEF Post, LookupChunk, AddBulk, StartProcessing, AbortRequest
<1>2. ASSUME NEW w \in Worker
      PROVE  /\ (\E r \in Recipient : Take(w, r)) => UNCHANGED log
             /\ CheckIdempotency(w) \/ CountResult(w) \/ SendAccepted(w) \/ SendRejected(w)
                  \/ SendUnreadable(w) \/ SendThrows(w) \/ SendLost(w) => UNCHANGED log
             /\ DatabaseError(w) \/ MoveToCompleted(w) \/ MoveToFailed(w) \/ CrashRun(w)
                  \/ LoseLock(w) => UNCHANGED log
  BY DEF Take, CheckIdempotency, CountResult, SendAccepted, SendRejected, SendUnreadable,
         SendThrows, ThrowToBull, SendLost, DatabaseError, MoveToCompleted, MoveToFailed,
         CrashRun, LoseLock
<1>3. ASSUME NEW r \in Recipient
      PROVE  Promote(r) \/ RequeueStalled(r) => UNCHANGED log
  BY DEF Promote, RequeueStalled
<1>4. PollRead \/ PollSync \/ UNCHANGED vars => UNCHANGED log
  BY DEF PollRead, PollSync, vars
<1> QED
  BY <1>1, <1>2, <1>3, <1>4 DEF Next, Handle, WorkerStep

\* The jobs row, once written, keeps its payload.
LEMMA JobStays ==
  ASSUME Types, [Next]_vars, job.status # "none"
  PROVE  job'.status # "none" /\ job'.payload = job.payload
<1> USE DEF Types, JobRow, dbVars
<1>1. UNCHANGED job => job'.status # "none" /\ job'.payload = job.payload
  OBVIOUS
<1>2. ASSUME NEW q \in Request
      PROVE  /\ (\E list \in Lists, p \in Payload : Post(q, list, p)) => UNCHANGED job
             /\ LookupChunk(q) \/ AddBulk(q) \/ AbortRequest(q) => UNCHANGED job
             /\ Persist(q) => UNCHANGED job
             /\ StartProcessing(q) => job'.status # "none" /\ job'.payload = job.payload
  BY DEF Post, LookupChunk, AddBulk, AbortRequest, Persist, CreateJob, StartProcessing
<1>3. ASSUME NEW w \in Worker
      PROVE  /\ (\E r \in Recipient : Take(w, r)) => UNCHANGED job
             /\ CheckIdempotency(w) \/ MarkProcessing(w) \/ SendAccepted(w) \/ SendRejected(w)
                  \/ SendUnreadable(w) \/ SendThrows(w) \/ SendLost(w) => UNCHANGED job
             /\ RecordResult(w) \/ DatabaseError(w) \/ MoveToCompleted(w) \/ MoveToFailed(w)
                  \/ CrashRun(w) \/ LoseLock(w) => UNCHANGED job
  BY DEF Take, CheckIdempotency, MarkProcessing, SendAccepted, SendRejected, SendUnreadable,
         SendThrows, ThrowToBull, SendLost, RecordResult, DatabaseError, MoveToCompleted,
         MoveToFailed, CrashRun, LoseLock
<1>4. ASSUME NEW w \in Worker, CountResult(w)
      PROVE  job'.status # "none" /\ job'.payload = job.payload
  BY <1>4 DEF CountResult
<1>5. ASSUME NEW r \in Recipient
      PROVE  Promote(r) \/ RequeueStalled(r) => UNCHANGED job
  BY DEF Promote, RequeueStalled
<1>6. /\ PollRead \/ UNCHANGED vars => UNCHANGED job
      /\ PollSync => job'.status # "none" /\ job'.payload = job.payload
  BY DEF PollRead, PollSync, vars
<1> QED
  BY <1>1, <1>2, <1>3, <1>4, <1>5, <1>6 DEF Next, Handle, WorkerStep

\* A log row, once written, stays.
LEMMA LogStays ==
  ASSUME Types, [Next]_vars, NEW r \in Recipient, log[r] # "absent"
  PROVE  log'[r] # "absent"
<1> USE DEF Types
<1>1. ASSUME NEW q \in Request, Persist(q)
      PROVE  log'[r] # "absent"
  BY <1>1 DEF Persist, CreateBatch, dbVars
<1>2. ASSUME NEW w \in Worker, MarkProcessing(w) \/ RecordResult(w)
      PROVE  log'[r] # "absent"
  BY <1>2 DEF MarkProcessing, RecordResult
<1> QED
  BY <1>1, <1>2, LogSteps

\* A Bull job, once added, stays and keeps its data.
LEMMA BullStays ==
  ASSUME Types, [Next]_vars, NEW r \in Recipient, bull[r] # "absent"
  PROVE  bull'[r] # "absent" /\ data'[r] = data[r]
<1> USE DEF Types, Run
<1>1. ASSUME NEW q \in Request, AddBulk(q)
      PROVE  bull'[r] # "absent" /\ data'[r] = data[r]
  BY <1>1 DEF AddBulk, BullAdd
<1>2. ASSUME NEW w \in Worker, NEW s \in Recipient, Take(w, s)
      PROVE  bull'[r] # "absent" /\ data'[r] = data[r]
  BY <1>2 DEF Take
<1>3. ASSUME NEW w \in Worker, MoveToCompleted(w) \/ MoveToFailed(w)
      PROVE  bull'[r] # "absent" /\ data'[r] = data[r]
  BY <1>3 DEF MoveToCompleted, MoveToFailed
<1>4. ASSUME NEW w \in Worker, CrashRun(w) \/ LoseLock(w)
      PROVE  bull'[r] # "absent" /\ data'[r] = data[r]
  BY <1>4 DEF CrashRun, LoseLock
<1>5. ASSUME NEW s \in Recipient, Promote(s) \/ RequeueStalled(s)
      PROVE  bull'[r] # "absent" /\ data'[r] = data[r]
  BY <1>5 DEF Promote, RequeueStalled
<1> QED
  BY <1>1, <1>2, <1>3, <1>4, <1>5, BullSteps DEF bullVars

\* A run is idle after a step, or had its job before it, or just took it.
LEMMA RunSteps ==
  ASSUME Types, [Next]_vars, NEW w \in Worker
  PROVE  \/ wpc'[w] = "idle"
         \/ wpc[w] # "idle" /\ wjob'[w] = wjob[w]
         \/ \E r \in Recipient : Take(w, r)
<1> DEFINE Same == wpc[w] # "idle" /\ wjob'[w] = wjob[w]
<1> USE DEF Types, Goto, Release, workerVars
<1>1. UNCHANGED workerVars => wpc'[w] = "idle" \/ Same
  OBVIOUS
<1>2. ASSUME NEW q \in Request
      PROVE  /\ (\E list \in Lists, p \in Payload : Post(q, list, p)) => UNCHANGED workerVars
             /\ Handle(q) \/ AbortRequest(q) => UNCHANGED workerVars
  BY DEF Handle, Post, Persist, LookupChunk, AddBulk, StartProcessing, AbortRequest
<1>3. ASSUME NEW v \in Worker, NEW r \in Recipient, Take(v, r)
      PROVE  wpc'[w] = "idle" \/ Same \/ Take(w, r)
  <2>1. CASE v = w
    BY <1>3, <2>1
  <2>2. CASE v # w
    BY <1>3, <2>2 DEF Take
  <2> QED
    BY <2>1, <2>2
<1>4. ASSUME NEW v \in Worker,
             \/ CheckIdempotency(v) \/ MarkProcessing(v) \/ RecordResult(v)
             \/ CountResult(v) \/ DatabaseError(v)
      PROVE  wpc'[w] = "idle" \/ Same
  BY <1>4 DEF CheckIdempotency, MarkProcessing, RecordResult, CountResult, DatabaseError
<1>5. ASSUME NEW v \in Worker,
             \/ SendAccepted(v) \/ SendRejected(v) \/ SendUnreadable(v)
             \/ SendThrows(v) \/ SendLost(v)
      PROVE  wpc'[w] = "idle" \/ Same
  BY <1>5 DEF SendAccepted, SendRejected, SendUnreadable, SendThrows, ThrowToBull, SendLost
<1>6. ASSUME NEW v \in Worker, MoveToCompleted(v) \/ MoveToFailed(v) \/ CrashRun(v)
      PROVE  wpc'[w] = "idle" \/ Same
  BY <1>6 DEF MoveToCompleted, MoveToFailed, CrashRun
<1>7. ASSUME NEW r \in Recipient, Promote(r) \/ RequeueStalled(r)
      PROVE  UNCHANGED workerVars
  BY <1>7 DEF Promote, RequeueStalled
<1>8. PollRead \/ PollSync \/ UNCHANGED vars => UNCHANGED workerVars
  BY DEF PollRead, PollSync, vars
<1>9. ASSUME NEW v \in Worker, LoseLock(v)
      PROVE  UNCHANGED workerVars
  BY <1>9 DEF LoseLock
<1> HIDE DEF Same
<1> QED
  BY <1>1, <1>2, <1>3, <1>4, <1>5, <1>6, <1>7, <1>8, <1>9 DEF Next, Handle, WorkerStep, Same

-----------------------------------------------------------------------------
(***************************************************************************)
(* Each conjunct of IInv is preserved.                                     *)
(***************************************************************************)

\* A run works on a job that Bull has.
LEMMA StepRun ==
  ASSUME Types, RunInv, [Next]_vars
  PROVE  RunInv'
<1> SUFFICES ASSUME NEW w \in Worker, wpc'[w] # "idle"
             PROVE  wjob'[w] \in Recipient /\ bull'[wjob'[w]] # "absent"
  BY DEF RunInv
<1>1. CASE wpc[w] # "idle" /\ wjob'[w] = wjob[w]
  BY <1>1, BullStays DEF RunInv
<1>2. ASSUME NEW r \in Recipient, Take(w, r)
      PROVE  wjob'[w] \in Recipient /\ bull'[wjob'[w]] # "absent"
  BY <1>2 DEF Take, Types
<1> QED
  BY <1>1, <1>2, RunSteps

\* Only an active job has a lock: a run that gives its job up gives up the lock.
LEMMA StepLock ==
  ASSUME Types, LockInv, [Next]_vars
  PROVE  LockInv'
<1> USE DEF Types, LockInv, Run
<1>1. CASE UNCHANGED bullVars
  BY <1>1 DEF bullVars
<1>2. ASSUME NEW q \in Request, AddBulk(q)
      PROVE  LockInv'
  BY <1>2 DEF AddBulk, BullAdd
<1>3. ASSUME NEW w \in Worker, NEW r \in Recipient, Take(w, r)
      PROVE  LockInv'
  BY <1>3 DEF Take
<1>4. ASSUME NEW w \in Worker, MoveToCompleted(w)
      PROVE  LockInv'
  BY <1>4 DEF MoveToCompleted
<1>5. ASSUME NEW w \in Worker, MoveToFailed(w)
      PROVE  LockInv'
  BY <1>5 DEF MoveToFailed
<1>6. ASSUME NEW w \in Worker, CrashRun(w) \/ LoseLock(w)
      PROVE  LockInv'
  BY <1>6 DEF CrashRun, LoseLock
<1>7. ASSUME NEW r \in Recipient, Promote(r) \/ RequeueStalled(r)
      PROVE  LockInv'
  BY <1>7 DEF Promote, RequeueStalled
<1> QED
  BY <1>1, <1>2, <1>3, <1>4, <1>5, <1>6, <1>7, BullSteps

\* Bull charges an attempt only with the lock, which only an active job has,
\* and counts a stall only on an active job.
LEMMA StepQueue ==
  ASSUME TypeOK, QueueInv, RunInv, [Next]_vars
  PROVE  QueueInv' /\ Limits'
<1>0. LimitInv /\ LockInv /\ LockInv'
  BY StepLock, TypesAndLimits DEF QueueInv
<1> SUFFICES LimitInv' /\ Limits'
  BY <1>0 DEF QueueInv
<1> USE <1>0, BoundsAssumption DEF TypeOK, Limits, LimitInv, LockInv, InQueue, Run
<1>1. CASE UNCHANGED bullVars
  BY <1>1 DEF bullVars
<1>2. ASSUME NEW q \in Request, AddBulk(q)
      PROVE  LimitInv' /\ Limits'
  BY <1>2 DEF AddBulk, BullAdd
<1>3. ASSUME NEW w \in Worker, NEW r \in Recipient, Take(w, r)
      PROVE  LimitInv' /\ Limits'
  BY <1>3 DEF Take
<1>4. ASSUME NEW w \in Worker, MoveToCompleted(w)
      PROVE  LimitInv' /\ Limits'
  BY <1>4 DEF MoveToCompleted
<1>5. ASSUME NEW w \in Worker, MoveToFailed(w)
      PROVE  LimitInv' /\ Limits'
  <2>1. wjob[w] \in Recipient
    BY <1>5 DEF MoveToFailed, RunInv
  <2>2. CASE HoldsLock(w)
    <3>1. /\ attemptsMade[wjob[w]] < MaxAttempts /\ stalled[wjob[w]] <= MaxStalled
          /\ attemptsMade[wjob[w]] \in Nat
      BY <2>1, <2>2, SetsAssumption DEF HoldsLock
    <3>2. ASSUME NEW r \in Recipient, r # wjob[w]
          PROVE  /\ bull'[r] = bull[r] /\ attemptsMade'[r] = attemptsMade[r]
                 /\ stalled'[r] = stalled[r]
      BY <1>5, <2>2, <3>2 DEF MoveToFailed
    <3>3. /\ attemptsMade' = [attemptsMade EXCEPT ![wjob[w]] = attemptsMade[wjob[w]] + 1]
          /\ attemptsMade'[wjob[w]] = attemptsMade[wjob[w]] + 1
          /\ bull'[wjob[w]] = IF attemptsMade[wjob[w]] + 1 < MaxAttempts
                                THEN "delayed" ELSE "failed"
          /\ stalled' = stalled
      BY <1>5, <2>1, <2>2 DEF MoveToFailed, RetryLeft, ChargeAttempt
    <3>4. LimitInv'
      BY <3>1, <3>2, <3>3
    <3>5. attemptsMade[wjob[w]] + 1 \in 0 .. MaxAttempts
      BY <3>1
    <3> QED
      BY <2>1, <3>3, <3>4, <3>5
  <2>3. CASE ~HoldsLock(w)
    BY <1>5, <2>3 DEF MoveToFailed
  <2> QED
    BY <2>2, <2>3
<1>6. ASSUME NEW w \in Worker, CrashRun(w)
      PROVE  LimitInv' /\ Limits'
  BY <1>6 DEF CrashRun
<1>7. ASSUME NEW w \in Worker, LoseLock(w)
      PROVE  LimitInv' /\ Limits'
  BY <1>7 DEF LoseLock
<1>8. ASSUME NEW r \in Recipient, Promote(r)
      PROVE  LimitInv' /\ Limits'
  BY <1>8 DEF Promote
<1>9. ASSUME NEW r \in Recipient, RequeueStalled(r)
      PROVE  LimitInv' /\ Limits'
  BY <1>9 DEF RequeueStalled
<1> QED
  BY <1>1, <1>2, <1>3, <1>4, <1>5, <1>6, <1>7, <1>8, <1>9, BullSteps

\* Attempts and stalls stay within Bull's limits because a job that is given back
\* or requeued had one left.
LEMMA StepTypeOK ==
  ASSUME TypeOK, QueueInv, RunInv, [Next]_vars
  PROVE  TypeOK'
<1>1. Types' /\ Limits'
  BY StepTypes, StepQueue, TypesAndLimits
<1> QED
  BY <1>1 DEF TypeOK, Types, Limits

\* Only a run takes a row past "pending", and a run has a Bull job.
LEMMA StepLog ==
  ASSUME Types, RunInv, LogInv, [Next]_vars
  PROVE  LogInv'
<1> SUFFICES ASSUME NEW r \in Recipient, log'[r] \in {"processing", "sent", "failed"}
             PROVE  bull[r] # "absent"
  BY BullStays DEF LogInv
<1> USE DEF Types, LogInv
<1>1. CASE UNCHANGED log
  BY <1>1
<1>2. ASSUME NEW q \in Request, Persist(q)
      PROVE  bull[r] # "absent"
  BY <1>2 DEF Persist, CreateBatch, dbVars
<1>3. ASSUME NEW w \in Worker, MarkProcessing(w) \/ RecordResult(w)
      PROVE  bull[r] # "absent"
  <2>1. wjob[w] \in Recipient /\ bull[wjob[w]] # "absent"
    BY <1>3 DEF RunInv, MarkProcessing, RecordResult
  <2> QED
    BY <1>3, <2>1 DEF MarkProcessing, RecordResult, Run
<1> QED
  BY <1>1, <1>2, <1>3, LogSteps

\* Only the second half of a chunk adds a Bull job, with the payload of the request.
LEMMA Enqueued ==
  ASSUME Types, RunInv, [Next]_vars, NEW r \in Recipient, bull[r] = "absent", bull'[r] # "absent"
  PROVE  \E q \in Request : AddBulk(q) /\ r \in missing[q] /\ data'[r] = rpayload[q]
<1> USE DEF Types, Run
<1>1. ASSUME NEW w \in Worker, NEW s \in Recipient, Take(w, s)
      PROVE  FALSE
  BY <1>1 DEF Take
<1>2. ASSUME NEW w \in Worker, MoveToCompleted(w) \/ MoveToFailed(w)
      PROVE  FALSE
  <2>1. wjob[w] \in Recipient /\ bull[wjob[w]] # "absent"
    BY <1>2 DEF RunInv, MoveToCompleted, MoveToFailed
  <2> QED
    BY <1>2, <2>1 DEF MoveToCompleted, MoveToFailed
<1>3. ASSUME NEW w \in Worker, CrashRun(w) \/ LoseLock(w)
      PROVE  FALSE
  BY <1>3 DEF CrashRun, LoseLock
<1>4. ASSUME NEW s \in Recipient, Promote(s) \/ RequeueStalled(s)
      PROVE  FALSE
  BY <1>4 DEF Promote, RequeueStalled
<1>5. PICK q \in Request : AddBulk(q)
  BY <1>1, <1>2, <1>3, <1>4, BullSteps DEF bullVars
<1>6. r \in missing[q] /\ data'[r] = rpayload[q]
  BY <1>5 DEF AddBulk, BullAdd
<1> QED
  BY <1>5, <1>6

\* A Bull job is added after the transaction that wrote its log row and the
\* campaign, by a request whose payload that transaction compared.
LEMMA StepQueued ==
  ASSUME Types, RunInv, PersistedInv, QueuedIsPersisted, [Next]_vars
  PROVE  QueuedIsPersisted'
<1> SUFFICES ASSUME NEW r \in Recipient, bull'[r] # "absent"
             PROVE  log'[r] # "absent" /\ job'.status # "none" /\ data'[r] = job'.payload
  BY DEF QueuedIsPersisted
<1>1. CASE bull[r] # "absent"
  BY <1>1, BullStays, LogStays, JobStays DEF QueuedIsPersisted
<1>2. CASE bull[r] = "absent"
  <2>1. PICK q \in Request : AddBulk(q) /\ r \in missing[q] /\ data'[r] = rpayload[q]
    BY <1>2, Enqueued
  <2>2. log[r] # "absent" /\ job.status # "none" /\ job.payload = rpayload[q]
    BY <2>1 DEF AddBulk, PersistedInv
  <2> QED
    BY <2>1, <2>2, LogStays, JobStays
<1> QED
  BY <1>1, <1>2

\* A request is left alone, answered, posted or moved by its own handler.
LEMMA RequestSteps ==
  ASSUME Types, [Next]_vars, NEW q \in Request
  PROVE  \/ /\ rpc'[q] = rpc[q] /\ rlist'[q] = rlist[q] /\ rpayload'[q] = rpayload[q]
            /\ toSend'[q] = toSend[q] /\ missing'[q] = missing[q]
         \/ Answered(q)
         \/ \E list \in Lists, p \in Payload : Post(q, list, p)
         \/ Persist(q) \/ LookupChunk(q) \/ AddBulk(q)
<1> DEFINE Same == /\ rpc'[q] = rpc[q] /\ rlist'[q] = rlist[q] /\ rpayload'[q] = rpayload[q]
                   /\ toSend'[q] = toSend[q] /\ missing'[q] = missing[q]
<1> USE DEF Types, requestVars
<1>1. UNCHANGED requestVars => Same
  OBVIOUS
<1>2. ASSUME NEW v \in Request, v # q,
             (\E list \in Lists, p \in Payload : Post(v, list, p)) \/ Handle(v)
             \/ AbortRequest(v)
      PROVE  Same
  BY <1>2 DEF Post, Handle, Persist, LookupChunk, AddBulk, StartProcessing, AbortRequest,
              AnswerAccepted, Answered
<1>3. StartProcessing(q) \/ AbortRequest(q) => Answered(q)
  BY DEF StartProcessing, AbortRequest, AnswerAccepted
<1>4. ASSUME NEW w \in Worker
      PROVE  /\ (\E r \in Recipient : Take(w, r)) => UNCHANGED requestVars
             /\ WorkerStep(w) => UNCHANGED requestVars
             /\ DatabaseError(w) \/ CrashRun(w) \/ LoseLock(w) => UNCHANGED requestVars
  BY DEF Take, WorkerStep, CheckIdempotency, MarkProcessing, SendAccepted, SendRejected,
         SendUnreadable, SendThrows, SendLost, RecordResult, CountResult, MoveToCompleted,
         MoveToFailed, DatabaseError, CrashRun, LoseLock
<1>5. ASSUME NEW r \in Recipient, Promote(r) \/ RequeueStalled(r)
      PROVE  UNCHANGED requestVars
  BY <1>5 DEF Promote, RequeueStalled
<1>6. PollRead \/ PollSync \/ UNCHANGED vars => UNCHANGED requestVars
  BY DEF PollRead, PollSync, vars
<1> HIDE DEF Same
<1> QED
  BY <1>1, <1>2, <1>3, <1>4, <1>5, <1>6 DEF Next, Handle, Same

\* What a handler has persisted stays: no other step takes a row away or gives the
\* campaign another payload.
LEMMA StepPersisted ==
  ASSUME Types, PersistedInv, [Next]_vars
  PROVE  PersistedInv'
<1> DEFINE Facts(q) ==
      /\ rpc[q] \in {"lookup", "add", "status"} =>
           /\ job.status # "none"
           /\ job.payload = rpayload[q]
           /\ \A r \in toSend[q] \cup missing[q] : log[r] # "absent"
      /\ rpc[q] # "add" => missing[q] = {}
<1>1. SUFFICES ASSUME NEW q \in Request PROVE Facts(q)'
  BY DEF PersistedInv
<1>2. Facts(q)
  BY DEF PersistedInv
<1>3. toSend[q] \subseteq Recipient /\ missing[q] \subseteq Recipient
  BY DEF Types
<1>4. CASE /\ rpc'[q] = rpc[q] /\ rpayload'[q] = rpayload[q]
           /\ toSend'[q] = toSend[q] /\ missing'[q] = missing[q]
  BY <1>2, <1>3, <1>4, JobStays, LogStays
<1>5. CASE Answered(q)
  BY <1>5 DEF Answered, Types
<1>6. CASE \E list \in Lists, p \in Payload : Post(q, list, p)
  BY <1>2, <1>6 DEF Post, Types
<1>7. CASE Persist(q) /\ ~Answered(q)
  <2> USE DEF Types
  <2>1. /\ CampaignPayloadMatches(CreateJob(rpayload[q], Cardinality(toSend[q])), rpayload[q])
        /\ job' = CreateJob(rpayload[q], Cardinality(toSend[q]))
        /\ log' = CreateBatch(toSend[q])
        /\ rpc' = [rpc EXCEPT ![q] = "lookup"]
        /\ UNCHANGED <<rlist, rpayload, toSend, missing, blocked>>
    BY <1>7 DEF Persist, AnswerAccepted
  <2>2. job'.status # "none" /\ job'.payload = rpayload'[q]
    BY <2>1 DEF CreateJob, CampaignPayloadMatches
  <2>3. \A r \in toSend[q] : log'[r] # "absent"
    BY <1>3, <2>1 DEF CreateBatch
  <2>4. missing[q] = {} /\ rpc'[q] = "lookup"
    BY <1>2, <1>7, <2>1 DEF Persist
  <2> QED
    BY <2>1, <2>2, <2>3, <2>4
<1>8. CASE LookupChunk(q)
  <2> USE DEF Types
  <2>1. /\ rpc[q] = "lookup" /\ rpc'[q] = "add" /\ missing[q] = {}
        /\ job' = job /\ log' = log /\ rpayload' = rpayload
    BY <1>2, <1>8 DEF LookupChunk, dbVars
  <2>2. missing'[q] \subseteq toSend[q] /\ toSend'[q] \subseteq toSend[q]
    BY <1>8 DEF LookupChunk
  <2> QED
    BY <1>2, <2>1, <2>2
<1>9. CASE AddBulk(q) /\ ~Answered(q)
  <2>1. /\ rpc[q] = "add" /\ rpc'[q] # "add" /\ missing'[q] = {}
        /\ job' = job /\ log' = log /\ rpayload' = rpayload /\ toSend' = toSend
    BY <1>9 DEF AddBulk, AfterChunk, dbVars, Types
  <2> QED
    BY <1>2, <2>1
<1> HIDE DEF Facts
<1> QED
  BY <1>4, <1>5, <1>6, <1>7, <1>8, <1>9, RequestSteps

\* Each handler step hands its recipients from the list to the queue, and nothing
\* leaves the queue.
LEMMA StepOwed ==
  ASSUME Types, LogInv, OwedInv, [Next]_vars
  PROVE  OwedInv'
<1> DEFINE Facts(q) ==
      /\ \A r \in rlist[q] : bull[r] # "absent" \/ r \in toSend[q] \cup missing[q]
      /\ rpc[q] = "status" => toSend[q] = {}
      /\ rpc[q] # "add" => missing[q] = {}
<1>1. SUFFICES ASSUME NEW q \in Request PROVE Facts(q)'
  BY DEF OwedInv
<1>2. Facts(q)
  BY DEF OwedInv
<1>3. /\ toSend[q] \subseteq Recipient /\ missing[q] \subseteq Recipient
      /\ rlist[q] \subseteq Recipient
  BY DEF Types
<1>4. CASE /\ rpc'[q] = rpc[q] /\ rlist'[q] = rlist[q]
           /\ toSend'[q] = toSend[q] /\ missing'[q] = missing[q]
  BY <1>2, <1>3, <1>4, BullStays
<1>5. CASE Answered(q)
  BY <1>5 DEF Answered, Types
<1>6. CASE \E list \in Lists, p \in Payload : Post(q, list, p)
  <2> USE DEF Types
  <2>1. PICK list \in Lists, p \in Payload : Post(q, list, p)
    BY <1>6
  <2>2. /\ rpc'[q] = "persist" /\ missing'[q] = {} /\ rlist'[q] = list
        /\ toSend'[q] = {r \in list : log[r] # "sent"}
        /\ bull' = bull
    BY <1>2, <2>1 DEF Post, bullVars, WasEmailSent
  <2>3. \A r \in list : log[r] = "sent" => bull[r] # "absent"
    BY SetsAssumption DEF LogInv
  <2> QED
    BY <2>2, <2>3
<1>7. CASE Persist(q) /\ ~Answered(q)
  <2>1. /\ rpc[q] = "persist" /\ rpc'[q] = "lookup" /\ bull' = bull
        /\ UNCHANGED <<rlist, toSend, missing>>
    BY <1>7 DEF Persist, AnswerAccepted, bullVars, Types
  <2> QED
    BY <1>2, <2>1
<1>8. CASE LookupChunk(q)
  <2> USE DEF Types
  <2>1. /\ rpc[q] = "lookup" /\ rpc'[q] = "add" /\ missing[q] = {}
        /\ bull' = bull /\ rlist' = rlist
    BY <1>2, <1>8 DEF LookupChunk, bullVars
  <2>2. PICK chunk \in SUBSET toSend[q] :
          /\ missing'[q] = {r \in chunk : bull[r] = "absent"}
          /\ toSend'[q] = toSend[q] \ chunk
    BY <1>8 DEF LookupChunk
  <2> QED
    BY <1>2, <2>1, <2>2
<1>9. CASE AddBulk(q) /\ ~Answered(q)
  <2> USE DEF Types
  <2>1. /\ rpc'[q] = (IF toSend[q] # {} THEN "lookup" ELSE "status")
        /\ missing'[q] = {} /\ rlist' = rlist /\ toSend' = toSend
    BY <1>9 DEF AddBulk, AfterChunk
  <2>2. \A r \in Recipient : bull[r] # "absent" \/ r \in missing[q] => bull'[r] # "absent"
    BY <1>9 DEF AddBulk, BullAdd
  <2> QED
    BY <1>2, <1>3, <2>1, <2>2
<1> HIDE DEF Facts
<1> QED
  BY <1>4, <1>5, <1>6, <1>7, <1>8, <1>9, RequestSteps

\* A request is answered with 202 only when none of its recipients is left to
\* look up or to add.
LEMMA StepPromised ==
  ASSUME Types, Types', OwedInv, AcceptedIsQueued, [Next]_vars
  PROVE  AcceptedIsQueued'
<1> USE DEF AcceptedIsQueued
<1>1. SUFFICES promised' = promised \/ \A r \in promised' \ promised : bull[r] # "absent"
  BY BullStays DEF Types
<1>2. ASSUME NEW q \in Request, Persist(q), promised' # promised
      PROVE  \A r \in promised' \ promised : bull[r] # "absent"
  <2>1. promised' = promised \cup rlist[q] /\ toSend[q] = {} /\ rpc[q] = "persist"
    BY <1>2 DEF Persist, AnswerAccepted
  <2> QED
    BY <2>1 DEF OwedInv
<1>3. ASSUME NEW q \in Request, StartProcessing(q)
      PROVE  \A r \in promised' \ promised : bull[r] # "absent"
  BY <1>3 DEF StartProcessing, AnswerAccepted, OwedInv
<1>4. ASSUME NEW q \in Request
      PROVE  /\ (\E list \in Lists, p \in Payload : Post(q, list, p)) => promised' = promised
             /\ LookupChunk(q) \/ AddBulk(q) \/ AbortRequest(q) => promised' = promised
  BY DEF Post, LookupChunk, AddBulk, AbortRequest, history
<1>5. ASSUME NEW w \in Worker
      PROVE  /\ (\E r \in Recipient : Take(w, r)) => promised' = promised
             /\ WorkerStep(w) => promised' = promised
             /\ DatabaseError(w) \/ CrashRun(w) \/ LoseLock(w) => promised' = promised
  BY DEF Take, WorkerStep, CheckIdempotency, MarkProcessing, SendAccepted, SendRejected,
         SendUnreadable, SendThrows, SendLost, RecordResult, CountResult, MoveToCompleted,
         MoveToFailed, DatabaseError, CrashRun, LoseLock, history
<1>6. ASSUME NEW r \in Recipient, Promote(r) \/ RequeueStalled(r)
      PROVE  promised' = promised
  BY <1>6 DEF Promote, RequeueStalled, history
<1>7. PollRead \/ PollSync \/ UNCHANGED vars => promised' = promised
  BY DEF PollRead, PollSync, vars, history
<1> QED
  BY <1>2, <1>3, <1>4, <1>5, <1>6, <1>7 DEF Next, Handle

\* Sizes of subsets of a finite set that differ by one element.
LEMMA SetCount ==
  ASSUME NEW U, IsFiniteSet(U), NEW S \in SUBSET U, NEW T \in SUBSET U
  PROVE  /\ Cardinality(S) \in Nat
         /\ S \subseteq T => Cardinality(S) <= Cardinality(T)
         /\ \A w \in T : S \subseteq T \ {w} => Cardinality(S) + 1 <= Cardinality(T)
         /\ \A w : S \subseteq T \cup {w} => Cardinality(S) <= Cardinality(T) + 1
<1>1. IsFiniteSet(S) /\ IsFiniteSet(T)
  BY FS_Subset
<1>2. Cardinality(S) \in Nat /\ Cardinality(T) \in Nat
  BY <1>1, FS_CardinalityType
<1>3. S \subseteq T => Cardinality(S) <= Cardinality(T)
  BY <1>1, FS_Subset
<1>4. ASSUME NEW w \in T, S \subseteq T \ {w}
      PROVE  Cardinality(S) + 1 <= Cardinality(T)
  <2>1. IsFiniteSet(T \ {w}) /\ Cardinality(T \ {w}) = Cardinality(T) - 1
    BY <1>1, FS_RemoveElement
  <2>2. Cardinality(S) <= Cardinality(T \ {w})
    BY <1>4, <2>1, FS_Subset
  <2> QED
    BY <1>2, <2>1, <2>2
<1>5. ASSUME NEW w, S \subseteq T \cup {w}
      PROVE  Cardinality(S) <= Cardinality(T) + 1
  <2>1. IsFiniteSet(T \cup {w})
        /\ (Cardinality(T \cup {w}) = Cardinality(T) \/ Cardinality(T \cup {w}) = Cardinality(T) + 1)
    BY <1>1, FS_AddElement
  <2>2. Cardinality(S) <= Cardinality(T \cup {w})
    BY <1>5, <2>1, FS_Subset
  <2> QED
    BY <1>2, <2>1, <2>2
<1> QED
  BY <1>2, <1>3, <1>4, <1>5

\* Sizes of sets of runs, as the budget needs them.
LEMMA RunCount ==
  ASSUME NEW S \in SUBSET Worker, NEW T \in SUBSET Worker
  PROVE  /\ Cardinality(S) \in Nat
         /\ S \subseteq T => Cardinality(S) <= Cardinality(T)
         /\ \A w \in T : S \subseteq T \ {w} => Cardinality(S) + 1 <= Cardinality(T)
         /\ \A w \in Worker : S \subseteq T \cup {w} => Cardinality(S) <= Cardinality(T) + 1
  BY SetCount, SetsAssumption

\* The load of a recipient, mails given, runs that may give one and the run the queue
\* will start, grows by no more than the doubts: a mail is given by a run that leaves
\* the load or is charged as a doubt; a job that goes back to the queue was given back
\* by a run, or found without a lock and charged.  Only a job that is added is new.
LEMMA StepLoad ==
  ASSUME Types, Types', RunInv, [Next]_vars, NEW r \in Recipient
  PROVE  \/ accepted'[r] + Cardinality(Pending(r)') + Waiting(r)' + doubt[r]
              <= accepted[r] + Cardinality(Pending(r)) + Waiting(r) + doubt'[r]
         \/ /\ bull[r] = "absent" /\ bull'[r] = "waiting"
            /\ accepted'[r] = accepted[r] /\ doubt'[r] = doubt[r] /\ Pending(r)' = Pending(r)
<1> DEFINE Within == accepted'[r] + Cardinality(Pending(r)') + Waiting(r)' + doubt[r]
                       <= accepted[r] + Cardinality(Pending(r)) + Waiting(r) + doubt'[r]
<1> DEFINE Kept == accepted'[r] = accepted[r] /\ doubt'[r] = doubt[r]
<1> DEFINE Added == /\ bull[r] = "absent" /\ bull'[r] = "waiting"
                    /\ Kept /\ Pending(r)' = Pending(r)
<1> DEFINE Leaves(w) == w \in Pending(r) /\ Pending(r)' \subseteq Pending(r) \ {w}
<1> SUFFICES Within \/ Added
  OBVIOUS
<1>1. /\ accepted[r] \in Nat /\ accepted'[r] \in Nat
      /\ doubt[r] \in Nat /\ doubt'[r] \in Nat
      /\ Waiting(r) \in {0, 1} /\ Waiting(r)' \in {0, 1}
  BY DEF Types, Waiting
<1>2. Pending(r) \subseteq Worker /\ Pending(r)' \subseteq Worker
  BY DEF Pending
<1>3. Cardinality(Pending(r)) \in Nat /\ Cardinality(Pending(r)') \in Nat
  BY <1>2, RunCount
<1>4. ASSUME Kept, Pending(r)' \subseteq Pending(r), Waiting(r)' <= Waiting(r)
      PROVE  Within
  BY <1>1, <1>2, <1>3, <1>4, RunCount
<1>5. ASSUME NEW w \in Worker, Leaves(w), doubt'[r] = doubt[r],
             \/ accepted'[r] = accepted[r]
             \/ accepted'[r] = accepted[r] + 1 /\ Waiting(r)' = Waiting(r)
      PROVE  Within
  <2>1. Cardinality(Pending(r)') + 1 <= Cardinality(Pending(r))
    BY <1>2, <1>5, RunCount
  <2> QED
    BY <1>1, <1>3, <1>5, <2>1
<1>6. ASSUME NEW w \in Worker, Kept, Pending(r)' \subseteq Pending(r) \cup {w},
             Waiting(r) = 1, Waiting(r)' = 0
      PROVE  Within
  <2>1. Cardinality(Pending(r)') <= Cardinality(Pending(r)) + 1
    BY <1>2, <1>6, RunCount
  <2> QED
    BY <1>1, <1>3, <1>6, <2>1
<1>7. ASSUME doubt'[r] = doubt[r] + 1, Pending(r)' \subseteq Pending(r),
             accepted'[r] + Waiting(r)' <= accepted[r] + Waiting(r) + 1
      PROVE  Within
  <2>1. Cardinality(Pending(r)') <= Cardinality(Pending(r))
    BY <1>2, <1>7, RunCount
  <2> QED
    BY <1>1, <1>3, <1>7, <2>1
<1> HIDE DEF Within
<1> USE DEF Types, Goto, Run, Release, Waiting, Pending
<1>8. ASSUME UNCHANGED workerVars, UNCHANGED bull, Kept
      PROVE  Within
  BY <1>1, <1>4, <1>8 DEF workerVars
<1>9. ASSUME NEW q \in Request,
             \/ \E list \in Lists, p \in Payload : Post(q, list, p)
             \/ Persist(q) \/ LookupChunk(q) \/ StartProcessing(q) \/ AbortRequest(q)
      PROVE  Within
  BY <1>8, <1>9 DEF Post, Persist, LookupChunk, StartProcessing, AbortRequest, bullVars, history
<1>10. ASSUME NEW q \in Request, AddBulk(q)
       PROVE  Within \/ Added
  <2>1. bull'[r] = bull[r] \/ (bull[r] = "absent" /\ bull'[r] = "waiting")
    BY <1>10 DEF AddBulk, BullAdd
  <2>2. Kept /\ Pending(r)' \subseteq Pending(r)
    BY <1>10 DEF AddBulk, workerVars, history
  <2>3. bull[r] = "absent" /\ bull'[r] = "waiting" => Added
    BY <2>2, <1>10 DEF AddBulk, workerVars
  <2> QED
    BY <1>1, <1>4, <2>1, <2>2, <2>3
<1>11. ASSUME NEW w \in Worker, NEW s \in Recipient, Take(w, s)
       PROVE  Within
  <2>1. Kept
    BY <1>11 DEF Take, history
  <2>2. CASE s = r
    BY <1>6, <1>11, <2>1, <2>2 DEF Take
  <2>3. CASE s # r
    BY <1>4, <1>11, <2>1, <2>3 DEF Take
  <2> QED
    BY <2>2, <2>3
<1>12. ASSUME NEW w \in Worker,
              \/ CheckIdempotency(w) \/ MarkProcessing(w) \/ SendRejected(w) \/ SendThrows(w)
              \/ RecordResult(w) \/ CountResult(w) \/ DatabaseError(w)
       PROVE  Within
  <2>1. Kept /\ bull' = bull
    BY <1>12 DEF CheckIdempotency, MarkProcessing, SendRejected, SendThrows, RecordResult,
                 CountResult, DatabaseError, bullVars, history
  <2>2. Pending(r)' \subseteq Pending(r)
    BY <1>12 DEF CheckIdempotency, MarkProcessing, SendRejected, SendThrows, ThrowToBull,
                 RecordResult, CountResult, DatabaseError, AfterDatabaseError
  <2> QED
    BY <1>1, <1>4, <2>1, <2>2
<1>13. ASSUME NEW w \in Worker, SendAccepted(w) \/ SendUnreadable(w)
       PROVE  Within
  <2>1. bull' = bull /\ doubt' = doubt /\ wjob' = wjob
    BY <1>13 DEF SendAccepted, SendUnreadable, bullVars
  <2>2. wpc[w] = "send" /\ wpc' = [wpc EXCEPT ![w] = "record"]
    BY <1>13 DEF SendAccepted, SendUnreadable
  <2>3. accepted' = [accepted EXCEPT ![wjob[w]] = @ + 1]
    BY <1>13 DEF SendAccepted, SendUnreadable
  <2>4. CASE wjob[w] = r
    <3>1. Leaves(w)
      BY <2>1, <2>2, <2>4
    <3>2. accepted'[r] = accepted[r] + 1
      BY <2>3, <2>4
    <3> QED
      BY <1>5, <2>1, <3>1, <3>2
  <2>5. CASE wjob[w] # r
    BY <1>1, <1>4, <2>1, <2>2, <2>3, <2>5
  <2> QED
    BY <2>4, <2>5
<1>14. ASSUME NEW w \in Worker, SendLost(w)
       PROVE  Within
  <2>1. /\ bull' = bull /\ wjob' = wjob
        /\ wpc[w] = "send" /\ wpc' = [wpc EXCEPT ![w] = "nack"]
    BY <1>14 DEF SendLost, ThrowToBull, bullVars
  <2>2. /\ accepted' = [accepted EXCEPT ![wjob[w]] = @ + 1]
        /\ doubt' = [doubt EXCEPT ![wjob[w]] = @ + 1]
    BY <1>14 DEF SendLost
  <2>3. Pending(r)' \subseteq Pending(r)
    BY <2>1
  <2>4. CASE wjob[w] = r
    BY <1>1, <1>7, <2>1, <2>2, <2>3, <2>4
  <2>5. CASE wjob[w] # r
    BY <1>1, <1>4, <2>1, <2>2, <2>3, <2>5
  <2> QED
    BY <2>4, <2>5
<1>15. ASSUME NEW w \in Worker, MoveToCompleted(w)
       PROVE  Within
  <2>1. Kept
    BY <1>15 DEF MoveToCompleted, history
  <2>2. bull'[r] = bull[r] \/ bull'[r] = "completed"
    BY <1>15 DEF MoveToCompleted
  <2>3. Pending(r)' \subseteq Pending(r)
    BY <1>15 DEF MoveToCompleted
  <2> QED
    BY <1>1, <1>4, <2>1, <2>2, <2>3
<1>16. ASSUME NEW w \in Worker, MoveToFailed(w)
       PROVE  Within
  <2>1. Kept
    BY <1>16 DEF MoveToFailed, history
  <2>2. CASE wjob[w] = r
    <3>1. Leaves(w)
      BY <1>16, <2>2, SetsAssumption DEF MoveToFailed
    <3> QED
      BY <1>5, <2>1, <3>1
  <2>3. CASE wjob[w] # r
    <3>1. bull'[r] = bull[r] /\ Pending(r)' \subseteq Pending(r)
      BY <1>16, <2>3 DEF MoveToFailed
    <3> QED
      BY <1>1, <1>4, <2>1, <3>1
  <2> QED
    BY <2>2, <2>3
<1>17. ASSUME NEW w \in Worker, CrashRun(w)
       PROVE  Within
  <2>1. Kept /\ bull' = bull /\ Pending(r)' \subseteq Pending(r)
    BY <1>17, SetsAssumption DEF CrashRun, history
  <2> QED
    BY <1>1, <1>4, <2>1
<1>18. ASSUME NEW w \in Worker, LoseLock(w)
       PROVE  Within
  BY <1>8, <1>18 DEF LoseLock, history
<1>19. ASSUME NEW s \in Recipient, Promote(s)
       PROVE  Within
  <2>1. Kept /\ Pending(r)' \subseteq Pending(r)
    BY <1>19 DEF Promote, workerVars, history
  <2>2. bull'[r] = bull[r] \/ (bull[r] = "delayed" /\ bull'[r] = "waiting")
    BY <1>19 DEF Promote
  <2> QED
    BY <1>1, <1>4, <2>1, <2>2
<1>20. ASSUME NEW s \in Recipient, RequeueStalled(s)
       PROVE  Within
  <2>1. accepted' = accepted /\ Pending(r)' \subseteq Pending(r)
    BY <1>20 DEF RequeueStalled, workerVars
  <2>2. CASE doubt' = doubt /\ (bull'[r] = bull[r] \/ bull'[r] = "failed")
    BY <1>1, <1>4, <2>1, <2>2
  <2>3. CASE s = r /\ doubt' = [doubt EXCEPT ![s] = @ + 1] /\ bull[r] = "active"
    BY <1>1, <1>7, <2>1, <2>3
  <2>4. CASE s # r /\ doubt' = [doubt EXCEPT ![s] = @ + 1] /\ bull'[r] = bull[r]
    BY <1>1, <1>4, <2>1, <2>4
  <2> QED
    BY <1>20, <2>2, <2>3, <2>4 DEF RequeueStalled
<1>21. PollRead \/ PollSync \/ UNCHANGED vars => Within
  BY <1>8 DEF PollRead, PollSync, vars, bullVars, history
<1> HIDE DEF Types, Waiting, Pending
<1> QED
  BY <1>9, <1>10, <1>11, <1>12, <1>13, <1>14, <1>15, <1>16, <1>17, <1>18, <1>19, <1>20, <1>21
  DEF Next, Handle, WorkerStep

\* What a recipient's load is made of is natural numbers.
LEMMA LoadTypes ==
  ASSUME Types, NEW r \in Recipient
  PROVE  /\ accepted[r] \in Nat /\ doubt[r] \in Nat
         /\ Waiting(r) \in {0, 1} /\ Starts(r) \in {0, 1}
         /\ Cardinality(Pending(r)) \in Nat
<1>1. Pending(r) \subseteq Worker
  BY DEF Pending
<1> QED
  BY <1>1, RunCount DEF Types, Waiting, Starts

\* The budget of a recipient is kept: the one run of a job that is not there yet is
\* spent by adding it.
LEMMA StepBudget ==
  ASSUME Types, Types', RunInv, BudgetInv, [Next]_vars
  PROVE  BudgetInv'
<1> SUFFICES ASSUME NEW r \in Recipient
             PROVE  accepted'[r] + Cardinality(Pending(r)') + Starts(r)' <= 1 + doubt'[r]
  BY DEF BudgetInv
<1>1. /\ accepted[r] \in Nat /\ accepted'[r] \in Nat
      /\ doubt[r] \in Nat /\ doubt'[r] \in Nat
      /\ Waiting(r) \in {0, 1} /\ Starts(r) \in {0, 1}
      /\ Waiting(r)' \in {0, 1} /\ Starts(r)' \in {0, 1}
  BY LoadTypes DEF Types, Waiting, Starts
<1>2. Cardinality(Pending(r)) \in Nat /\ Cardinality(Pending(r)') \in Nat
  BY RunCount DEF Pending
<1>3. accepted[r] + Cardinality(Pending(r)) + Starts(r) <= 1 + doubt[r]
  BY DEF BudgetInv
<1>4. CASE bull[r] = "absent" /\ bull'[r] = "absent"
  <2>1. Starts(r) = 1 /\ Starts(r)' = 1 /\ Waiting(r) = 0 /\ Waiting(r)' = 0
    BY <1>4 DEF Starts, Waiting
  <2> QED
    BY <1>1, <1>2, <1>3, <1>4, <2>1, StepLoad
<1>5. CASE bull[r] # "absent"
  <2>1. bull'[r] # "absent"
    BY <1>5, BullStays
  <2>2. Starts(r) = Waiting(r) /\ Starts(r)' = Waiting(r)'
    BY <1>5, <2>1 DEF Starts, Waiting
  <2> QED
    BY <1>1, <1>2, <1>3, <1>5, <2>2, StepLoad
<1>6. CASE bull[r] = "absent" /\ bull'[r] # "absent"
  <2>1. Starts(r) = 1 /\ Waiting(r) = 0 /\ Starts(r)' = Waiting(r)'
    BY <1>6 DEF Starts, Waiting
  <2> QED
    BY <1>1, <1>2, <1>3, <2>1, StepLoad
<1> QED
  BY <1>4, <1>5, <1>6

\* Bull settles a job once: only the run that holds its lock moves it, only an
\* active job has a lock, and addBulk ignores a job Bull already has.
LEMMA StepFinished ==
  ASSUME Types, LockInv, RunInv, [Next]_vars, NEW r \in Recipient, bull[r] \in Finished
  PROVE  bull'[r] = bull[r] /\ returned'[r] = returned[r]
<1> USE DEF Types, Finished, Run
<1>1. bull[r] \notin {"absent", "waiting", "delayed", "active"} /\ lock[r] = None
  BY DEF LockInv
<1>2. ASSUME NEW q \in Request, AddBulk(q)
      PROVE  bull'[r] = bull[r] /\ returned'[r] = returned[r]
  BY <1>1, <1>2 DEF AddBulk, BullAdd
<1>3. ASSUME NEW w \in Worker, NEW s \in Recipient, Take(w, s)
      PROVE  bull'[r] = bull[r] /\ returned'[r] = returned[r]
  BY <1>1, <1>3 DEF Take
<1>4. ASSUME NEW w \in Worker, MoveToCompleted(w) \/ MoveToFailed(w)
      PROVE  bull'[r] = bull[r] /\ returned'[r] = returned[r]
  <2>1. HoldsLock(w) => wjob[w] # r
    BY <1>1, SetsAssumption DEF HoldsLock
  <2> QED
    BY <1>4, <2>1 DEF MoveToCompleted, MoveToFailed
<1>5. ASSUME NEW w \in Worker, CrashRun(w) \/ LoseLock(w)
      PROVE  bull'[r] = bull[r] /\ returned'[r] = returned[r]
  BY <1>5 DEF CrashRun, LoseLock
<1>6. ASSUME NEW s \in Recipient, Promote(s) \/ RequeueStalled(s)
      PROVE  bull'[r] = bull[r] /\ returned'[r] = returned[r]
  BY <1>1, <1>6 DEF Promote, RequeueStalled
<1> QED
  BY <1>2, <1>3, <1>4, <1>5, <1>6, BullSteps DEF bullVars

-----------------------------------------------------------------------------
(***************************************************************************)
(* The theorems.                                                           *)
(***************************************************************************)

\* Nothing is persisted, queued or running at the start, so every recipient
\* has its one mail left.
LEMMA InitIInv == Init => IInv
<1> SUFFICES ASSUME Init PROVE IInv
  OBVIOUS
<1>1. TypeOK
  BY InitTypes
<1>2. QueueInv /\ RunInv /\ LogInv /\ RequestInv
  BY BoundsAssumption DEF Init, QueueInv, LimitInv, LockInv, RunInv, LogInv, RequestInv,
                           PersistedInv, OwedInv, InQueue
<1>3. QueuedIsPersisted /\ AcceptedIsQueued
  BY DEF Init, QueuedIsPersisted, AcceptedIsQueued
<1>4. ASSUME NEW r \in Recipient
      PROVE  accepted[r] + Cardinality(Pending(r)) + Starts(r) <= 1 + doubt[r]
  <2>1. Pending(r) = {}
    BY DEF Init, Pending
  <2> QED
    BY <2>1, FS_EmptySet DEF Init, Starts
<1> QED
  BY <1>1, <1>2, <1>3, <1>4 DEF IInv, BudgetInv

\* The strengthened invariant holds in every reachable state.
THEOREM Invariance == Spec => []IInv
<1>1. ASSUME IInv, [Next]_vars
      PROVE  IInv'
  <2>1. Types
    BY <1>1, TypesAndLimits DEF IInv
  <2>2. TypeOK' /\ Types' /\ QueueInv'
    BY <1>1, <2>1, StepTypes, StepTypeOK, StepQueue DEF IInv
  <2>3. RunInv' /\ LogInv' /\ RequestInv'
    BY <1>1, <2>1, StepRun, StepLog, StepPersisted, StepOwed DEF IInv, RequestInv
  <2>4. QueuedIsPersisted' /\ AcceptedIsQueued'
    BY <1>1, <2>1, <2>2, StepQueued, StepPromised DEF IInv, RequestInv
  <2>5. BudgetInv'
    BY <1>1, <2>1, <2>2, StepBudget DEF IInv
  <2> QED
    BY <2>2, <2>3, <2>4, <2>5 DEF IInv
<1> QED
  BY <1>1, InitIInv, PTL DEF Spec

\* Every variable of a campaign keeps its type, whatever fails: in particular
\* Bull never charges a job more attempts or stalls than it allows.
THEOREM TypeCorrect == Spec => []TypeOK
<1>1. IInv => TypeOK
  BY DEF IInv
<1> QED
  BY <1>1, Invariance, PTL

\* sendController: every Bull job has its log row, its campaign and the payload
\* of that campaign, for any number of racing requests.
THEOREM QueuedIsAlwaysPersisted == Spec => []QueuedIsPersisted
<1>1. IInv => QueuedIsPersisted
  BY DEF IInv
<1> QED
  BY <1>1, Invariance, PTL

\* sendController: a 202 covers only recipients that have a Bull job, for any
\* chunk size and any interleaving of requests, workers and failures.
THEOREM AcceptedIsAlwaysQueued == Spec => []AcceptedIsQueued
<1>1. IInv => AcceptedIsQueued
  BY DEF IInv
<1> QED
  BY <1>1, Invariance, PTL

\* processEmailJob: a recipient is mailed at most once, and once more for each
\* run of its job whose outcome nobody learnt.
THEOREM AlwaysAtMostOnceButDoubt == Spec => []AtMostOnceButDoubt
<1>1. ASSUME IInv, NEW r \in Recipient
      PROVE  accepted[r] <= 1 + doubt[r]
  <2>1. /\ accepted[r] \in Nat /\ doubt[r] \in Nat /\ Starts(r) \in Nat
        /\ Cardinality(Pending(r)) \in Nat
    BY <1>1, LoadTypes, TypesAndLimits DEF IInv
  <2>2. accepted[r] + Cardinality(Pending(r)) + Starts(r) <= 1 + doubt[r]
    BY <1>1 DEF IInv, BudgetInv
  <2> QED
    BY <2>1, <2>2
<1>2. IInv => AtMostOnceButDoubt
  BY <1>1 DEF AtMostOnceButDoubt
<1> QED
  BY <1>2, Invariance, PTL

\* Bull and the send endpoint never revive a job that has ended, and its return
\* value stays.
THEOREM FinishedJobsStay == Spec => TerminalBullFinal
<1>1. ASSUME IInv, [Next]_vars
      PROVE  [\A r \in Recipient :
                bull[r] \in Finished => bull'[r] = bull[r] /\ returned'[r] = returned[r]]_vars
  BY <1>1, StepFinished, TypesAndLimits DEF IInv, QueueInv
<1> QED
  BY <1>1, Invariance, PTL DEF Spec, TerminalBullFinal

-----------------------------------------------------------------------------
(***************************************************************************)
(* The counters of the jobs row.                                           *)
(***************************************************************************)

\* Runs that may still count, or give their job back; jobs the queue has given
\* to a run and not got back; and the stalls, as CountersBounded counts them.
Busy == {w \in Worker : wpc[w] \notin {"idle", "ack"}}
Given == {r \in Recipient : bull[r] \in {"active", "completed", "failed"}}
Stalls == {s \in Recipient \X (1 .. MaxStalled + 1) : s[2] <= stalled[s[1]]}

\* A run counts at most once, and the queue starts one for a job given, and
\* one more for each stall.
CounterInv ==
  job.completed + job.failed + Cardinality(Busy)
    <= Cardinality(Given) + Cardinality(Stalls)

\* The stalls are finitely many.
LEMMA StallSet == IsFiniteSet(Recipient \X (1 .. MaxStalled + 1))
<1>1. IsFiniteSet(1 .. MaxStalled + 1)
  <2>1. 1 \in Int /\ MaxStalled + 1 \in Int
    BY BoundsAssumption
  <2> QED
    BY <2>1, FS_Interval
<1> QED
  BY <1>1, SetsAssumption, FS_Product

\* How the sizes of the three sets change.
LEMMA CounterSizes ==
  /\ Cardinality(Busy) \in Nat /\ Cardinality(Busy') \in Nat
  /\ Cardinality(Given) \in Nat /\ Cardinality(Given') \in Nat
  /\ Cardinality(Stalls) \in Nat /\ Cardinality(Stalls') \in Nat
  /\ Busy' \subseteq Busy => Cardinality(Busy') <= Cardinality(Busy)
  /\ \A w \in Busy : Busy' \subseteq Busy \ {w} => Cardinality(Busy') + 1 <= Cardinality(Busy)
  /\ \A w : Busy' \subseteq Busy \cup {w} => Cardinality(Busy') <= Cardinality(Busy) + 1
  /\ Given \subseteq Given' => Cardinality(Given) <= Cardinality(Given')
  /\ \A r \in Given' : Given \subseteq Given' \ {r} => Cardinality(Given) + 1 <= Cardinality(Given')
  /\ \A r : Given \subseteq Given' \cup {r} => Cardinality(Given) <= Cardinality(Given') + 1
  /\ Stalls \subseteq Stalls' => Cardinality(Stalls) <= Cardinality(Stalls')
  /\ \A s \in Stalls' : Stalls \subseteq Stalls' \ {s}
                          => Cardinality(Stalls) + 1 <= Cardinality(Stalls')
<1>1. /\ Busy \in SUBSET Worker /\ Busy' \in SUBSET Worker
      /\ Given \in SUBSET Recipient /\ Given' \in SUBSET Recipient
      /\ Stalls \in SUBSET (Recipient \X (1 .. MaxStalled + 1))
      /\ Stalls' \in SUBSET (Recipient \X (1 .. MaxStalled + 1))
  BY DEF Busy, Given, Stalls
<1> USE SetsAssumption
<1>2. /\ Cardinality(Busy) \in Nat /\ Cardinality(Busy') \in Nat
      /\ Busy' \subseteq Busy => Cardinality(Busy') <= Cardinality(Busy)
      /\ \A w \in Busy : Busy' \subseteq Busy \ {w} => Cardinality(Busy') + 1 <= Cardinality(Busy)
      /\ \A w : Busy' \subseteq Busy \cup {w} => Cardinality(Busy') <= Cardinality(Busy) + 1
  BY <1>1, SetCount
<1>3. /\ Cardinality(Given) \in Nat /\ Cardinality(Given') \in Nat
      /\ Given \subseteq Given' => Cardinality(Given) <= Cardinality(Given')
      /\ \A r \in Given' : Given \subseteq Given' \ {r}
                             => Cardinality(Given) + 1 <= Cardinality(Given')
      /\ \A r : Given \subseteq Given' \cup {r} => Cardinality(Given) <= Cardinality(Given') + 1
  BY <1>1, SetCount
<1>4. /\ Cardinality(Stalls) \in Nat /\ Cardinality(Stalls') \in Nat
      /\ Stalls \subseteq Stalls' => Cardinality(Stalls) <= Cardinality(Stalls')
      /\ \A s \in Stalls' : Stalls \subseteq Stalls' \ {s}
                              => Cardinality(Stalls) + 1 <= Cardinality(Stalls')
  BY <1>1, StallSet, SetCount
<1> QED
  BY <1>2, <1>3, <1>4

\* Every step keeps CounterInv.
LEMMA StepCounters ==
  ASSUME TypeOK, TypeOK', QueueInv, RunInv, CounterInv, [Next]_vars
  PROVE  CounterInv'
<1> DEFINE n == job.completed + job.failed
<1> DEFINE Within == n' + Cardinality(Busy') <= Cardinality(Given') + Cardinality(Stalls')
<1>0. /\ job.completed \in Nat /\ job.failed \in Nat /\ n \in Nat
      /\ job'.completed \in Nat /\ job'.failed \in Nat /\ n' \in Nat
      /\ n + Cardinality(Busy) <= Cardinality(Given) + Cardinality(Stalls)
  BY DEF TypeOK, JobRow, CounterInv
<1> SUFFICES Within
  BY DEF CounterInv
<1>1. ASSUME job' = job PROVE n' = n
  BY <1>1
<1>2. ASSUME NEW w \in Worker, CountResult(w)
      PROVE  n' = n + 1
  <2>1. \/ job'.completed = job.completed + 1 /\ job'.failed = job.failed
        \/ job'.completed = job.completed /\ job'.failed = job.failed + 1
    BY <1>2 DEF CountResult, TypeOK, JobRow
  <2> QED
    BY <1>0, <2>1
<1>3. ASSUME \/ \E q \in Request : Persist(q) \/ StartProcessing(q)
             \/ PollSync
      PROVE  n' <= n
  <2>1. \/ job'.completed = job.completed /\ job'.failed = job.failed
        \/ job'.completed = 0 /\ job'.failed = 0
    <3>1. ASSUME NEW q \in Request, Persist(q)
          PROVE  \/ job'.completed = job.completed /\ job'.failed = job.failed
                 \/ job'.completed = 0 /\ job'.failed = 0
      BY <3>1 DEF Persist, CreateJob, dbVars
    <3>2. ASSUME job' = [job EXCEPT !.status = "processing"] \/ job' = [job EXCEPT !.status = "completed"]
          PROVE  job'.completed = job.completed /\ job'.failed = job.failed
      BY <3>2 DEF TypeOK, JobRow
    <3> QED
      BY <1>3, <3>1, <3>2 DEF StartProcessing, PollSync
  <2> QED
    BY <1>0, <2>1
<1> HIDE DEF n
<1>4. ASSUME n' <= n, Busy' \subseteq Busy, Given \subseteq Given', Stalls \subseteq Stalls'
      PROVE  Within
  BY <1>0, <1>4, CounterSizes
<1> HIDE DEF Within
<1>5. ASSUME n' <= n, Busy' \subseteq Busy, UNCHANGED <<bull, stalled>>
      PROVE  Within
  <2>1. Given' = Given /\ Stalls' = Stalls
    BY <1>5 DEF Given, Stalls
  <2> QED
    BY <1>4, <1>5, <2>1
<1> USE DEF TypeOK, Goto, Run, Release
<1>6. ASSUME NEW q \in Request,
             \/ \E list \in Lists, p \in Payload : Post(q, list, p)
             \/ Persist(q) \/ LookupChunk(q) \/ StartProcessing(q) \/ AbortRequest(q)
      PROVE  Within
  <2>1. UNCHANGED <<wpc, bull, stalled>>
    BY <1>6 DEF Post, Persist, LookupChunk, StartProcessing, AbortRequest, bullVars, workerVars
  <2>2. job' = job \/ Persist(q) \/ StartProcessing(q)
    BY <1>6 DEF Post, LookupChunk, AbortRequest, dbVars
  <2>3. n' <= n
    BY <1>0, <1>1, <1>3, <2>2
  <2> QED
    BY <1>5, <2>1, <2>3 DEF Busy
<1>7. ASSUME NEW q \in Request, AddBulk(q)
      PROVE  Within
  <2>1. job' = job /\ wpc' = wpc /\ stalled' = stalled
    BY <1>7 DEF AddBulk, dbVars, workerVars
  <2>2. \A r \in Recipient : bull'[r] = bull[r] \/ bull[r] = "absent"
    BY <1>7 DEF AddBulk, BullAdd
  <2>3. Given \subseteq Given' /\ Stalls \subseteq Stalls' /\ Busy' \subseteq Busy
    BY <2>1, <2>2 DEF Given, Stalls, Busy
  <2> QED
    BY <1>0, <1>1, <1>4, <2>1, <2>3
<1>8. ASSUME NEW w \in Worker, NEW r \in Recipient, Take(w, r)
      PROVE  Within
  <2>1. job' = job /\ stalled' = stalled
    BY <1>8 DEF Take, dbVars
  <2>2. Busy' \subseteq Busy \cup {w}
    BY <1>8 DEF Take, Busy
  <2>3. r \in Given' /\ Given \subseteq Given' \ {r}
    BY <1>8 DEF Take, Given
  <2>4. Stalls \subseteq Stalls'
    BY <2>1 DEF Stalls
  <2>5. /\ Cardinality(Busy') <= Cardinality(Busy) + 1
        /\ Cardinality(Given) + 1 <= Cardinality(Given')
        /\ Cardinality(Stalls) <= Cardinality(Stalls')
    BY <2>2, <2>3, <2>4, CounterSizes
  <2> QED
    BY <1>0, <1>1, <2>1, <2>5, CounterSizes DEF Within
<1>9. ASSUME NEW w \in Worker,
             \/ CheckIdempotency(w) \/ MarkProcessing(w) \/ RecordResult(w) \/ DatabaseError(w)
             \/ SendAccepted(w) \/ SendRejected(w) \/ SendUnreadable(w)
             \/ SendThrows(w) \/ SendLost(w)
      PROVE  Within
  <2>1. job' = job /\ UNCHANGED <<bull, stalled>>
    BY <1>9 DEF CheckIdempotency, MarkProcessing, RecordResult, DatabaseError, SendAccepted,
                SendRejected, SendUnreadable, SendThrows, ThrowToBull, SendLost, bullVars, dbVars
  <2>2. wpc[w] \notin {"idle", "ack"} /\ \E pc : wpc' = [wpc EXCEPT ![w] = pc]
    BY <1>9 DEF CheckIdempotency, MarkProcessing, RecordResult, DatabaseError, SendAccepted,
                SendRejected, SendUnreadable, SendThrows, ThrowToBull, SendLost
  <2>3. Busy' \subseteq Busy
    BY <2>2 DEF Busy
  <2> QED
    BY <1>0, <1>1, <1>5, <2>1, <2>3
<1>10. ASSUME NEW w \in Worker, CountResult(w)
       PROVE  Within
  <2>1. UNCHANGED <<bull, stalled>> /\ w \in Busy /\ Busy' \subseteq Busy \ {w}
    BY <1>10 DEF CountResult, bullVars, Busy
  <2>2. Given' = Given /\ Stalls' = Stalls
    BY <2>1 DEF Given, Stalls
  <2>3. Cardinality(Busy') + 1 <= Cardinality(Busy)
    BY <2>1, CounterSizes
  <2> QED
    BY <1>0, <1>2, <1>10, <2>2, <2>3, CounterSizes DEF Within
<1>11. ASSUME NEW w \in Worker, MoveToCompleted(w)
       PROVE  Within
  <2>1. job' = job /\ stalled' = stalled
    BY <1>11 DEF MoveToCompleted, dbVars
  <2>2. Busy' \subseteq Busy /\ Given \subseteq Given' /\ Stalls \subseteq Stalls'
    BY <1>11, <2>1 DEF MoveToCompleted, Busy, Given, Stalls
  <2> QED
    BY <1>0, <1>1, <1>4, <2>1, <2>2
<1>12. ASSUME NEW w \in Worker, MoveToFailed(w)
       PROVE  Within
  <2>1. job' = job /\ stalled' = stalled
    BY <1>12 DEF MoveToFailed, dbVars
  <2>2. w \in Busy /\ Busy' \subseteq Busy \ {w}
    BY <1>12 DEF MoveToFailed, Busy
  <2>3. Given \subseteq Given' \cup {wjob[w]}
    BY <1>12 DEF MoveToFailed, Given
  <2>4. Stalls' = Stalls
    BY <2>1 DEF Stalls
  <2>5. /\ Cardinality(Busy') + 1 <= Cardinality(Busy)
        /\ Cardinality(Given) <= Cardinality(Given') + 1
    BY <2>2, <2>3, CounterSizes
  <2> QED
    BY <1>0, <1>1, <2>1, <2>4, <2>5, CounterSizes DEF Within
<1>13. ASSUME NEW w \in Worker, CrashRun(w) \/ LoseLock(w)
       PROVE  Within
  <2>1. job' = job /\ UNCHANGED <<bull, stalled>>
    BY <1>13 DEF CrashRun, LoseLock, dbVars
  <2>2. Busy' \subseteq Busy
    BY <1>13 DEF CrashRun, LoseLock, Busy, workerVars
  <2> QED
    BY <1>0, <1>1, <1>5, <2>1, <2>2
<1>14. ASSUME NEW r \in Recipient, Promote(r)
       PROVE  Within
  <2>1. job' = job /\ stalled' = stalled /\ wpc' = wpc
    BY <1>14 DEF Promote, dbVars, workerVars
  <2>2. Busy' \subseteq Busy /\ Given \subseteq Given' /\ Stalls \subseteq Stalls'
    BY <1>14, <2>1 DEF Promote, Busy, Given, Stalls
  <2> QED
    BY <1>0, <1>1, <1>4, <2>1, <2>2
<1>15. ASSUME NEW r \in Recipient, RequeueStalled(r)
       PROVE  Within
  <2> DEFINE s == <<r, stalled[r] + 1>>
  <2>1. job' = job /\ wpc' = wpc /\ stalled' = [stalled EXCEPT ![r] = @ + 1]
    BY <1>15 DEF RequeueStalled, dbVars, workerVars
  <2>2. stalled[r] \in Nat /\ stalled[r] <= MaxStalled /\ MaxStalled \in Nat
    BY <1>15, BoundsAssumption DEF RequeueStalled, QueueInv, LimitInv, InQueue
  <2>3. s \in Stalls'
    BY <2>1, <2>2 DEF Stalls
  <2>4. Stalls \subseteq Stalls' \ {s}
    <3>1. \A q \in Recipient : stalled[q] \in Nat /\ stalled[q] <= stalled'[q]
      BY <2>1, BoundsAssumption
    <3>2. \A t \in Stalls : t \in Recipient \X (1 .. MaxStalled + 1) /\ t[2] <= stalled[t[1]]
      BY DEF Stalls
    <3>3. \A t \in Stalls : t # s
      BY <2>2, <3>2
    <3>4. \A t \in Stalls : t[1] \in Recipient /\ t[2] \in Nat
      BY <3>2
    <3>5. \A t \in Stalls : t[2] <= stalled'[t[1]]
      BY <3>1, <3>2, <3>4
    <3> QED
      BY <3>2, <3>3, <3>5 DEF Stalls
  <2>5. Busy' = Busy /\ Given \subseteq Given' \cup {r}
    BY <1>15, <2>1 DEF RequeueStalled, Busy, Given
  <2>6. /\ Cardinality(Stalls) + 1 <= Cardinality(Stalls')
        /\ Cardinality(Given) <= Cardinality(Given') + 1
    BY <2>3, <2>4, <2>5, CounterSizes
  <2> QED
    BY <1>0, <1>1, <2>1, <2>5, <2>6, CounterSizes DEF Within
<1>16. PollRead \/ PollSync \/ UNCHANGED vars => Within
  <2>1. PollRead \/ PollSync \/ UNCHANGED vars => UNCHANGED <<wpc, bull, stalled>>
    BY DEF PollRead, PollSync, vars, bullVars, workerVars
  <2>2. PollRead \/ UNCHANGED vars => job' = job
    BY DEF PollRead, vars, dbVars
  <2>3. PollRead \/ PollSync \/ UNCHANGED vars => n' <= n
    BY <1>0, <1>1, <1>3, <2>2
  <2> QED
    BY <1>5, <2>1, <2>3 DEF Busy
<1> HIDE DEF TypeOK
<1> QED
  BY <1>6, <1>7, <1>8, <1>9, <1>10, <1>11, <1>12, <1>13, <1>14, <1>15, <1>16
  DEF Next, Handle, WorkerStep

\* incrementCompletedCount and incrementFailedCount: however runs crash, lose their
\* lock or fail to write, a recipient is counted once, and once more for each stall.
THEOREM CountersStayBounded == Spec => []CountersBounded
<1>1. Init => CounterInv
  <2> SUFFICES ASSUME Init PROVE CounterInv
    OBVIOUS
  <2>1. Busy = {} /\ job.completed = 0 /\ job.failed = 0
    BY DEF Init, Busy, NoJob
  <2> QED
    BY <2>1, CounterSizes, FS_EmptySet DEF CounterInv
<1>2. ASSUME IInv, IInv', CounterInv, [Next]_vars
      PROVE  CounterInv'
  BY <1>2, StepCounters DEF IInv
<1>3. ASSUME IInv, CounterInv
      PROVE  CountersBounded
  <2> DEFINE Logged == {r \in Recipient : log[r] # "absent"}
  <2>1. Given \subseteq Logged
    BY <1>3 DEF IInv, QueuedIsPersisted, Given
  <2>2. Cardinality(Given) <= Cardinality(Logged) /\ Cardinality(Logged) \in Nat
    BY <2>1, SetCount, SetsAssumption DEF Given
  <2>3. job.completed \in Nat /\ job.failed \in Nat
    BY <1>3 DEF IInv, TypeOK, JobRow
  <2> HIDE DEF Logged
  <2>4. job.completed + job.failed <= Cardinality(Logged) + Cardinality(Stalls)
    BY <1>3, <2>2, <2>3, CounterSizes DEF CounterInv
  <2> QED
    BY <2>4 DEF CountersBounded, Stalls, Logged
<1> QED
  BY <1>1, <1>2, <1>3, Invariance, PTL DEF Spec

-----------------------------------------------------------------------------
(***************************************************************************)
(* One run per job: what holds as long as no run goes on after its lock    *)
(* expired and the database answers, for then the log row of a recipient   *)
(* is written by that run alone.  Each theorem names the faults it         *)
(* excludes; the provider may answer in any way.                           *)
(***************************************************************************)

\* A run that is under way holds the lock of its job.
SoleInv == \A w \in Worker : wpc[w] # "idle" => lock[wjob[w]] = w

\* A run sends only what is not sent, and completes its job with what it wrote.
StageInv ==
  \A w \in Worker :
    /\ wpc[w] \in {"mark", "send", "record"} => log[wjob[w]] # "sent"
    /\ wpc[w] \in {"count", "ack"} =>
         log[wjob[w]] = IF wok[w] THEN "sent" ELSE "failed"

\* Unless runs die, a job is in the queue as long as its row has not ended, and
\* a poll that found the campaign complete is right for good.
FreshInv ==
  /\ \A r \in Recipient :
       /\ bull[r] \in {"absent", "waiting", "delayed"} => log[r] \notin {"sent", "failed"}
       /\ bull[r] = "active" => lock[r] # None
  /\ \A w \in Worker :
       wpc[w] \in {"check", "mark", "send", "record", "nack"} =>
         log[wjob[w]] \notin {"sent", "failed"}
  /\ poll => job.status # "none" /\ Cardinality(Terminal) >= job.valid

-----------------------------------------------------------------------------
(***************************************************************************)
(* Who writes what.                                                        *)
(***************************************************************************)

\* A run is moved by its own steps only.
LEMMA RunMoves ==
  ASSUME Types, [Next]_vars, NEW w \in Worker
  PROVE  \/ wpc'[w] = wpc[w] /\ wjob'[w] = wjob[w] /\ wok'[w] = wok[w]
         \/ \E r \in Recipient : Take(w, r)
         \/ WorkerStep(w)
         \/ DatabaseError(w) \/ CrashRun(w)
<1> DEFINE Same == wpc'[w] = wpc[w] /\ wjob'[w] = wjob[w] /\ wok'[w] = wok[w]
<1> USE DEF Types, Goto, Release, workerVars
<1>1. UNCHANGED workerVars => Same
  OBVIOUS
<1>2. ASSUME NEW q \in Request
      PROVE  /\ (\E list \in Lists, p \in Payload : Post(q, list, p)) => UNCHANGED workerVars
             /\ Handle(q) \/ AbortRequest(q) => UNCHANGED workerVars
  BY DEF Handle, Post, Persist, LookupChunk, AddBulk, StartProcessing, AbortRequest
<1>3. ASSUME NEW r \in Recipient
      PROVE  Promote(r) \/ RequeueStalled(r) => UNCHANGED workerVars
  BY DEF Promote, RequeueStalled
<1>4. PollRead \/ PollSync \/ UNCHANGED vars => UNCHANGED workerVars
  BY DEF PollRead, PollSync, vars
<1>5. ASSUME NEW v \in Worker, v # w
      PROVE  /\ (\E r \in Recipient : Take(v, r)) => Same
             /\ DatabaseError(v) \/ CrashRun(v) => Same
  BY <1>5 DEF Take, DatabaseError, CrashRun
<1>6. ASSUME NEW v \in Worker, v # w
      PROVE  WorkerStep(v) => Same
  <2>1. CheckIdempotency(v) \/ MarkProcessing(v) \/ RecordResult(v) \/ CountResult(v) => Same
    BY <1>6 DEF CheckIdempotency, MarkProcessing, RecordResult, CountResult
  <2>2. SendAccepted(v) \/ SendRejected(v) \/ SendUnreadable(v) \/ SendThrows(v)
          \/ SendLost(v) => Same
    BY <1>6 DEF SendAccepted, SendRejected, SendUnreadable, SendThrows, SendLost, ThrowToBull
  <2>3. MoveToCompleted(v) \/ MoveToFailed(v) => Same
    BY <1>6 DEF MoveToCompleted, MoveToFailed
  <2> QED
    BY <2>1, <2>2, <2>3 DEF WorkerStep
<1>7. ASSUME NEW v \in Worker
      PROVE  LoseLock(v) => Same
  BY DEF LoseLock
<1> QED
  BY <1>1, <1>2, <1>3, <1>4, <1>5, <1>6, <1>7 DEF Next

\* A log row is created by a request or written by a run of its job.
LEMMA LogWriters ==
  ASSUME Types, RunInv, [Next]_vars, NEW r \in Recipient, log'[r] # log[r]
  PROVE  \/ log[r] = "absent" /\ log'[r] = "pending"
         \/ \E w \in Worker : /\ wjob[w] = r
                              /\ \/ MarkProcessing(w) /\ log'[r] = "processing"
                                 \/ RecordResult(w) /\ log'[r] \in {"sent", "failed"}
<1> USE DEF Types, Run
<1>1. ASSUME NEW q \in Request, Persist(q)
      PROVE  log[r] = "absent" /\ log'[r] = "pending"
  BY <1>1 DEF Persist, CreateBatch, dbVars
<1>2. ASSUME NEW w \in Worker, MarkProcessing(w)
      PROVE  wjob[w] = r /\ log'[r] = "processing"
  BY <1>2 DEF MarkProcessing
<1>3. ASSUME NEW w \in Worker, RecordResult(w)
      PROVE  wjob[w] = r /\ log'[r] \in {"sent", "failed"}
  BY <1>3 DEF RecordResult
<1> QED
  BY <1>1, <1>2, <1>3, LogSteps

\* The provider gets a mail from a run that is sending it, which leaves the log for later.
LEMMA Mailed ==
  ASSUME Types, [Next]_vars, NEW r \in Recipient, accepted'[r] # accepted[r]
  PROVE  \E w \in Worker : wpc[w] = "send" /\ wjob[w] = r /\ log' = log
<1>1. accepted \in [Recipient -> Nat]
  BY DEF Types
<1>2. \A w \in Worker : SendAccepted(w) \/ SendUnreadable(w) \/ SendLost(w)
                          => wpc[w] = "send" /\ wjob[w] = r /\ log' = log
  BY <1>1 DEF SendAccepted, SendUnreadable, SendLost, ThrowToBull, Run, dbVars
<1>3. ASSUME NEW q \in Request
      PROVE  /\ ~\E list \in Lists, p \in Payload : Post(q, list, p)
             /\ ~Handle(q) /\ ~AbortRequest(q)
  BY DEF Handle, Post, Persist, LookupChunk, AddBulk, StartProcessing, AbortRequest, history
<1>4. ASSUME NEW w \in Worker
      PROVE  /\ ~\E s \in Recipient : Take(w, s)
             /\ ~CheckIdempotency(w) /\ ~MarkProcessing(w) /\ ~SendRejected(w)
             /\ ~SendThrows(w) /\ ~RecordResult(w) /\ ~CountResult(w)
             /\ ~MoveToCompleted(w) /\ ~MoveToFailed(w)
             /\ ~DatabaseError(w) /\ ~CrashRun(w) /\ ~LoseLock(w)
  BY DEF Take, CheckIdempotency, MarkProcessing, SendRejected, SendThrows, RecordResult,
         CountResult, MoveToCompleted, MoveToFailed, DatabaseError, CrashRun, LoseLock,
         history
<1>5. ASSUME NEW s \in Recipient
      PROVE  ~Promote(s) /\ ~RequeueStalled(s)
  BY DEF Promote, RequeueStalled, history
<1>6. ~PollRead /\ ~PollSync /\ ~UNCHANGED vars
  BY DEF PollRead, PollSync, vars, history
<1> QED
  BY <1>2, <1>3, <1>4, <1>5, <1>6 DEF Next, WorkerStep

\* Of two runs under way, one at most has a job.
LEMMA OneRunEach ==
  ASSUME Types, SoleInv, NEW w \in Worker, NEW v \in Worker,
         wpc[w] # "idle", wpc[v] # "idle", wjob[w] = wjob[v]
  PROVE  w = v
BY DEF SoleInv

\* The log of a run's job is created by a request, or else written by that run only.
LEMMA OwnWrites ==
  ASSUME Types, RunInv, SoleInv, [Next]_vars,
         NEW w \in Worker, wpc[w] # "idle", log'[wjob[w]] # log[wjob[w]]
  PROVE  \/ log[wjob[w]] = "absent" /\ log'[wjob[w]] = "pending"
         \/ MarkProcessing(w) \/ RecordResult(w)
<1>1. wjob[w] \in Recipient
  BY DEF RunInv
<1>2. CASE log[wjob[w]] = "absent" /\ log'[wjob[w]] = "pending"
  BY <1>2
<1>3. ASSUME NEW v \in Worker, wjob[v] = wjob[w], MarkProcessing(v) \/ RecordResult(v)
      PROVE  MarkProcessing(w) \/ RecordResult(w)
  <2>1. wpc[v] # "idle"
    BY <1>3 DEF MarkProcessing, RecordResult
  <2> QED
    BY <1>1, <1>3, <2>1, OneRunEach
<1> QED
  BY <1>1, <1>2, <1>3, LogWriters

\* And by that run only, once it is there.
LEMMA OwnLog ==
  ASSUME Types, RunInv, QueuedIsPersisted, SoleInv, [Next]_vars,
         NEW w \in Worker, wpc[w] # "idle", log'[wjob[w]] # log[wjob[w]]
  PROVE  MarkProcessing(w) \/ RecordResult(w)
  BY OwnWrites DEF RunInv, QueuedIsPersisted

-----------------------------------------------------------------------------
(***************************************************************************)
(* One run per job.                                                        *)
(***************************************************************************)

\* A lock is taken by a run that starts and given up by one that ends.
LEMMA StepSole ==
  ASSUME Types, LockInv, RunInv, SoleInv, "lock" \notin Faults, [Next]_vars
  PROVE  SoleInv'
<1> SUFFICES ASSUME NEW w \in Worker, wpc'[w] # "idle"
             PROVE  lock'[wjob'[w]] = w
  BY DEF SoleInv
<1> USE DEF Types, Run
<1>1. ASSUME NEW r \in Recipient, Take(w, r)
      PROVE  lock'[wjob'[w]] = w
  BY <1>1 DEF Take
<1>2. CASE wpc[w] # "idle" /\ wjob'[w] = wjob[w]
  <2>1. wjob[w] \in Recipient /\ lock[wjob[w]] = w /\ w # None
    BY <1>2, SetsAssumption DEF RunInv, SoleInv
  <2>2. bull[wjob[w]] = "active"
    BY <2>1 DEF LockInv
  <2>3. UNCHANGED bullVars => lock'[wjob[w]] = w
    BY <2>1 DEF bullVars
  <2>4. ASSUME NEW q \in Request, AddBulk(q)
        PROVE  lock'[wjob[w]] = w
    BY <2>1, <2>4 DEF AddBulk
  <2>5. ASSUME NEW v \in Worker, NEW r \in Recipient, Take(v, r)
        PROVE  lock'[wjob[w]] = w
    BY <2>1, <2>2, <2>5 DEF Take
  <2>6. ASSUME NEW v \in Worker, MoveToCompleted(v) \/ MoveToFailed(v) \/ CrashRun(v)
        PROVE  lock'[wjob[w]] = w
    <3>1. wpc[v] # "idle" /\ wpc'[v] = "idle"
      BY <2>6 DEF MoveToCompleted, MoveToFailed, CrashRun, Release, Goto
    <3>2. v # w
      BY <3>1
    <3>3. wjob[v] # wjob[w]
      BY <1>2, <3>1, <3>2, OneRunEach
    <3> QED
      BY <2>1, <2>6, <3>2, <3>3 DEF MoveToCompleted, MoveToFailed, CrashRun
  <2>7. ASSUME NEW r \in Recipient, Promote(r) \/ RequeueStalled(r)
        PROVE  lock'[wjob[w]] = w
    BY <2>1, <2>7 DEF Promote, RequeueStalled
  <2>8. \A v \in Worker : ~LoseLock(v)
    BY DEF LoseLock
  <2> QED
    BY <1>2, <2>3, <2>4, <2>5, <2>6, <2>7, <2>8, BullSteps
<1> QED
  BY <1>1, <1>2, RunSteps

\* A run keeps the stage of its log.
LEMMA StepStage ==
  ASSUME Types, RunInv, QueuedIsPersisted, SoleInv, StageInv,
         Faults \subseteq {"api", "crash"}, [Next]_vars
  PROVE  StageInv'
<1> SUFFICES ASSUME NEW w \in Worker
             PROVE  /\ wpc'[w] \in {"mark", "send", "record"} => log'[wjob'[w]] # "sent"
                    /\ wpc'[w] \in {"count", "ack"} =>
                         log'[wjob'[w]] = IF wok'[w] THEN "sent" ELSE "failed"
  BY DEF StageInv
<1> DEFINE Goal == /\ wpc'[w] \in {"mark", "send", "record"} => log'[wjob'[w]] # "sent"
                   /\ wpc'[w] \in {"count", "ack"} =>
                        log'[wjob'[w]] = IF wok'[w] THEN "sent" ELSE "failed"
<1>1. /\ wpc \in [Worker -> WorkerPC] /\ wjob \in [Worker -> Recipient \cup {None}]
      /\ wok \in [Worker -> BOOLEAN] /\ log \in [Recipient -> LogStatus]
  BY DEF Types
<1>2. wpc[w] # "idle" => wjob[w] \in Recipient /\ log[wjob[w]] # "absent"
  BY DEF RunInv, QueuedIsPersisted
<1>3. CASE wpc'[w] = wpc[w] /\ wjob'[w] = wjob[w] /\ wok'[w] = wok[w]
  <2>1. CASE wpc[w] = "idle"
    BY <1>3, <2>1
  <2>2. CASE wpc[w] # "idle"
    <3>1. ~MarkProcessing(w) /\ ~RecordResult(w)
      BY <1>1, <1>3 DEF MarkProcessing, RecordResult, Goto
    <3>2. log'[wjob[w]] = log[wjob[w]]
      BY <2>2, <3>1, OwnLog
    <3> QED
      BY <1>3, <3>2 DEF StageInv
  <2> QED
    BY <2>1, <2>2
<1>4. ASSUME NEW r \in Recipient, Take(w, r)
      PROVE  Goal
  BY <1>1, <1>4 DEF Take, Goto
<1>5. CASE CheckIdempotency(w)
  BY <1>1, <1>2, <1>5 DEF CheckIdempotency, Goto, Run, WasEmailSent, dbVars
<1>6. CASE MarkProcessing(w)
  BY <1>1, <1>2, <1>6 DEF MarkProcessing, Goto, Run
<1>7. CASE SendAccepted(w) \/ SendRejected(w) \/ SendUnreadable(w)
  BY <1>1, <1>7 DEF SendAccepted, SendRejected, SendUnreadable, Goto, dbVars, StageInv
<1>8. CASE SendThrows(w) \/ SendLost(w)
  BY <1>1, <1>8 DEF SendThrows, SendLost, ThrowToBull, Goto
<1>9. CASE RecordResult(w)
  BY <1>1, <1>2, <1>9 DEF RecordResult, Goto, Run
<1>10. CASE CountResult(w)
  BY <1>1, <1>10 DEF CountResult, Goto, StageInv
<1>11. CASE MoveToCompleted(w) \/ MoveToFailed(w) \/ CrashRun(w)
  BY <1>1, <1>11 DEF MoveToCompleted, MoveToFailed, CrashRun, Release, Goto
<1>12. ~DatabaseError(w)
  BY DEF DatabaseError
<1> QED
  BY <1>1, <1>3, <1>4, <1>5, <1>6, <1>7, <1>8, <1>9, <1>10, <1>11, <1>12, RunMoves
  DEF WorkerStep

\* One run per job, and the stage of its log, in every reachable state.
LEMMA OneRunInvariance ==
  ASSUME Faults \subseteq {"api", "crash"}
  PROVE  Spec => [](IInv /\ SoleInv /\ StageInv)
<1>1. Init => SoleInv /\ StageInv
  BY DEF Init, SoleInv, StageInv
<1>2. IInv /\ SoleInv /\ StageInv /\ [Next]_vars => (SoleInv /\ StageInv)'
  BY StepSole, StepStage, TypesAndLimits, Faults \subseteq {"api", "crash"} DEF IInv, QueueInv
<1> QED
  BY <1>1, <1>2, Invariance, PTL DEF Spec

-----------------------------------------------------------------------------
(***************************************************************************)
(* What a run may do to a sent mail.                                       *)
(***************************************************************************)

\* The idempotency check of the processor: for any number of workers, crashes and
\* retries, a mail whose log says "sent" is not given to the provider again, as
\* long as no lock expires under a run and the database answers.
THEOREM NeverResent ==
  ASSUME Faults \subseteq {"api", "crash"}
  PROVE  Spec => NoResendAfterSent
<1>1. ASSUME IInv, StageInv, [Next]_vars, NEW r \in Recipient, accepted'[r] # accepted[r]
      PROVE  log[r] # "sent"
  <2>1. \E w \in Worker : wpc[w] = "send" /\ wjob[w] = r
    BY <1>1, Mailed, TypesAndLimits DEF IInv
  <2> QED
    BY <1>1, <2>1 DEF StageInv
<1>2. IInv /\ SoleInv /\ StageInv /\ [Next]_vars =>
        [\A r \in Recipient : accepted'[r] # accepted[r] => log[r] # "sent"]_vars
  BY <1>1
<1>3. Spec => [](IInv /\ SoleInv /\ StageInv)
  BY OneRunInvariance, Faults \subseteq {"api", "crash"}
<1> QED
  BY <1>2, <1>3, PTL DEF Spec, NoResendAfterSent

\* The unconditional updates of the processor and of emailLogRepository: under the
\* same faults a row that says "sent" is never written again.
THEOREM SentStays ==
  ASSUME Faults \subseteq {"api", "crash"}
  PROVE  Spec => SentIsFinal
<1>1. ASSUME IInv, SoleInv, StageInv, [Next]_vars, NEW r \in Recipient, log[r] = "sent"
      PROVE  log'[r] = "sent"
  <2>1. \A w \in Worker : wjob[w] = r => ~MarkProcessing(w) /\ ~RecordResult(w)
    BY <1>1 DEF StageInv, MarkProcessing, RecordResult
  <2> QED
    BY <1>1, <2>1, LogWriters, TypesAndLimits DEF IInv
<1>2. IInv /\ SoleInv /\ StageInv /\ [Next]_vars =>
        [\A r \in Recipient : log[r] = "sent" => log'[r] = "sent"]_vars
  BY <1>1
<1>3. Spec => [](IInv /\ SoleInv /\ StageInv)
  BY OneRunInvariance, Faults \subseteq {"api", "crash"}
<1> QED
  BY <1>2, <1>3, PTL DEF Spec, SentIsFinal

\* A job completes with what its run wrote, and its row stays as it is after that.
LEMMA StepAgree ==
  ASSUME Types, LockInv, RunInv, QueuedIsPersisted, SoleInv, StageInv, QueueAndLogAgree,
         [Next]_vars
  PROVE  QueueAndLogAgree'
<1> SUFFICES ASSUME NEW r \in Recipient, bull'[r] = "completed"
             PROVE  log'[r] = IF returned'[r] = "success" THEN "sent" ELSE "failed"
  BY DEF QueueAndLogAgree
<1>1. CASE bull[r] = "completed"
  <2>1. returned'[r] = returned[r]
    BY <1>1, StepFinished DEF Finished
  <2>2. lock[r] = None /\ log[r] # "absent"
    BY <1>1 DEF LockInv, QueuedIsPersisted
  <2>3. \A w \in Worker : wjob[w] = r => wpc[w] = "idle"
    BY <2>2, SetsAssumption DEF SoleInv
  <2>4. \A w \in Worker : wjob[w] = r => ~MarkProcessing(w) /\ ~RecordResult(w)
    BY <2>3 DEF MarkProcessing, RecordResult
  <2>5. log'[r] = log[r]
    BY <2>2, <2>4, LogWriters
  <2> QED
    BY <1>1, <2>1, <2>5 DEF QueueAndLogAgree
<1>2. CASE bull[r] # "completed"
  <2>1. PICK w \in Worker : MoveToCompleted(w) /\ wjob[w] = r
    <3> USE DEF Types, Run
    <3>1. ASSUME NEW q \in Request, AddBulk(q) PROVE FALSE
      BY <1>2, <3>1 DEF AddBulk, BullAdd
    <3>2. ASSUME NEW w \in Worker, NEW s \in Recipient, Take(w, s) PROVE FALSE
      BY <1>2, <3>2 DEF Take
    <3>3. ASSUME NEW w \in Worker, MoveToFailed(w) \/ CrashRun(w) \/ LoseLock(w) PROVE FALSE
      BY <1>2, <3>3 DEF MoveToFailed, CrashRun, LoseLock
    <3>4. ASSUME NEW s \in Recipient, Promote(s) \/ RequeueStalled(s) PROVE FALSE
      BY <1>2, <3>4 DEF Promote, RequeueStalled
    <3>5. ASSUME NEW w \in Worker, MoveToCompleted(w) PROVE wjob[w] = r
      BY <1>2, <3>5 DEF MoveToCompleted
    <3> QED
      BY <1>2, <3>1, <3>2, <3>3, <3>4, <3>5, BullSteps DEF bullVars
  <2>2. log'[r] = log[r] /\ log[r] = IF wok[w] THEN "sent" ELSE "failed"
    BY <2>1 DEF MoveToCompleted, StageInv, dbVars
  <2>3. returned'[r] = IF wok[w] THEN "success" ELSE "failure"
    BY <1>2, <2>1 DEF MoveToCompleted, Types, Run
  <2> QED
    BY <2>2, <2>3
<1> QED
  BY <1>1, <1>2

\* What a completed Bull job returned is what its log row says, which is what
\* reconcileEmailJobs requires: under the same faults, for every configuration.
THEOREM QueueAlwaysAgrees ==
  ASSUME Faults \subseteq {"api", "crash"}
  PROVE  Spec => []QueueAndLogAgree
<1>1. Init => QueueAndLogAgree
  BY DEF Init, QueueAndLogAgree
<1>2. IInv /\ SoleInv /\ StageInv /\ QueueAndLogAgree /\ [Next]_vars => QueueAndLogAgree'
  BY StepAgree, TypesAndLimits DEF IInv, QueueInv
<1>3. Spec => [](IInv /\ SoleInv /\ StageInv)
  BY OneRunInvariance, Faults \subseteq {"api", "crash"}
<1> QED
  BY <1>1, <1>2, <1>3, PTL DEF Spec

-----------------------------------------------------------------------------
(***************************************************************************)
(* A campaign that a poll completes.                                       *)
(***************************************************************************)

\* When no run dies, no row leaves the end it has reached.
LEMMA TerminalStays ==
  ASSUME IInv, FreshInv, [Next]_vars
  PROVE  /\ Terminal \subseteq Terminal'
         /\ Cardinality(Terminal) \in Nat /\ Cardinality(Terminal') \in Nat
         /\ Cardinality(Terminal) <= Cardinality(Terminal')
<1>1. ASSUME NEW r \in Recipient, log[r] \in {"sent", "failed"}
      PROVE  log'[r] \in {"sent", "failed"}
  <2>1. \A w \in Worker : wjob[w] = r => ~MarkProcessing(w)
    BY <1>1 DEF FreshInv, MarkProcessing
  <2> QED
    BY <1>1, <2>1, LogWriters, TypesAndLimits DEF IInv
<1>2. Terminal \subseteq Terminal'
  BY <1>1 DEF Terminal
<1>3. Terminal \in SUBSET Recipient /\ Terminal' \in SUBSET Recipient
  BY DEF Terminal
<1> QED
  BY <1>2, <1>3, SetCount, SetsAssumption

\* The jobs row is written by the two ends of a request, by a run that counts and by a
\* poll.
LEMMA JobWriters ==
  ASSUME [Next]_vars
  PROVE  \/ UNCHANGED job
         \/ \E q \in Request : Persist(q) \/ StartProcessing(q)
         \/ \E w \in Worker : CountResult(w)
         \/ PollSync
<1> USE DEF dbVars
<1>1. ASSUME NEW q \in Request
      PROVE  /\ (\E list \in Lists, p \in Payload : Post(q, list, p)) => UNCHANGED job
             /\ LookupChunk(q) \/ AddBulk(q) \/ AbortRequest(q) => UNCHANGED job
  BY DEF Post, LookupChunk, AddBulk, AbortRequest
<1>2. ASSUME NEW w \in Worker
      PROVE  /\ (\E r \in Recipient : Take(w, r)) => UNCHANGED job
             /\ CheckIdempotency(w) \/ MarkProcessing(w) \/ SendAccepted(w) \/ SendRejected(w)
                  \/ SendUnreadable(w) \/ SendThrows(w) \/ SendLost(w) => UNCHANGED job
             /\ RecordResult(w) \/ DatabaseError(w) \/ MoveToCompleted(w) \/ MoveToFailed(w)
                  \/ CrashRun(w) \/ LoseLock(w) => UNCHANGED job
  BY DEF Take, CheckIdempotency, MarkProcessing, SendAccepted, SendRejected, SendUnreadable,
         SendThrows, SendLost, ThrowToBull, RecordResult, DatabaseError, MoveToCompleted,
         MoveToFailed, CrashRun, LoseLock
<1>3. ASSUME NEW r \in Recipient
      PROVE  Promote(r) \/ RequeueStalled(r) => UNCHANGED job
  BY DEF Promote, RequeueStalled
<1>4. PollRead \/ UNCHANGED vars => UNCHANGED job
  BY DEF PollRead, vars
<1> QED
  BY <1>1, <1>2, <1>3, <1>4 DEF Next, Handle, WorkerStep

\* The row of a campaign is completed by a poll only, and keeps its number of
\* recipients.
LEMMA JobSteps ==
  ASSUME Types, [Next]_vars
  PROVE  /\ job.status # "none" => job'.valid = job.valid
         /\ job'.status = "completed" => job.status = "completed" \/ PollSync
<1> DEFINE Goal == /\ job.status # "none" => job'.valid = job.valid
                   /\ job'.status = "completed" => job.status = "completed" \/ PollSync
<1> USE DEF Types, JobRow
<1>1. UNCHANGED job => Goal
  OBVIOUS
<1>2. ASSUME NEW q \in Request
      PROVE  Persist(q) \/ StartProcessing(q) => Goal
  BY DEF Persist, CreateJob, StartProcessing, dbVars
<1>3. ASSUME NEW w \in Worker
      PROVE  CountResult(w) => Goal
  BY DEF CountResult
<1>4. PollSync => Goal
  BY DEF PollSync
<1> QED
  BY <1>1, <1>2, <1>3, <1>4, JobWriters

\* Its counters only grow when a run counts, and then by one.
LEMMA CountSteps ==
  ASSUME Types, [Next]_vars
  PROVE  \/ job'.completed + job'.failed <= job.completed + job.failed
         \/ /\ \E w \in Worker : CountResult(w)
            /\ job'.completed + job'.failed = job.completed + job.failed + 1
<1> DEFINE Kept == job'.completed = job.completed /\ job'.failed = job.failed
<1>1. job.completed \in Nat /\ job.failed \in Nat
  BY DEF Types, JobRow
<1>2. UNCHANGED job => Kept
  OBVIOUS
<1>3. ASSUME NEW q \in Request, Persist(q)
      PROVE  Kept \/ (job'.completed = 0 /\ job'.failed = 0)
  BY <1>3 DEF Persist, CreateJob, dbVars
<1>4. \A status : job' = [job EXCEPT !.status = status] => Kept
  BY DEF Types, JobRow
<1>5. PollSync \/ (\E q \in Request : StartProcessing(q)) => Kept
  BY <1>4 DEF PollSync, StartProcessing
<1>6. ASSUME NEW w \in Worker, CountResult(w)
      PROVE  \/ job'.completed = job.completed + 1 /\ job'.failed = job.failed
             \/ job'.completed = job.completed /\ job'.failed = job.failed + 1
  BY <1>6 DEF CountResult, Types, JobRow
<1>7. ASSUME Kept \/ (job'.completed = 0 /\ job'.failed = 0)
      PROVE  job'.completed + job'.failed <= job.completed + job.failed
  BY <1>1, <1>7
<1>8. ASSUME NEW w \in Worker, CountResult(w)
      PROVE  job'.completed + job'.failed = job.completed + job.failed + 1
  BY <1>1, <1>6, <1>8
<1> HIDE DEF Kept
<1> QED
  BY <1>2, <1>3, <1>5, <1>7, <1>8, JobWriters

\* Nothing that happened is forgotten: doubts are never withdrawn.
LEMMA DoubtSteps ==
  ASSUME Types, [Next]_vars, NEW r \in Recipient
  PROVE  doubt[r] \in Nat /\ doubt'[r] \in Nat /\ doubt'[r] >= doubt[r]
<1> DEFINE Goal == doubt[r] \in Nat /\ doubt'[r] \in Nat /\ doubt'[r] >= doubt[r]
<1>1. doubt \in [Recipient -> Nat]
  BY DEF Types
<1>2. doubt' = doubt => Goal
  BY <1>1
<1>3. ASSUME NEW s, doubt' = [doubt EXCEPT ![s] = @ + 1]
      PROVE  Goal
  BY <1>1, <1>3
<1> HIDE DEF Goal
<1> USE DEF history
<1>4. ASSUME NEW q \in Request
      PROVE  (\E list \in Lists, p \in Payload : Post(q, list, p)) \/ Handle(q)
               \/ AbortRequest(q) => doubt' = doubt
  BY DEF Handle, Post, Persist, LookupChunk, AddBulk, StartProcessing, AbortRequest
<1>5. ASSUME NEW w \in Worker
      PROVE  /\ (\E s \in Recipient : Take(w, s)) => doubt' = doubt
             /\ CheckIdempotency(w) \/ MarkProcessing(w) \/ SendAccepted(w)
                  \/ SendRejected(w) \/ SendUnreadable(w) \/ SendThrows(w) => doubt' = doubt
             /\ RecordResult(w) \/ CountResult(w) \/ DatabaseError(w)
                  \/ MoveToCompleted(w) \/ MoveToFailed(w) \/ CrashRun(w)
                  \/ LoseLock(w) => doubt' = doubt
             /\ SendLost(w) => doubt' = [doubt EXCEPT ![Run(w)] = @ + 1]
  BY DEF Take, CheckIdempotency, MarkProcessing, SendAccepted, SendRejected,
         SendUnreadable, SendThrows, SendLost, RecordResult, CountResult, DatabaseError,
         MoveToCompleted, MoveToFailed, CrashRun, LoseLock
<1>6. ASSUME NEW s \in Recipient
      PROVE  /\ Promote(s) => doubt' = doubt
             /\ RequeueStalled(s) => doubt' = doubt \/ doubt' = [doubt EXCEPT ![s] = @ + 1]
  BY DEF Promote, RequeueStalled
<1>7. PollRead \/ PollSync \/ UNCHANGED vars => doubt' = doubt
  BY DEF PollRead, PollSync, vars
<1>8. Goal
  BY <1>2, <1>3, <1>4, <1>5, <1>6, <1>7 DEF Next, WorkerStep
<1> QED
  BY <1>8 DEF Goal

\* A poll that is to write "completed" has just found the campaign complete, or was there
\* before.
LEMMA PollSteps ==
  ASSUME [Next]_vars, poll'
  PROVE  poll \/ PollRead
<1>1. ASSUME NEW q \in Request
      PROVE  (\E list \in Lists, p \in Payload : Post(q, list, p)) \/ Handle(q)
               \/ AbortRequest(q) => poll' = poll
  BY DEF Handle, Post, Persist, LookupChunk, AddBulk, StartProcessing, AbortRequest
<1>2. ASSUME NEW w \in Worker
      PROVE  /\ (\E r \in Recipient : Take(w, r)) => poll' = poll
             /\ CheckIdempotency(w) \/ MarkProcessing(w) \/ SendAccepted(w)
                  \/ SendRejected(w) \/ SendUnreadable(w) \/ SendThrows(w)
                  \/ SendLost(w) => poll' = poll
             /\ RecordResult(w) \/ CountResult(w) \/ DatabaseError(w)
                  \/ MoveToCompleted(w) \/ MoveToFailed(w) \/ CrashRun(w)
                  \/ LoseLock(w) => poll' = poll
  BY DEF Take, CheckIdempotency, MarkProcessing, SendAccepted, SendRejected,
         SendUnreadable, SendThrows, SendLost, RecordResult, CountResult, DatabaseError,
         MoveToCompleted, MoveToFailed, CrashRun, LoseLock
<1>3. ASSUME NEW r \in Recipient
      PROVE  Promote(r) \/ RequeueStalled(r) => poll' = poll
  BY DEF Promote, RequeueStalled
<1>4. (PollSync => ~poll') /\ (UNCHANGED vars => poll' = poll)
  BY DEF PollSync, vars
<1> QED
  BY <1>1, <1>2, <1>3, <1>4 DEF Next, WorkerStep

\* A job comes back to the queue from a run that has not recorded a result.
LEMMA StepFreshQueue ==
  ASSUME IInv, SoleInv, FreshInv, Faults \subseteq {"api"}, [Next]_vars, NEW r \in Recipient
  PROVE  /\ bull'[r] \in {"absent", "waiting", "delayed"} => log'[r] \notin {"sent", "failed"}
         /\ bull'[r] = "active" => lock'[r] # None
<1>1. /\ Types /\ LockInv /\ RunInv
      /\ \A w \in Worker : ~CrashRun(w) /\ ~LoseLock(w)
  BY TypesAndLimits DEF IInv, QueueInv, CrashRun, LoseLock
<1>2. ASSUME bull'[r] \in {"absent", "waiting", "delayed"}
      PROVE  log'[r] \notin {"sent", "failed"}
  <2> USE <1>1 DEF Types, Run
  <2>1. CASE bull[r] \in {"absent", "waiting", "delayed"}
    <3>1. log[r] \notin {"sent", "failed"} /\ lock[r] = None
      BY <2>1 DEF FreshInv, LockInv
    <3>2. \A w \in Worker : wjob[w] = r => wpc[w] = "idle"
      BY <3>1, SetsAssumption DEF SoleInv
    <3>3. \A w \in Worker : wjob[w] = r => ~RecordResult(w)
      BY <3>2 DEF RecordResult
    <3> QED
      BY <3>1, <3>3, LogWriters
  <2>2. CASE bull[r] \notin {"absent", "waiting", "delayed"}
    <3>1. ASSUME NEW q \in Request, AddBulk(q) PROVE FALSE
      BY <1>2, <2>2, <3>1 DEF AddBulk, BullAdd
    <3>2. ASSUME NEW w \in Worker, NEW s \in Recipient, Take(w, s) PROVE FALSE
      BY <1>2, <2>2, <3>2 DEF Take
    <3>3. ASSUME NEW w \in Worker, MoveToCompleted(w) PROVE FALSE
      BY <1>2, <2>2, <3>3 DEF MoveToCompleted
    <3>4. ASSUME NEW w \in Worker, MoveToFailed(w)
          PROVE  log'[r] \notin {"sent", "failed"}
      <4>1. wjob[w] = r /\ wpc[w] = "nack" /\ log' = log
        BY <1>2, <2>2, <3>4 DEF MoveToFailed, dbVars
      <4> QED
        BY <4>1 DEF FreshInv
    <3>5. ASSUME NEW s \in Recipient, Promote(s) \/ RequeueStalled(s) PROVE FALSE
      BY <1>2, <2>2, <3>5 DEF Promote, RequeueStalled, FreshInv
    <3>6. ~UNCHANGED bullVars
      BY <1>2, <2>2 DEF bullVars
    <3> QED
      BY <3>1, <3>2, <3>3, <3>4, <3>5, <3>6, BullSteps
  <2> QED
    BY <2>1, <2>2
<1>3. ASSUME bull'[r] = "active"
      PROVE  lock'[r] # None
  <2> USE <1>1, SetsAssumption DEF Types, Run
  <2>1. ASSUME NEW q \in Request, AddBulk(q) PROVE lock'[r] # None
    BY <1>3, <2>1 DEF AddBulk, BullAdd, FreshInv
  <2>2. ASSUME NEW w \in Worker, NEW s \in Recipient, Take(w, s) PROVE lock'[r] # None
    BY <1>3, <2>2 DEF Take, FreshInv
  <2>3. ASSUME NEW w \in Worker, MoveToCompleted(w) \/ MoveToFailed(w)
        PROVE  lock'[r] # None
    <3>1. wpc[w] # "idle" /\ HoldsLock(w) /\ wjob[w] \in Recipient
      BY <2>3 DEF MoveToCompleted, MoveToFailed, SoleInv, RunInv, HoldsLock
    <3>2. wjob[w] # r /\ bull'[r] = bull[r] /\ lock'[r] = lock[r]
      BY <1>3, <2>3, <3>1 DEF MoveToCompleted, MoveToFailed
    <3> QED
      BY <1>3, <3>2 DEF FreshInv
  <2>4. ASSUME NEW s \in Recipient, Promote(s) \/ RequeueStalled(s) PROVE lock'[r] # None
    BY <1>3, <2>4 DEF Promote, RequeueStalled, FreshInv
  <2>5. UNCHANGED bullVars => lock'[r] # None
    BY <1>3 DEF bullVars, FreshInv
  <2> QED
    BY <2>1, <2>2, <2>3, <2>4, <2>5, BullSteps
<1> QED
  BY <1>2, <1>3

\* A run that has not recorded a result finds none.
LEMMA StepFreshRun ==
  ASSUME IInv, SoleInv, FreshInv, Faults \subseteq {"api"}, [Next]_vars, NEW w \in Worker,
         wpc'[w] \in {"check", "mark", "send", "record", "nack"}
  PROVE  log'[wjob'[w]] \notin {"sent", "failed"}
<1>1. /\ wpc \in [Worker -> WorkerPC] /\ wjob \in [Worker -> Recipient \cup {None}]
      /\ log \in [Recipient -> LogStatus] /\ Types /\ RunInv /\ QueuedIsPersisted
  BY TypesAndLimits DEF IInv, TypeOK
<1>2. ASSUME NEW r \in Recipient, Take(w, r)
      PROVE  log'[wjob'[w]] \notin {"sent", "failed"}
  BY <1>1, <1>2 DEF Take, FreshInv, dbVars
<1>3. CASE wpc[w] \in {"check", "mark", "send", "record", "nack"} /\ wjob'[w] = wjob[w]
  <2>1. log[wjob[w]] \notin {"sent", "failed"} /\ wjob[w] \in Recipient
    BY <1>1, <1>3 DEF FreshInv, RunInv
  <2>2. CASE RecordResult(w)
    BY <1>1, <2>2 DEF RecordResult, Goto
  <2>3. CASE MarkProcessing(w)
    BY <1>1, <1>3, <2>1, <2>3 DEF MarkProcessing, Run
  <2>4. CASE ~RecordResult(w) /\ ~MarkProcessing(w)
    BY <1>1, <1>3, <2>1, <2>4, OwnLog
  <2> QED
    BY <2>2, <2>3, <2>4
<1>4. CASE wpc'[w] = wpc[w] /\ wjob'[w] = wjob[w]
  BY <1>3, <1>4
<1>5. CASE WorkerStep(w)
  <2>1. CheckIdempotency(w) \/ MarkProcessing(w) => wpc[w] \in {"check", "mark"} /\ wjob' = wjob
    BY DEF CheckIdempotency, MarkProcessing
  <2>2. SendAccepted(w) \/ SendRejected(w) \/ SendUnreadable(w) \/ SendThrows(w) \/ SendLost(w)
          => wpc[w] = "send" /\ wjob' = wjob
    BY DEF SendAccepted, SendRejected, SendUnreadable, SendThrows, SendLost
  <2>3. ~RecordResult(w) /\ ~CountResult(w) /\ ~MoveToCompleted(w) /\ ~MoveToFailed(w)
    BY <1>1 DEF RecordResult, CountResult, MoveToCompleted, MoveToFailed, Release, Goto
  <2> QED
    BY <1>3, <1>5, <2>1, <2>2, <2>3 DEF WorkerStep
<1>6. ~DatabaseError(w) /\ ~CrashRun(w)
  BY DEF DatabaseError, CrashRun
<1> QED
  BY <1>1, <1>2, <1>4, <1>5, <1>6, RunMoves

\* A poll read a row of this campaign, and what it counted stays.
LEMMA StepPoll ==
  ASSUME IInv, FreshInv, CompletedIsTruthful, [Next]_vars
  PROVE  /\ poll' => job'.status # "none" /\ Cardinality(Terminal') >= job'.valid
         /\ CompletedIsTruthful'
<1>1. Types /\ job.valid \in Nat
  BY TypesAndLimits DEF IInv, TypeOK, JobRow
<1>2. ASSUME Cardinality(Terminal) >= job.valid, job'.valid = job.valid
      PROVE  Cardinality(Terminal') >= job'.valid
  BY <1>1, <1>2, TerminalStays
<1>3. ASSUME poll'
      PROVE  job'.status # "none" /\ Cardinality(Terminal') >= job'.valid
  <2>1. poll \/ PollRead
    BY <1>3, PollSteps
  <2>2. CASE poll
    BY <1>1, <1>2, <2>2, JobStays, JobSteps DEF FreshInv
  <2>3. CASE PollRead
    BY <1>1, <2>3 DEF PollRead, IsComplete, Terminal, dbVars
  <2> QED
    BY <2>1, <2>2, <2>3
<1>4. ASSUME job'.status = "completed"
      PROVE  Cardinality(Terminal') >= job'.valid
  <2>1. CASE job.status = "completed"
    BY <1>1, <1>2, <2>1, JobSteps DEF CompletedIsTruthful
  <2>2. CASE PollSync
    <3>1. job.status # "none" /\ Cardinality(Terminal) >= job.valid
      BY <2>2 DEF PollSync, FreshInv
    <3> QED
      BY <1>1, <1>2, <3>1, JobSteps
  <2> QED
    BY <1>1, <1>4, <2>1, <2>2, JobSteps
<1>5. CompletedIsTruthful'
  BY <1>4 DEF CompletedIsTruthful
<1> QED
  BY <1>3, <1>5

\* A poll writes "completed" in a later statement than the one that counted: as long
\* as no run dies or loses its database, what it counted is still so, for any number
\* of requests, workers and answers of the provider.
THEOREM CompletedIsAlwaysTruthful ==
  ASSUME Faults \subseteq {"api"}
  PROVE  Spec => []CompletedIsTruthful
<1>1. Init => SoleInv /\ FreshInv /\ CompletedIsTruthful
  BY DEF Init, SoleInv, FreshInv, CompletedIsTruthful, NoJob
<1>2. ASSUME IInv, SoleInv, FreshInv, CompletedIsTruthful, [Next]_vars
      PROVE  (SoleInv /\ FreshInv /\ CompletedIsTruthful)'
  <2>1. SoleInv'
    BY <1>2, StepSole, TypesAndLimits, Faults \subseteq {"api"} DEF IInv, QueueInv
  <2>2. \A r \in Recipient :
          /\ bull'[r] \in {"absent", "waiting", "delayed"} => log'[r] \notin {"sent", "failed"}
          /\ bull'[r] = "active" => lock'[r] # None
    BY <1>2, StepFreshQueue, Faults \subseteq {"api"}
  <2>3. \A w \in Worker : wpc'[w] \in {"check", "mark", "send", "record", "nack"} =>
                            log'[wjob'[w]] \notin {"sent", "failed"}
    BY <1>2, StepFreshRun, Faults \subseteq {"api"}
  <2>4. /\ poll' => job'.status # "none" /\ Cardinality(Terminal') >= job'.valid
        /\ CompletedIsTruthful'
    BY <1>2, StepPoll
  <2> QED
    BY <2>1, <2>2, <2>3, <2>4 DEF FreshInv
<1> QED
  BY <1>1, <1>2, Invariance, PTL DEF Spec

-----------------------------------------------------------------------------
(***************************************************************************)
(* Work runs out: what JobsSettle rests on, for every number of jobs, of   *)
(* attempts and of stalls, and every fault.  A job that is active has a    *)
(* run or is found without a lock, and every move of Bull and every step   *)
(* of a run uses up something that nothing gives back.                     *)
(***************************************************************************)

\* A lock is held by a run at work on the job.
HeldInv ==
  \A r \in Recipient : lock[r] # None => /\ lock[r] \in Worker
                                         /\ wpc[lock[r]] # "idle" /\ wjob[lock[r]] = r

\* A lock stays where it was, or is taken by a run that starts.
LEMMA LockMoves ==
  ASSUME Types, [Next]_vars, NEW r \in Recipient, lock'[r] # None
  PROVE  lock'[r] = lock[r] \/ \E w \in Worker : Take(w, r) /\ lock'[r] = w
<1> DEFINE Goal == lock'[r] = lock[r] \/ \E w \in Worker : Take(w, r) /\ lock'[r] = w
<1>1. lock \in [Recipient -> Worker \cup {None}]
  BY DEF Types
<1>2. UNCHANGED lock => Goal
  OBVIOUS
<1>3. ASSUME NEW q \in Request, AddBulk(q)
      PROVE  UNCHANGED lock
  BY <1>3 DEF AddBulk, bullVars
<1>4. ASSUME NEW w \in Worker, NEW s \in Recipient, Take(w, s)
      PROVE  Goal
  BY <1>1, <1>4 DEF Take
<1>5. ASSUME NEW w \in Worker, MoveToCompleted(w) \/ MoveToFailed(w) \/ LoseLock(w)
      PROVE  lock'[r] = lock[r]
  <2>1. lock' = lock \/ lock' = [lock EXCEPT ![Run(w)] = None]
    BY <1>5 DEF MoveToCompleted, MoveToFailed, LoseLock
  <2> QED
    BY <1>1, <2>1
<1>6. ASSUME NEW w \in Worker, CrashRun(w)
      PROVE  lock'[r] = lock[r]
  BY <1>6 DEF CrashRun
<1>7. ASSUME NEW s \in Recipient, Promote(s) \/ RequeueStalled(s)
      PROVE  UNCHANGED lock
  BY <1>7 DEF Promote, RequeueStalled
<1> HIDE DEF Goal
<1>8. Goal
  BY <1>2, <1>3, <1>4, <1>5, <1>6, <1>7, BullSteps DEF bullVars, Goal
<1> QED
  BY <1>8 DEF Goal

\* A run that ends gives the lock up, whichever way it ends.
LEMMA StepHeld ==
  ASSUME Types, HeldInv, [Next]_vars
  PROVE  HeldInv'
<1> SUFFICES ASSUME NEW r \in Recipient, lock'[r] # None
             PROVE  /\ lock'[r] \in Worker
                    /\ wpc'[lock'[r]] # "idle" /\ wjob'[lock'[r]] = r
  BY DEF HeldInv
<1> USE DEF Types, Goto, Run
<1>1. ASSUME NEW w \in Worker, Take(w, r), lock'[r] = w
      PROVE  wpc'[w] # "idle" /\ wjob'[w] = r
  BY <1>1 DEF Take
<1>2. ASSUME NEW w \in Worker, lock[r] = w, lock'[r] = w
      PROVE  wpc'[w] # "idle" /\ wjob'[w] = r
  <2>1. wpc[w] # "idle" /\ wjob[w] = r /\ w # None
    BY <1>2, SetsAssumption DEF HeldInv
  <2>2. ~MoveToCompleted(w) /\ ~MoveToFailed(w) /\ ~CrashRun(w)
    BY <1>2, <2>1 DEF MoveToCompleted, MoveToFailed, CrashRun, HoldsLock
  <2>3. ~\E s \in Recipient : Take(w, s)
    BY <2>1 DEF Take
  <2>4. CASE wpc'[w] = wpc[w] /\ wjob'[w] = wjob[w]
    BY <2>1, <2>4
  <2>5. CASE DatabaseError(w)
    BY <2>1, <2>5 DEF DatabaseError, AfterDatabaseError
  <2>6. CASE CheckIdempotency(w) \/ MarkProcessing(w) \/ RecordResult(w) \/ CountResult(w)
    BY <2>1, <2>6 DEF CheckIdempotency, MarkProcessing, RecordResult, CountResult
  <2>7. CASE SendAccepted(w) \/ SendRejected(w) \/ SendUnreadable(w) \/ SendThrows(w)
               \/ SendLost(w)
    BY <2>1, <2>7 DEF SendAccepted, SendRejected, SendUnreadable, SendThrows, SendLost,
                      ThrowToBull
  <2> HIDE DEF Types, Goto, Run
  <2> QED
    BY <2>2, <2>3, <2>4, <2>5, <2>6, <2>7, RunMoves DEF WorkerStep
<1>3. lock'[r] = lock[r] => lock[r] \in Worker
  OBVIOUS
<1> HIDE DEF Types, Goto, Run
<1> QED
  BY <1>1, <1>2, <1>3, LockMoves

\* What Bull has left of moves for a job is a number.
LEMMA MovesType ==
  ASSUME Limits, NEW r \in Recipient
  PROVE  Moves(r) \in Nat
<1>1. /\ attemptsMade[r] \in 0 .. MaxAttempts /\ stalled[r] \in 0 .. MaxStalled + 1
      /\ MaxAttempts \in Nat /\ MaxStalled \in Nat
  BY BoundsAssumption DEF Limits
<1> QED
  BY <1>1 DEF Moves

\* Each move of a job is the end of a delay, a start, or paid with an attempt or a stall.
LEMMA StepMoves ==
  ASSUME Types, Limits, Limits', LockInv, RunInv, [Next]_vars,
         NEW r \in Recipient, bull[r] # "absent"
  PROVE  \/ bull'[r] = bull[r] /\ Moves(r)' = Moves(r)
         \/ Moves(r)' \in 0 .. Moves(r) - 1
<1> DEFINE Goal == \/ bull'[r] = bull[r] /\ Moves(r)' = Moves(r)
                   \/ Moves(r)' \in 0 .. Moves(r) - 1
           Kept == UNCHANGED <<bull[r], attemptsMade[r], stalled[r]>>
           Paid == \/ /\ bull[r] = "delayed" /\ bull'[r] = "waiting"
                      /\ UNCHANGED <<attemptsMade[r], stalled[r]>>
                   \/ /\ bull[r] = "waiting" /\ bull'[r] = "active"
                      /\ UNCHANGED <<attemptsMade[r], stalled[r]>>
                   \/ /\ bull[r] = "active" /\ bull'[r] = "completed"
                      /\ UNCHANGED <<attemptsMade[r], stalled[r]>>
                   \/ /\ bull[r] = "active" /\ bull'[r] \in {"delayed", "failed"}
                      /\ attemptsMade'[r] = attemptsMade[r] + 1 /\ UNCHANGED stalled[r]
                   \/ /\ bull[r] = "active" /\ bull'[r] \in {"waiting", "failed"}
                      /\ stalled'[r] = stalled[r] + 1 /\ UNCHANGED attemptsMade[r]
<1>1. Moves(r) \in Nat /\ Moves(r)' \in Nat
  BY MovesType, BoundsAssumption DEF Limits, Moves
<1>2. /\ attemptsMade[r] \in Nat /\ attemptsMade'[r] \in Nat
      /\ stalled[r] \in Nat /\ stalled'[r] \in Nat
      /\ MaxAttempts \in Nat /\ MaxStalled \in Nat
  BY BoundsAssumption DEF Limits
<1>3. Kept => Goal
  BY DEF Moves
<1>4. Paid => Goal
  BY <1>1, <1>2 DEF Moves
<1> USE DEF Types, Run
<1>5. UNCHANGED bullVars => Kept
  BY DEF bullVars
<1>6. ASSUME NEW q \in Request, AddBulk(q)
      PROVE  Kept
  BY <1>6 DEF AddBulk, BullAdd, bullVars
<1>7. ASSUME NEW w \in Worker, NEW s \in Recipient, Take(w, s)
      PROVE  Kept \/ Paid
  BY <1>7 DEF Take
<1>8. ASSUME NEW w \in Worker, MoveToCompleted(w)
      PROVE  Kept \/ Paid
  BY <1>8, SetsAssumption DEF MoveToCompleted, HoldsLock, LockInv
<1>9. ASSUME NEW w \in Worker, MoveToFailed(w)
      PROVE  Kept \/ Paid
  <2>1. wjob[w] \in Recipient
    BY <1>9 DEF MoveToFailed, RunInv
  <2>2. CASE HoldsLock(w) /\ wjob[w] = r
    <3>1. bull[r] = "active"
      BY <2>2, SetsAssumption DEF HoldsLock, LockInv
    <3>2. /\ bull'[r] \in {"delayed", "failed"} /\ attemptsMade'[r] = attemptsMade[r] + 1
          /\ stalled' = stalled
      BY <1>9, <2>2 DEF MoveToFailed, ChargeAttempt
    <3> QED
      BY <3>1, <3>2
  <2>3. CASE ~HoldsLock(w) \/ wjob[w] # r
    BY <1>9, <2>1, <2>3 DEF MoveToFailed
  <2> QED
    BY <2>2, <2>3
<1>10. ASSUME NEW w \in Worker, CrashRun(w) \/ LoseLock(w)
       PROVE  Kept
  BY <1>10 DEF CrashRun, LoseLock
<1>11. ASSUME NEW s \in Recipient, Promote(s) \/ RequeueStalled(s)
       PROVE  Kept \/ Paid
  BY <1>11 DEF Promote, RequeueStalled
<1> HIDE DEF Kept, Paid, Goal
<1>12. Goal
  BY <1>3, <1>4, <1>5, <1>6, <1>7, <1>8, <1>9, <1>10, <1>11, BullSteps
<1> QED
  BY <1>12 DEF Goal

\* A run that has its job goes on to a later step of the processor, or ends.
LEMMA RunGoesOn ==
  ASSUME Types, [Next]_vars, NEW w \in Worker, wpc[w] # "idle"
  PROVE  wpc'[w] = wpc[w] \/ StepsOf[wpc'[w]] < StepsOf[wpc[w]]
<1> USE DEF Types, Goto, StepsOf
<1>1. CASE wpc'[w] = wpc[w]
  BY <1>1
<1>2. ~\E r \in Recipient : Take(w, r)
  BY DEF Take
<1>3. CASE CheckIdempotency(w) \/ MarkProcessing(w)
  BY <1>3 DEF CheckIdempotency, MarkProcessing
<1>4. CASE RecordResult(w) \/ CountResult(w)
  BY <1>4 DEF RecordResult, CountResult
<1>5. CASE SendAccepted(w) \/ SendRejected(w) \/ SendUnreadable(w) \/ SendThrows(w)
             \/ SendLost(w)
  BY <1>5 DEF SendAccepted, SendRejected, SendUnreadable, SendThrows, SendLost, ThrowToBull
<1>6. CASE DatabaseError(w)
  BY <1>6 DEF DatabaseError, AfterDatabaseError
<1>7. CASE MoveToCompleted(w) \/ MoveToFailed(w) \/ CrashRun(w)
  <2>1. wpc'[w] = "idle" /\ wpc[w] \in WorkerPC
    BY <1>7 DEF MoveToCompleted, MoveToFailed, CrashRun, Release
  <2> QED
    BY <2>1 DEF WorkerPC
<1> HIDE DEF Types, Goto, StepsOf
<1> QED
  BY <1>1, <1>2, <1>3, <1>4, <1>5, <1>6, <1>7, RunMoves DEF WorkerStep

\* No job is lost between Bull and the runs: an active one is held by a run that is at
\* work on it, or it has no lock and the check for stalled jobs finds it.
THEOREM NeverLost == Spec => []NeverStranded
<1>1. Init => HeldInv
  BY DEF Init, HeldInv
<1>2. IInv /\ HeldInv /\ [Next]_vars => HeldInv'
  BY StepHeld, TypesAndLimits DEF IInv
<1>3. HeldInv => NeverStranded
  BY DEF HeldInv, NeverStranded
<1> QED
  BY <1>1, <1>2, <1>3, Invariance, PTL DEF Spec

\* No job goes round for ever: whatever crashes, expires or is refused, Bull has only so many
\* moves for a job, three for each attempt and each stall it may still charge and those of
\* its last round, and a run takes at most six steps.
THEOREM WorkAlwaysRunsOut == Spec => WorkRunsOut
<1> DEFINE Wears ==
      /\ \A r \in Recipient :
           bull[r] # "absent" => \/ bull'[r] = bull[r] /\ Moves(r)' = Moves(r)
                                 \/ Moves(r)' \in 0 .. Moves(r) - 1
      /\ \A w \in Worker :
           wpc[w] # "idle" => wpc'[w] = wpc[w] \/ StepsOf[wpc'[w]] < StepsOf[wpc[w]]
<1>1. ASSUME IInv, [Next]_vars
      PROVE  Wears
  <2>1. Types /\ Limits /\ Limits' /\ LockInv /\ RunInv
    BY <1>1, StepQueue, TypesAndLimits DEF IInv, QueueInv
  <2> QED
    BY <1>1, <2>1, StepMoves, RunGoesOn
<1>2. IInv /\ [Next]_vars => [Wears]_vars
  BY <1>1
<1> QED
  BY <1>2, Invariance, PTL DEF Spec, WorkRunsOut

-----------------------------------------------------------------------------
(***************************************************************************)
(* The campaign keeps the promise of MailPromise.                          *)
(***************************************************************************)

\* What is recorded or reported as sent, or is about to be, was mailed.
SuccessInv ==
  /\ \A w \in Worker : wok[w] => wpc[w] # "idle" /\ accepted[wjob[w]] > 0
  /\ \A r \in Recipient : log[r] = "sent" \/ returned[r] = "success" => accepted[r] > 0

\* A refusal leaves no mail but those of unknown outcomes, for whoever refuses has spent
\* its part of the budget on it.
Refusing(w, r) == wjob[w] = r /\ wpc[w] \in {"record", "count", "ack"} /\ ~wok[w]
RefusedAlready(r) == bull[r] = "completed" /\ returned[r] = "failure"
RefusalInv ==
  "unreadable" \notin Outcomes =>
    \A r \in Recipient :
      RefusedAlready(r) \/ (\E w \in Worker : Refusing(w, r)) =>
        accepted[r] + Cardinality(Pending(r)) + Waiting(r) <= doubt[r]

\* A job that Bull has completed has returned something.
ReturnInv == \A r \in Recipient : bull[r] = "completed" => returned[r] # "none"

\* What clients were told, the mails and the doubts change only in these steps.
LEMMA HistorySteps ==
  ASSUME [Next]_vars
  PROVE  \/ UNCHANGED history
         \/ \E q \in Request : Persist(q) \/ StartProcessing(q)
         \/ \E w \in Worker : SendAccepted(w) \/ SendUnreadable(w) \/ SendLost(w)
         \/ \E r \in Recipient : RequeueStalled(r)
<1> USE DEF history
<1>1. ASSUME NEW q \in Request
      PROVE  /\ (\E list \in Lists, p \in Payload : Post(q, list, p)) => UNCHANGED history
             /\ LookupChunk(q) \/ AddBulk(q) \/ AbortRequest(q) => UNCHANGED history
  BY DEF Post, LookupChunk, AddBulk, AbortRequest
<1>2. ASSUME NEW w \in Worker
      PROVE  /\ (\E r \in Recipient : Take(w, r)) => UNCHANGED history
             /\ CheckIdempotency(w) \/ MarkProcessing(w) \/ SendRejected(w) \/ SendThrows(w)
                  => UNCHANGED history
             /\ RecordResult(w) \/ CountResult(w) \/ MoveToCompleted(w) \/ MoveToFailed(w)
                  => UNCHANGED history
             /\ DatabaseError(w) \/ CrashRun(w) \/ LoseLock(w) => UNCHANGED history
  BY DEF Take, CheckIdempotency, MarkProcessing, SendRejected, SendThrows, RecordResult,
         CountResult, MoveToCompleted, MoveToFailed, DatabaseError, CrashRun, LoseLock
<1>3. ASSUME NEW r \in Recipient
      PROVE  Promote(r) => UNCHANGED history
  BY DEF Promote
<1>4. PollRead \/ PollSync \/ UNCHANGED vars => UNCHANGED history
  BY DEF PollRead, PollSync, vars
<1> QED
  BY <1>1, <1>2, <1>3, <1>4 DEF Next, Handle, WorkerStep

\* No mail is taken back.
LEMMA MailsStay ==
  ASSUME Types, [Next]_vars, NEW r \in Recipient
  PROVE  accepted[r] \in Nat /\ accepted'[r] \in Nat /\ accepted'[r] >= accepted[r]
<1> USE DEF Types, history
<1>1. ASSUME NEW w \in Worker, SendAccepted(w) \/ SendUnreadable(w) \/ SendLost(w)
      PROVE  accepted' = [accepted EXCEPT ![Run(w)] = @ + 1]
  BY <1>1 DEF SendAccepted, SendUnreadable, SendLost
<1>2. ASSUME NEW q \in Request, Persist(q) \/ StartProcessing(q)
      PROVE  accepted' = accepted
  BY <1>2 DEF Persist, StartProcessing
<1>3. ASSUME NEW s \in Recipient, RequeueStalled(s)
      PROVE  accepted' = accepted
  BY <1>3 DEF RequeueStalled
<1> QED
  BY <1>1, <1>2, <1>3, HistorySteps

\* Who has sent keeps the mail it sent, and reports success for nothing else.
LEMMA StepSuccess ==
  ASSUME Types, Types', RunInv, SuccessInv, [Next]_vars
  PROVE  SuccessInv'
<1> USE DEF Types
<1>1. \A r \in Recipient : accepted[r] > 0 => accepted'[r] > 0
  BY MailsStay
<1>2. ASSUME NEW w \in Worker, wok'[w]
      PROVE  wpc'[w] # "idle" /\ accepted'[wjob'[w]] > 0
  <2>1. CASE wok[w] /\ wjob'[w] = wjob[w] /\ wpc'[w] # "idle"
    BY <1>1, <2>1 DEF SuccessInv, RunInv
  <2>2. CASE wpc'[w] = wpc[w] /\ wjob'[w] = wjob[w] /\ wok'[w] = wok[w]
    BY <1>1, <1>2, <2>2 DEF SuccessInv, RunInv
  <2>3. ASSUME NEW r \in Recipient, Take(w, r)
        PROVE  FALSE
    BY <1>2, <2>3 DEF Take, SuccessInv
  <2>4. CASE CheckIdempotency(w)
    <3>1. wpc'[w] # "idle" /\ wjob'[w] = wjob[w] /\ wjob[w] \in Recipient
      BY <2>4 DEF CheckIdempotency, Goto, RunInv
    <3>2. wok[w] \/ log[wjob[w]] = "sent"
      BY <1>2, <2>4 DEF CheckIdempotency, WasEmailSent, Run
    <3>3. accepted[wjob[w]] > 0
      BY <3>1, <3>2 DEF SuccessInv
    <3> QED
      BY <1>1, <3>1, <3>3
  <2>5. CASE SendAccepted(w)
    <3>1. /\ wpc'[w] # "idle" /\ wjob'[w] = wjob[w] /\ wjob[w] \in Recipient
          /\ accepted' = [accepted EXCEPT ![wjob[w]] = @ + 1]
      BY <2>5 DEF SendAccepted, Goto, RunInv, Run
    <3>2. accepted[wjob[w]] \in Nat /\ accepted'[wjob[w]] = accepted[wjob[w]] + 1
      BY <3>1
    <3> QED
      BY <3>1, <3>2
  <2>6. CASE \/ MarkProcessing(w) \/ SendRejected(w) \/ SendUnreadable(w) \/ SendThrows(w)
             \/ SendLost(w) \/ RecordResult(w) \/ CountResult(w) \/ DatabaseError(w)
    <3>1. wok' = wok /\ wjob' = wjob /\ wpc'[w] # "idle"
      BY <2>6 DEF MarkProcessing, SendRejected, SendUnreadable, SendThrows, SendLost,
                  ThrowToBull, RecordResult, CountResult, DatabaseError,
                  AfterDatabaseError, Goto
    <3> QED
      BY <1>2, <2>1, <3>1
  <2>7. CASE MoveToCompleted(w) \/ MoveToFailed(w) \/ CrashRun(w)
    BY <1>2, <2>7 DEF MoveToCompleted, MoveToFailed, CrashRun, Release
  <2> QED
    BY <2>2, <2>3, <2>4, <2>5, <2>6, <2>7, RunMoves DEF WorkerStep
<1>3. ASSUME NEW r \in Recipient, log'[r] = "sent"
      PROVE  accepted'[r] > 0
  <2>1. CASE log[r] = "sent"
    BY <1>1, <2>1 DEF SuccessInv
  <2>2. ASSUME NEW w \in Worker, wjob[w] = r, RecordResult(w), log[r] # "sent"
        PROVE  accepted[r] > 0
    BY <1>3, <2>2 DEF RecordResult, SuccessInv, Run
  <2> QED
    BY <1>1, <1>3, <2>1, <2>2, LogWriters
<1>4. ASSUME NEW r \in Recipient, returned'[r] = "success"
      PROVE  accepted'[r] > 0
  <2>1. CASE returned[r] = "success"
    BY <1>1, <2>1 DEF SuccessInv
  <2>2. ASSUME NEW w \in Worker, MoveToCompleted(w), returned[r] # "success"
        PROVE  accepted[r] > 0
    BY <1>4, <2>2 DEF MoveToCompleted, SuccessInv, Run
  <2>3. returned' = returned \/ \E w \in Worker : MoveToCompleted(w)
    BY BullSteps DEF bullVars, AddBulk, Take, MoveToFailed, CrashRun, LoseLock, Promote,
                     RequeueStalled
  <2> QED
    BY <1>1, <1>4, <2>1, <2>2, <2>3
<1> QED
  BY <1>2, <1>3, <1>4 DEF SuccessInv

\* Who refuses has just given its mail up, or refused before.
LEMMA StepRefusal ==
  ASSUME Types, Types', RunInv, BudgetInv, RefusalInv, [Next]_vars
  PROVE  RefusalInv'
<1> DEFINE Spent(r) == accepted[r] + Cardinality(Pending(r)) + Waiting(r) <= doubt[r]
<1> SUFFICES ASSUME "unreadable" \notin Outcomes, NEW r \in Recipient,
                    RefusedAlready(r)' \/ \E w \in Worker : Refusing(w, r)'
             PROVE  Spent(r)'
  BY DEF RefusalInv
<1> USE DEF Types
<1>1. /\ accepted[r] \in Nat /\ accepted'[r] \in Nat
      /\ doubt[r] \in Nat /\ doubt'[r] \in Nat
      /\ Waiting(r) \in {0, 1} /\ Waiting(r)' \in {0, 1}
      /\ Cardinality(Pending(r)) \in Nat /\ Cardinality(Pending(r)') \in Nat
  BY RunCount DEF Waiting, Pending
<1>2. ASSUME bull[r] # "absent", Spent(r)
      PROVE  Spent(r)'
  BY <1>1, <1>2, StepLoad
<1>3. RefusedAlready(r) => bull[r] # "absent"
  BY DEF RefusedAlready
<1>4. \A w \in Worker : Refusing(w, r) => bull[r] # "absent"
  BY DEF Refusing, RunInv
<1>5. ASSUME RefusedAlready(r) \/ \E w \in Worker : Refusing(w, r)
      PROVE  Spent(r)'
  <2>1. Spent(r)
    BY <1>5 DEF RefusalInv
  <2> QED
    BY <1>2, <1>3, <1>4, <1>5, <2>1
<1>6. ASSUME NEW w \in Worker, Refusing(w, r)', ~Refusing(w, r)
      PROVE  Spent(r)'
  <2>1. SendRejected(w) /\ wjob[w] = r
    <3>1. ~Take(w, r) /\ \A s \in Recipient : ~Take(w, s)
      BY <1>6 DEF Refusing, Take, Goto
    <3>2. ~CheckIdempotency(w) /\ ~MarkProcessing(w) /\ ~SendAccepted(w)
      BY <1>6 DEF Refusing, CheckIdempotency, MarkProcessing, SendAccepted, Goto
    <3>3. ~SendThrows(w) /\ ~SendLost(w) /\ ~SendUnreadable(w)
      BY <1>6 DEF Refusing, SendThrows, SendLost, SendUnreadable, ThrowToBull, Goto
    <3>4. ~RecordResult(w) /\ ~CountResult(w) /\ ~DatabaseError(w)
      BY <1>6 DEF Refusing, RecordResult, CountResult, DatabaseError, AfterDatabaseError, Goto
    <3>5. ~MoveToCompleted(w) /\ ~MoveToFailed(w) /\ ~CrashRun(w)
      BY <1>6 DEF Refusing, MoveToCompleted, MoveToFailed, CrashRun, Release, Goto
    <3>6. ~(wpc'[w] = wpc[w] /\ wjob'[w] = wjob[w] /\ wok'[w] = wok[w])
      BY <1>6 DEF Refusing
    <3>7. SendRejected(w)
      BY <3>1, <3>2, <3>3, <3>4, <3>5, <3>6, RunMoves DEF WorkerStep
    <3> QED
      BY <1>6, <3>7 DEF Refusing, SendRejected
  <2>2. /\ accepted' = accepted /\ doubt' = doubt /\ bull' = bull /\ wjob' = wjob
        /\ wpc[w] = "send" /\ wpc' = [wpc EXCEPT ![w] = "record"]
    BY <2>1 DEF SendRejected, Goto, history, bullVars
  <2>3. w \in Pending(r) /\ Pending(r)' \subseteq Pending(r) \ {w}
    BY <2>1, <2>2 DEF Pending
  <2>4. Cardinality(Pending(r)') + 1 <= Cardinality(Pending(r))
    <3>1. Pending(r) \in SUBSET Worker /\ Pending(r)' \in SUBSET Worker
      BY DEF Pending
    <3> QED
      BY <2>3, <3>1, RunCount
  <2>5. Starts(r) = Waiting(r) /\ Waiting(r)' = Waiting(r)
    BY <2>1, <2>2 DEF RunInv, Starts, Waiting
  <2>6. accepted[r] + Cardinality(Pending(r)) + Waiting(r) <= 1 + doubt[r]
    BY <2>5 DEF BudgetInv
  <2> QED
    BY <1>1, <2>2, <2>4, <2>5, <2>6
<1>7. ASSUME RefusedAlready(r)', ~RefusedAlready(r)
      PROVE  \E w \in Worker : Refusing(w, r)
  <2>1. ASSUME NEW w \in Worker, MoveToCompleted(w)
        PROVE  Refusing(w, r)
    BY <1>7, <2>1 DEF MoveToCompleted, RefusedAlready, Refusing, Run
  <2>2. ~UNCHANGED bullVars
    BY <1>7 DEF bullVars, RefusedAlready
  <2>3. /\ \A q \in Request : ~AddBulk(q)
        /\ \A w \in Worker : ~CrashRun(w) /\ ~LoseLock(w) /\ \A s \in Recipient : ~Take(w, s)
        /\ \A s \in Recipient : ~Promote(s) /\ ~RequeueStalled(s)
        /\ \A w \in Worker : ~MoveToFailed(w)
    BY <1>7 DEF RefusedAlready, AddBulk, BullAdd, CrashRun, LoseLock, Take, Promote,
                RequeueStalled, MoveToFailed
  <2> QED
    BY <2>1, <2>2, <2>3, BullSteps
<1> QED
  BY <1>5, <1>6, <1>7

\* Bull stores what a run returns with the state of its job.
LEMMA StepReturn ==
  ASSUME Types, ReturnInv, [Next]_vars
  PROVE  ReturnInv'
<1> SUFFICES ASSUME NEW r \in Recipient, bull'[r] = "completed"
             PROVE  returned'[r] # "none"
  BY DEF ReturnInv
<1> USE DEF Types
<1>1. CASE bull'[r] = bull[r] /\ returned'[r] = returned[r]
  BY <1>1 DEF ReturnInv
<1>2. ASSUME NEW w \in Worker, MoveToCompleted(w)
      PROVE  returned'[r] # "none"
  BY <1>1, <1>2 DEF MoveToCompleted, Run
<1>3. ASSUME \/ \E q \in Request : AddBulk(q)
             \/ \E w \in Worker : \/ MoveToFailed(w) \/ CrashRun(w) \/ LoseLock(w)
                                  \/ \E s \in Recipient : Take(w, s)
             \/ \E s \in Recipient : Promote(s) \/ RequeueStalled(s)
      PROVE  bull'[r] = bull[r] /\ returned'[r] = returned[r]
  BY <1>3 DEF AddBulk, BullAdd, MoveToFailed, CrashRun, LoseLock, Take, Promote, RequeueStalled
<1> QED
  BY <1>1, <1>2, <1>3, BullSteps DEF bullVars

\* The report of a job, by where it is.
LEMMA Reports ==
  /\ \A x : ReportOf("absent", x) = "none"
  /\ \A where \in InQueue : \A x : ReportOf(where, x) = "open"
  /\ \A x : ReportOf("completed", x) = x /\ ReportOf("failed", x) = "givenUp"
BY DEF ReportOf, InQueue

\* A job that goes on in the queue reports nothing new.
LEMMA SameReport ==
  ASSUME \A r \in Recipient : \/ bull'[r] = bull[r] /\ returned'[r] = returned[r]
                              \/ bull[r] \in InQueue /\ bull'[r] \in InQueue
  PROVE  Outcome' = Outcome
<1>1. \A r \in Recipient : ReportOf(bull'[r], returned'[r]) = ReportOf(bull[r], returned[r])
  BY Reports
<1> QED
  BY <1>1 DEF Outcome

\* In particular one that moves within it.
LEMMA MovedReport ==
  ASSUME Types, NEW r \in Recipient, bull[r] \in InQueue, NEW where \in InQueue,
         bull' = [bull EXCEPT ![r] = where], returned' = returned
  PROVE  Outcome' = Outcome
<1>1. bull'[r] = where /\ \A s \in Recipient : s # r => bull'[s] = bull[s]
  BY DEF Types
<1> QED
  BY <1>1, SameReport

\* A job that leaves the queue reports how it ended, and the others what they did.
LEMMA NewReport ==
  ASSUME NEW r \in Recipient, bull[r] \in InQueue, NEW result,
         ReportOf(bull'[r], returned'[r]) = result,
         \A s \in Recipient : s # r => bull'[s] = bull[s] /\ returned'[s] = returned[s]
  PROVE  Outcome[r] = "open" /\ Outcome' = [Outcome EXCEPT ![r] = result]
<1>1. ReportOf(bull[r], returned[r]) = "open"
  BY Reports
<1> QED
  BY <1>1 DEF Outcome

\* A recipient that is queued is known, and what is reported of it is what its job
\* returned.
LEMMA KnownReport ==
  ASSUME Types, ReturnInv, NEW r \in Recipient, bull[r] # "absent"
  PROVE  /\ Outcome[r] # "none"
         /\ Outcome[r] = "failure" => RefusedAlready(r)
<1>1. CASE bull[r] \in InQueue
  BY <1>1, Reports DEF Outcome
<1>2. CASE bull[r] = "completed"
  BY <1>2, Reports DEF Outcome, ReturnInv, RefusedAlready
<1>3. CASE bull[r] = "failed"
  BY <1>3, Reports DEF Outcome
<1> QED
  BY <1>1, <1>2, <1>3 DEF Types, BullState, InQueue

\* A request that answers 202 answers for recipients that are queued.
LEMMA AnswerKeeps ==
  ASSUME Types, Types', ReturnInv, AcceptedIsQueued', [Next]_vars,
         NEW q \in Request, Persist(q) \/ StartProcessing(q)
  PROVE  Contract!Next \/ UNCHANGED <<history, Outcome>>
<1>1. bull' = bull /\ returned' = returned /\ accepted' = accepted /\ doubt' = doubt
  BY DEF Persist, StartProcessing, bullVars
<1>2. Outcome' = Outcome
  BY <1>1, SameReport
<1>3. promised' = promised \/ promised' = promised \cup rlist[q]
  BY DEF Persist, StartProcessing, AnswerAccepted
<1>4. ASSUME promised' = promised \cup rlist[q]
      PROVE  Contract!Answer(rlist[q]) /\ rlist[q] \in SUBSET Recipient
  <2>1. rlist[q] \in SUBSET Recipient
    BY DEF Types
  <2>2. \A r \in rlist[q] : bull[r] # "absent"
    BY <1>1, <1>4 DEF AcceptedIsQueued
  <2>3. \A r \in rlist[q] : Outcome[r] # "none"
    BY <2>1, <2>2, KnownReport
  <2> QED
    BY <1>1, <1>2, <1>4, <2>1, <2>3 DEF Contract!Answer
<1> QED
  BY <1>1, <1>2, <1>3, <1>4 DEF Contract!Next, history

\* A run that mails does it within the promise: it is a load of its recipient, and
\* whoever was refused has none left but for the doubts.
LEMMA MailKeeps ==
  ASSUME Types, RunInv, BudgetInv, RefusalInv, ReturnInv,
         NEW w \in Worker, SendAccepted(w) \/ SendUnreadable(w) \/ SendLost(w)
  PROVE  Contract!Next
<1>1. PICK r \in Recipient : r = wjob[w] /\ bull[r] # "absent" /\ w \in Pending(r)
  BY DEF RunInv, Pending, SendAccepted, SendUnreadable, SendLost
<1>2. /\ accepted' = [accepted EXCEPT ![r] = @ + 1]
      /\ doubt' = doubt \/ doubt' = [doubt EXCEPT ![r] = @ + 1]
      /\ promised' = promised /\ bull' = bull /\ returned' = returned
  BY <1>1 DEF SendAccepted, SendUnreadable, SendLost, Run, bullVars
<1>3. Outcome' = Outcome
  BY <1>2, SameReport
<1>4. Outcome[r] # "none" /\ (Outcome[r] = "failure" => RefusedAlready(r))
  BY <1>1, KnownReport
<1>5. /\ accepted[r] \in Nat /\ doubt[r] \in Nat
      /\ Waiting(r) \in {0, 1} /\ Starts(r) \in {0, 1}
      /\ Cardinality(Pending(r)) \in Nat
  BY LoadTypes
<1>6. Cardinality(Pending(r)) >= 1
  <2>1. Pending(r) \in SUBSET Worker /\ {} \in SUBSET Worker
    BY DEF Pending
  <2>2. Cardinality({}) + 1 <= Cardinality(Pending(r))
    BY <1>1, <2>1, RunCount
  <2> QED
    BY <1>5, <2>2, FS_EmptySet
<1>7. accepted[r] <= doubt[r]
  <2>1. accepted[r] + Cardinality(Pending(r)) + Starts(r) <= 1 + doubt[r]
    BY DEF BudgetInv
  <2> QED
    BY <1>5, <1>6, <2>1
<1>8. ASSUME "unreadable" \notin Outcomes, Outcome[r] = "failure"
      PROVE  accepted[r] + 1 <= doubt[r]
  <2>1. accepted[r] + Cardinality(Pending(r)) + Waiting(r) <= doubt[r]
    BY <1>4, <1>8 DEF RefusalInv
  <2> QED
    BY <1>5, <1>6, <2>1
<1>9. accepted[r] + Contract!Refused(r) <= doubt[r]
  <2>1. CASE "unreadable" \notin Outcomes /\ Outcome[r] = "failure"
    <3>1. Contract!Refused(r) = 1
      BY <2>1 DEF Contract!Refused
    <3> QED
      BY <1>8, <2>1, <3>1
  <2>2. CASE ~("unreadable" \notin Outcomes /\ Outcome[r] = "failure")
    <3>1. Contract!Refused(r) = 0
      BY <2>2 DEF Contract!Refused
    <3> QED
      BY <1>5, <1>7, <3>1
  <2> QED
    BY <2>1, <2>2
<1>10. Contract!Mail(r)
  BY <1>2, <1>3, <1>4, <1>9 DEF Contract!Mail
<1> QED
  BY <1>10 DEF Contract!Next

\* Bull runs a job again that nobody has finished, or gives it up.
LEMMA StallKeeps ==
  ASSUME Types, NEW r \in Recipient, RequeueStalled(r)
  PROVE  Contract!Next
<1> USE DEF Types
<1>1. /\ bull[r] = "active" /\ returned' = returned
      /\ promised' = promised /\ accepted' = accepted
  BY DEF RequeueStalled
<1>2. CASE bull' = [bull EXCEPT ![r] = "waiting"] /\ doubt' = [doubt EXCEPT ![r] = @ + 1]
  <2>1. Outcome' = Outcome
    BY <1>1, <1>2, SameReport DEF InQueue
  <2>2. Outcome[r] = "open"
    BY <1>1, Reports DEF Outcome, InQueue
  <2>3. Contract!LoseTrack(r)
    BY <1>1, <1>2, <2>1, <2>2 DEF Contract!LoseTrack
  <2> QED
    BY <2>3 DEF Contract!Next
<1>3. CASE bull' = [bull EXCEPT ![r] = "failed"] /\ doubt' = doubt
  <2>1. /\ bull'[r] = "failed"
        /\ \A s \in Recipient : s # r => bull'[s] = bull[s] /\ returned'[s] = returned[s]
    BY <1>1, <1>3
  <2>2. ReportOf(bull'[r], returned'[r]) = "givenUp"
    BY <2>1, Reports
  <2>3. Outcome[r] = "open" /\ Outcome' = [Outcome EXCEPT ![r] = "givenUp"]
    BY <1>1, <2>1, <2>2, NewReport DEF InQueue
  <2>4. Contract!Report(r, "givenUp")
    BY <1>1, <1>3, <2>3 DEF Contract!Report
  <2> QED
    BY <2>4 DEF Contract!Next, Contract!Result
<1> QED
  BY <1>2, <1>3 DEF RequeueStalled

\* addBulk takes on the recipients that Bull does not have yet.
LEMMA AddKeeps ==
  ASSUME Types, NEW q \in Request, AddBulk(q)
  PROVE  Contract!Next \/ UNCHANGED <<history, Outcome>>
<1> USE DEF Types
<1> DEFINE R == {r \in missing[q] : bull[r] = "absent"}
<1>1. /\ bull' = [r \in Recipient |-> IF r \in R THEN "waiting" ELSE bull[r]]
      /\ returned' = returned /\ UNCHANGED history
  BY DEF AddBulk, BullAdd
<1>2. R \in SUBSET Recipient
  OBVIOUS
<1> HIDE DEF R
<1>3. \A r \in R : bull[r] = "absent"
  BY DEF R
<1>4. \A r \in R : ReportOf(bull[r], returned[r]) = "none"
  BY <1>3, Reports
<1>5. \A r \in R : ReportOf(bull'[r], returned'[r]) = "open"
  BY <1>1, <1>2, Reports DEF InQueue
<1>6. \A r \in Recipient \ R : ReportOf(bull'[r], returned'[r]) = ReportOf(bull[r], returned[r])
  BY <1>1
<1>7. Contract!TakeOn(R)
  BY <1>1, <1>2, <1>4, <1>5, <1>6 DEF Contract!TakeOn, Outcome, history
<1> QED
  BY <1>2, <1>7 DEF Contract!Next

\* A run ends its job with what it knows: the mail it gave, or the refusal it got.
LEMMA CompleteKeeps ==
  ASSUME Types, LockInv, RunInv, BudgetInv, SuccessInv, RefusalInv,
         NEW w \in Worker, MoveToCompleted(w)
  PROVE  Contract!Next \/ UNCHANGED <<history, Outcome>>
<1> USE DEF Types
<1>1. /\ wpc[w] = "ack" /\ wjob[w] \in Recipient /\ UNCHANGED history
  BY DEF MoveToCompleted, RunInv
<1>2. CASE ~HoldsLock(w)
  <2>1. bull' = bull /\ returned' = returned
    BY <1>2 DEF MoveToCompleted
  <2> QED
    BY <1>1, <2>1, SameReport
<1>3. CASE HoldsLock(w)
  <2> DEFINE r == wjob[w]
  <2> DEFINE result == IF wok[w] THEN "success" ELSE "failure"
  <2>1. bull[r] = "active"
    BY <1>1, <1>3, SetsAssumption DEF HoldsLock, LockInv, Run
  <2>2. /\ bull' = [bull EXCEPT ![r] = "completed"]
        /\ returned' = [returned EXCEPT ![r] = result]
    BY <1>3 DEF MoveToCompleted, Run
  <2>3. /\ bull'[r] = "completed" /\ returned'[r] = result
        /\ \A s \in Recipient : s # r => bull'[s] = bull[s] /\ returned'[s] = returned[s]
    BY <1>1, <2>2
  <2>4. accepted[r] \in Nat /\ doubt[r] \in Nat /\ Cardinality(Pending(r)) \in Nat
        /\ Waiting(r) \in {0, 1}
    BY <1>1, LoadTypes
  <2> HIDE DEF result
  <2>5. Outcome[r] = "open" /\ Outcome' = [Outcome EXCEPT ![r] = result]
    <3>1. ReportOf(bull'[r], returned'[r]) = result
      BY <2>3, Reports
    <3> QED
      BY <1>1, <2>1, <2>3, <3>1, NewReport DEF InQueue
  <2>6. result = "success" => accepted[r] > 0
    BY DEF SuccessInv, result
  <2>7. result = "failure" /\ "unreadable" \notin Outcomes => accepted[r] <= doubt[r]
    <3>1. SUFFICES ASSUME result = "failure", "unreadable" \notin Outcomes
                   PROVE  accepted[r] <= doubt[r]
      OBVIOUS
    <3>2. Refusing(w, r)
      BY <1>1, <3>1 DEF Refusing, result
    <3>3. accepted[r] + Cardinality(Pending(r)) + Waiting(r) <= doubt[r]
      BY <1>1, <3>1, <3>2 DEF RefusalInv
    <3> QED
      BY <2>4, <3>3
  <2>8. result \in Contract!Result
    BY DEF result, Contract!Result
  <2>9. Contract!Report(r, result)
    BY <1>1, <2>5, <2>6, <2>7 DEF Contract!Report, history
  <2> QED
    BY <1>1, <2>8, <2>9 DEF Contract!Next
<1> QED
  BY <1>2, <1>3

\* Bull retries a job that was thrown back, of which nothing is reported yet, or
\* gives it up.
LEMMA FailKeeps ==
  ASSUME Types, LockInv, RunInv, NEW w \in Worker, MoveToFailed(w)
  PROVE  Contract!Next \/ UNCHANGED <<history, Outcome>>
<1> USE DEF Types
<1>1. /\ wpc[w] = "nack" /\ wjob[w] \in Recipient /\ UNCHANGED history
      /\ returned' = returned
  BY DEF MoveToFailed, RunInv
<1>2. CASE ~HoldsLock(w)
  <2>1. bull' = bull
    BY <1>2 DEF MoveToFailed
  <2> QED
    BY <1>1, <2>1, SameReport
<1>3. CASE HoldsLock(w)
  <2> DEFINE r == wjob[w]
  <2>1. bull[r] = "active"
    BY <1>1, <1>3, SetsAssumption DEF HoldsLock, LockInv, Run
  <2>2. bull' = [bull EXCEPT ![r] = IF RetryLeft(r) THEN "delayed" ELSE "failed"]
    BY <1>3 DEF MoveToFailed, Run
  <2>3. CASE RetryLeft(r)
    <3>1. bull' = [bull EXCEPT ![r] = "delayed"]
      BY <2>2, <2>3
    <3> QED
      BY <1>1, <2>1, <3>1, MovedReport DEF InQueue
  <2>4. CASE ~RetryLeft(r)
    <3>1. /\ bull'[r] = "failed"
          /\ \A s \in Recipient : s # r => bull'[s] = bull[s] /\ returned'[s] = returned[s]
      BY <1>1, <2>2, <2>4
    <3>2. ReportOf(bull'[r], returned'[r]) = "givenUp"
      BY <3>1, Reports
    <3>3. Outcome[r] = "open" /\ Outcome' = [Outcome EXCEPT ![r] = "givenUp"]
      BY <1>1, <2>1, <3>1, <3>2, NewReport DEF InQueue
    <3>4. Contract!Report(r, "givenUp")
      BY <1>1, <3>3 DEF Contract!Report, history
    <3> QED
      BY <1>1, <3>4 DEF Contract!Next, Contract!Result
  <2> QED
    BY <2>3, <2>4
<1> QED
  BY <1>2, <1>3

\* Every step of a campaign is a step of its promise, or none.
LEMMA StepContract ==
  ASSUME Types, Types', LockInv, RunInv, BudgetInv, AcceptedIsQueued',
         SuccessInv, RefusalInv, ReturnInv, [Next]_vars
  PROVE  [Contract!Next]_(Contract!vars)
<1> DEFINE Goal == Contract!Next \/ UNCHANGED <<history, Outcome>>
<1>1. SUFFICES Goal
  BY DEF Contract!vars, history
<1>2. ASSUME NEW q \in Request, Persist(q) \/ StartProcessing(q) \/ AddBulk(q)
      PROVE  Goal
  BY <1>2, AnswerKeeps, AddKeeps
<1>3. ASSUME NEW w \in Worker, SendAccepted(w) \/ SendUnreadable(w) \/ SendLost(w)
      PROVE  Goal
  BY <1>3, MailKeeps
<1>4. ASSUME NEW w \in Worker, MoveToCompleted(w) \/ MoveToFailed(w)
      PROVE  Goal
  BY <1>4, CompleteKeeps, FailKeeps
<1>5. ASSUME NEW r \in Recipient, RequeueStalled(r)
      PROVE  Goal
  BY <1>5, StallKeeps
<1>6. CASE UNCHANGED history /\ UNCHANGED bullVars
  BY <1>6, SameReport DEF bullVars
<1>7. ASSUME UNCHANGED history, NEW w \in Worker,
             CrashRun(w) \/ LoseLock(w) \/ \E r \in Recipient : Take(w, r)
      PROVE  Goal
  <2>1. CASE CrashRun(w) \/ LoseLock(w)
    BY <1>7, <2>1, SameReport DEF CrashRun, LoseLock
  <2>2. ASSUME NEW r \in Recipient, Take(w, r)
        PROVE  Outcome' = Outcome
    BY <2>2, MovedReport DEF Take, InQueue
  <2> QED
    BY <1>7, <2>1, <2>2
<1>8. ASSUME UNCHANGED history, NEW r \in Recipient, Promote(r)
      PROVE  Goal
  BY <1>8, MovedReport DEF Promote, InQueue
<1> HIDE DEF Goal
<1>9. CASE ~UNCHANGED history
  BY <1>2, <1>3, <1>5, <1>9, HistorySteps
<1> QED
  BY <1>2, <1>4, <1>5, <1>6, <1>7, <1>8, <1>9, BullSteps

\* Requests, workers, Bull and their failures keep the promise of a campaign: a
\* 202 stands for jobs that exist, a recipient is mailed again only after a run
\* nobody knows the outcome of, and the result of a job is true and stands.
THEOREM KeepsPromise == Spec => PromiseKept
<1>1. Init => Contract!Init
  <2>1. ASSUME Init
        PROVE  Outcome = [r \in Recipient |-> "none"]
    BY <2>1, Reports DEF Init, Outcome
  <2> QED
    BY <2>1 DEF Init, Contract!Init
<1>2. Init => SuccessInv /\ ReturnInv
  BY DEF Init, SuccessInv, ReturnInv
<1>3. Init => RefusalInv
  BY DEF Init, RefusalInv, RefusedAlready, Refusing
<1>4. ASSUME IInv, SuccessInv, RefusalInv, ReturnInv, [Next]_vars
      PROVE  SuccessInv' /\ RefusalInv' /\ ReturnInv'
  <2>1. Types /\ Types' /\ RunInv /\ BudgetInv
    BY <1>4, TypesAndLimits, StepTypes DEF IInv
  <2> QED
    BY <1>4, <2>1, StepSuccess, StepRefusal, StepReturn
<1>5. ASSUME IInv, IInv', SuccessInv, RefusalInv, ReturnInv, [Next]_vars
      PROVE  [Contract!Next]_(Contract!vars)
  <2>1. Types /\ Types' /\ LockInv /\ RunInv /\ BudgetInv /\ AcceptedIsQueued'
    BY <1>5, TypesAndLimits, StepTypes DEF IInv, QueueInv
  <2> QED
    BY <1>5, <2>1, StepContract
<1>6. Spec => [](SuccessInv /\ RefusalInv /\ ReturnInv)
  BY <1>2, <1>3, <1>4, Invariance, PTL DEF Spec
<1> QED
  BY <1>1, <1>5, <1>6, Invariance, PTL DEF Spec, PromiseKept, Contract!Spec
=============================================================================
