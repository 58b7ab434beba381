--------------------------- MODULE DeletionProofs ---------------------------
(***************************************************************************)
(* A campaign that is deleted and posted again reaches nobody twice, for   *)
(* every set of recipients, requests and runs, every outcome and fault;    *)
(* and it implements MailPromise, as a campaign that stays does.  Its new  *)
(* rows are written by nobody who has read the old ones, as long as no     *)
(* lock is lost and the provider refuses no mail.                          *)
(*                                                                         *)
(* The argument of CampaignProofs does not need the logs: the budget of a  *)
(* recipient is kept by Bull and its runs, which a deletion leaves alone.  *)
(***************************************************************************)
EXTENDS Deletion, CampaignProofs

\* What of IInv does not depend on rows that a deletion removes.
QueueSide == TypeOK /\ QueueInv /\ RunInv /\ BudgetInv

\* A run that looked its log up is about to record its result; a row that is to
\* be deleted is the one that was checked.
RowInv ==
  /\ row \in Ids \ {0}
  /\ requestRow \in [Request -> Ids]
  /\ runRow \in [Worker -> Ids]
  /\ pollRow \in Ids
  /\ deleting \in {0, row} /\ (deleting # 0 => row <= MaxDeletes)
  /\ found \subseteq {w \in Worker : wpc[w] = "record"}

\* A step of Campaign keeps the queue's side.
LEMMA CampaignStep ==
  ASSUME QueueSide, [Next]_vars
  PROVE  QueueSide'
  BY StepTypes, StepTypeOK, StepQueue, StepRun, StepBudget, TypesAndLimits DEF QueueSide

\* A step that leaves the queue alone keeps it too, when runs only go on to where
\* they may give no more mails than before.
LEMMA OtherStep ==
  ASSUME QueueSide, TypeOK', UNCHANGED <<bullVars, wjob, accepted, doubt>>,
         \A w \in Worker :
           \/ wpc'[w] = wpc[w]
           \/ wpc[w] = "mark" /\ wpc'[w] = "send"
           \/ wpc[w] \in {"record", "count"} /\ wpc'[w] \in {"count", "ack"}
  PROVE  QueueSide'
  <1>1. QueueInv'
    BY DEF QueueSide, QueueInv, LimitInv, LockInv, bullVars
  <1>2. RunInv'
    BY DEF QueueSide, RunInv, bullVars
  <1>3. BudgetInv'
    <2> SUFFICES ASSUME NEW r \in Recipient
                 PROVE  accepted'[r] + Cardinality(Pending(r)') + Starts(r)' <= 1 + doubt'[r]
      BY DEF BudgetInv
    <2>1. Pending(r)' \subseteq Pending(r) /\ Starts(r)' = Starts(r)
      BY DEF Pending, Starts, bullVars
    <2>2. Cardinality(Pending(r)') <= Cardinality(Pending(r))
          /\ Cardinality(Pending(r)) \in Nat /\ Cardinality(Pending(r)') \in Nat
      <3>1. Pending(r) \in SUBSET Worker /\ Pending(r)' \in SUBSET Worker
        BY DEF Pending
      <3> QED
        BY <2>1, <3>1, RunCount
    <2>3. accepted[r] + Cardinality(Pending(r)) + Starts(r) <= 1 + doubt[r]
      BY DEF QueueSide, BudgetInv
    <2>4. /\ accepted[r] \in Nat /\ doubt[r] \in Nat /\ Starts(r) \in Nat
          /\ accepted'[r] = accepted[r] /\ doubt'[r] = doubt[r]
      BY DEF QueueSide, TypeOK, Starts
    <2> QED
      BY <2>1, <2>2, <2>3, <2>4
  <1> QED
    BY <1>1, <1>2, <1>3 DEF QueueSide

\* Every step of a campaign that may be deleted keeps it: the statements that
\* find their row gone, and the deletion, write nothing Bull or a run knows of.
LEMMA QueueSideStep ==
  ASSUME QueueSide, RowInv, [DeletionNext]_deletionVars
  PROVE  QueueSide'
  <1>0. TypeOK
    BY DEF QueueSide
  <1>1. CASE Unrelated
    <2>1. [Next]_vars
      BY <1>1 DEF Unrelated, Next, Handle, WorkerStep
    <2> QED
      BY <2>1, CampaignStep
  <1>2. ASSUME NEW q \in Request, PersistRow(q) \/ StartRow(q) PROVE QueueSide'
    <2>1. CASE Persist(q) \/ StartProcessing(q)
      <3>1. [Next]_vars
        BY <2>1 DEF Next, Handle
      <3> QED
        BY <3>1, CampaignStep
    <2>2. CASE /\ AnswerAccepted(q)
               /\ UNCHANGED <<dbVars, bullVars, workerVars, poll, accepted, doubt>>
      <3>1. RequestTypes' /\ promised' \subseteq Recipient
        BY <1>0, <2>2, AnsweredTypes, TypesAndLimits DEF AnswerAccepted, TypeOK
      <3>2. TypeOK'
        BY <1>0, <2>2, <3>1 DEF TypeOK, RequestTypes, dbVars, bullVars, workerVars
      <3> QED
        BY <2>2, <3>2, OtherStep DEF workerVars
    <2> QED
      BY <1>2, <2>1, <2>2 DEF PersistRow, StartRow
  <1>3. ASSUME NEW w \in Worker,
               CheckRow(w) \/ MarkRow(w) \/ FindRow(w) \/ RecordRow(w) \/ CountRow(w)
        PROVE  QueueSide'
    <2>1. CASE \/ CheckIdempotency(w) \/ MarkProcessing(w) \/ RecordResult(w)
               \/ CountResult(w) \/ UNCHANGED vars
      <3>1. [Next]_vars
        BY <2>1 DEF Next, WorkerStep
      <3> QED
        BY <3>1, CampaignStep
    <2>2. ASSUME NEW pc, Goto(w, pc),
                 UNCHANGED <<dbVars, bullVars, requestVars, wjob, wok, poll, history>>,
                 \/ wpc[w] = "mark" /\ pc = "send"
                 \/ wpc[w] \in {"record", "count"} /\ pc \in {"count", "ack"}
          PROVE  QueueSide'
      <3>1. TypeOK'
        BY <1>0, <2>2 DEF TypeOK, Goto, WorkerPC, dbVars, bullVars, requestVars, history
      <3>2. \A v \in Worker : v # w => wpc'[v] = wpc[v]
        BY <2>2, <1>0 DEF Goto, TypeOK
      <3>3. wpc'[w] = pc
        BY <2>2, <1>0 DEF Goto, TypeOK
      <3> QED
        BY <2>2, <3>1, <3>2, <3>3, OtherStep DEF history
    <2>3. w \in found => wpc[w] = "record"
      BY DEF RowInv
    <2> QED
      BY <1>3, <2>1, <2>2, <2>3 DEF CheckRow, MarkRow, FindRow, RecordRow, CountRow
  <1>4. CASE PollReadRow \/ PollSyncRow
    <2>1. CASE PollRead \/ PollSync
      <3>1. [Next]_vars
        BY <2>1 DEF Next
      <3> QED
        BY <3>1, CampaignStep
    <2>2. CASE poll' = FALSE /\ UNCHANGED <<dbVars, bullVars, requestVars, workerVars, history>>
      <3>1. TypeOK'
        BY <1>0, <2>2 DEF TypeOK, dbVars, bullVars, requestVars, workerVars, history
      <3> QED
        BY <2>2, <3>1, OtherStep DEF workerVars, history
    <2> QED
      BY <1>4, <2>1, <2>2 DEF PollReadRow, PollSyncRow
  <1>5. CASE DeleteRow
    <2>1. job' \in JobRow /\ log' \in [Recipient -> LogStatus]
      BY <1>5 DEF DeleteRow, NoJob, JobRow, JobStatus, LogStatus
    <2>2. TypeOK'
      BY <1>0, <1>5, <2>1 DEF DeleteRow, TypeOK, bullVars, requestVars, workerVars, history
    <2> QED
      BY <1>5, <2>2, OtherStep DEF DeleteRow, workerVars, history
  <1>6. CASE DeleteRead \/ UNCHANGED deletionVars
    <2>1. [Next]_vars
      BY <1>6 DEF DeleteRead, deletionVars
    <2> QED
      BY <2>1, CampaignStep
  <1> QED
    BY <1>1, <1>2, <1>3, <1>4, <1>5, <1>6 DEF DeletionNext

\* The ids of rows keep their types, and runs that found their log stay there until
\* they record their result.
LEMMA RowStep ==
  ASSUME QueueSide, RowInv, [DeletionNext]_deletionVars
  PROVE  RowInv'
  <1> USE DeletionAssumption DEF Ids, rowVars
  <1>0. wpc \in [Worker -> WorkerPC] /\ row \in Nat
    BY DEF QueueSide, TypeOK, RowInv
  <1>1. CASE Unrelated
    BY <1>1 DEF Unrelated, RowInv
  <1>2. ASSUME NEW q \in Request, PersistRow(q) \/ StartRow(q) PROVE RowInv'
    <2>1. wpc' = wpc
      BY <1>2 DEF PersistRow, StartRow, Persist, StartProcessing, workerVars
    <2> QED
      BY <1>2, <2>1 DEF PersistRow, StartRow, RowInv
  <1>3. ASSUME NEW w \in Worker,
               CheckRow(w) \/ MarkRow(w) \/ FindRow(w) \/ RecordRow(w) \/ CountRow(w)
        PROVE  RowInv'
    <2>1. \A v \in Worker : v # w => wpc'[v] = wpc[v]
      BY <1>0, <1>3 DEF CheckRow, MarkRow, FindRow, RecordRow, CountRow, CheckIdempotency,
                        MarkProcessing, RecordResult, CountResult, Goto, vars, workerVars
    <2>2. CASE CheckRow(w) \/ MarkRow(w) \/ CountRow(w)
      <3>1. wpc[w] # "record"
        BY <2>2 DEF CheckRow, MarkRow, CountRow, CheckIdempotency, MarkProcessing, CountResult
      <3>2. found' = found /\ row' = row /\ requestRow' = requestRow /\ pollRow' = pollRow
            /\ deleting' = deleting /\ runRow' \in [Worker -> Ids]
        BY <2>2 DEF CheckRow, MarkRow, CountRow, RowInv
      <3> QED
        BY <2>1, <3>1, <3>2 DEF RowInv
    <2>3. CASE FindRow(w)
      <3>1. CASE log[Run(w)] # "absent"
        BY <2>3, <3>1 DEF FindRow, RowInv, vars, workerVars
      <3>2. CASE log[Run(w)] = "absent"
        BY <2>1, <2>3, <3>2 DEF FindRow, RowInv
      <3> QED
        BY <3>1, <3>2
    <2>4. CASE RecordRow(w)
      BY <2>1, <2>4 DEF RecordRow, RowInv
    <2> QED
      BY <1>3, <2>2, <2>3, <2>4
  <1>4. CASE PollReadRow \/ PollSyncRow
    <2>1. wpc' = wpc
      BY <1>4 DEF PollReadRow, PollSyncRow, PollRead, PollSync, workerVars
    <2> QED
      BY <1>4, <2>1 DEF PollReadRow, PollSyncRow, RowInv
  <1>5. CASE DeleteRead
    BY <1>5 DEF DeleteRead, RowInv, vars, workerVars
  <1>6. CASE DeleteRow
    BY <1>0, <1>6 DEF DeleteRow, RowInv, Done, workerVars
  <1>7. CASE UNCHANGED deletionVars
    BY <1>7 DEF deletionVars, vars, workerVars, RowInv
  <1> QED
    BY <1>1, <1>2, <1>3, <1>4, <1>5, <1>6, <1>7 DEF DeletionNext

\* The invariant both theorems rest on.
LEMMA DeletionInvariance == DeletionSpec => [](QueueSide /\ RowInv)
  <1>1. DeletionInit => QueueSide /\ RowInv
    <2> SUFFICES ASSUME DeletionInit PROVE QueueSide /\ RowInv
      OBVIOUS
    <2>1. QueueSide
      BY InitIInv DEF DeletionInit, IInv, QueueSide
    <2>2. RowInv
      BY DeletionAssumption DEF DeletionInit, RowInv, Ids
    <2> QED
      BY <2>1, <2>2
  <1>2. QueueSide /\ RowInv /\ [DeletionNext]_deletionVars => (QueueSide /\ RowInv)'
    BY QueueSideStep, RowStep
  <1> QED
    BY <1>1, <1>2, PTL DEF DeletionSpec

\* Rows that go and come back keep their types, and no id is used twice.
THEOREM DeletionTypeCorrect == DeletionSpec => []DeletionTypeOK
  <1>1. QueueSide /\ RowInv => DeletionTypeOK
    BY DeletionAssumption DEF QueueSide, RowInv, DeletionTypeOK, Ids
  <1> QED
    BY <1>1, DeletionInvariance, PTL

\* deleteJob leaves the Bull jobs (jobController.ts:92): a campaign that is deleted
\* at any point and posted again mails nobody twice, unless the outcome of a run
\* was unknown.
THEOREM DeletedStaysSent == DeletionSpec => []DeletedIsNotResent
  <1>1. ASSUME QueueSide, NEW r \in Recipient
        PROVE  accepted[r] <= 1 + doubt[r]
    <2>1. accepted[r] \in Nat /\ doubt[r] \in Nat /\ Starts(r) \in Nat
      BY <1>1 DEF QueueSide, TypeOK, Starts
    <2>2. Cardinality(Pending(r)) \in Nat
      BY RunCount DEF Pending
    <2>3. accepted[r] + Cardinality(Pending(r)) + Starts(r) <= 1 + doubt[r]
      BY <1>1 DEF QueueSide, BudgetInv
    <2> QED
      BY <2>1, <2>2, <2>3
  <1>2. QueueSide => DeletedIsNotResent
    BY <1>1 DEF DeletedIsNotResent, AtMostOnceButDoubt
  <1> QED
    BY <1>2, DeletionInvariance, PTL

-----------------------------------------------------------------------------
(***************************************************************************)
(* The row of a campaign that is posted again is its own, when runs only   *)
(* die and the provider refuses no mail for good.  (A mail that failed for *)
(* good is taken up again by the next run of a job that stalled.)          *)
(***************************************************************************)

\* What runs and polls have read of the row and of the logs that are there now.
ReadInv ==
  /\ \A r \in Recipient : log[r] # "failed" /\ (log[r] # "absent" => job.status # "none")
  /\ \A w \in Worker : wpc[w] = "record" => wok[w]
  /\ \A w \in Worker : wpc[w] = "mark" /\ runRow[w] = row => log[wjob[w]] \notin {"absent", "sent"}
  /\ \A w \in Worker : runRow[w] <= row
  /\ pollRow <= row

\* A campaign that a poll found complete, and that was not deleted since, stays so.
CompleteInv == (poll /\ pollRow = row) \/ job.status = "completed" =>
                 job.status # "none" /\ Cardinality(Terminal) >= job.valid

\* Where a step that reads and writes no row leaves the runs.
LEMMA UnrelatedRuns ==
  ASSUME TypeOK, Unrelated, Outcomes \cap {"reject", "unreadable"} = {}, NEW w \in Worker
  PROVE  /\ wpc'[w] = "mark" => wpc[w] = "mark" /\ wjob'[w] = wjob[w]
         /\ wpc'[w] = "record" => wok'[w] \/ (wpc[w] = "record" /\ wok'[w] = wok[w])
<1> DEFINE Goal == /\ wpc'[w] = "mark" => wpc[w] = "mark" /\ wjob'[w] = wjob[w]
                   /\ wpc'[w] = "record" => wok'[w] \/ (wpc[w] = "record" /\ wok'[w] = wok[w])
<1>0. /\ wpc \in [Worker -> WorkerPC] /\ wjob \in [Worker -> Recipient \cup {None}]
      /\ wok \in [Worker -> BOOLEAN]
  BY DEF TypeOK
<1>1. CASE UNCHANGED workerVars
  BY <1>1 DEF workerVars
<1>2. /\ \A q \in Request :
           /\ (\E list \in Lists, p \in Payload : Post(q, list, p)) => UNCHANGED workerVars
           /\ LookupChunk(q) \/ AddBulk(q) \/ AbortRequest(q) => UNCHANGED workerVars
      /\ \A r \in Recipient : Promote(r) \/ RequeueStalled(r) => UNCHANGED workerVars
      /\ \A v \in Worker : LoseLock(v) => UNCHANGED workerVars
  BY DEF Post, LookupChunk, AddBulk, AbortRequest, Promote, RequeueStalled, LoseLock
<1>3. ASSUME NEW v \in Worker, NEW r \in Recipient, Take(v, r)
      PROVE  Goal
  BY <1>0, <1>3 DEF Take, Goto
<1>4. ASSUME NEW v \in Worker, SendAccepted(v)
      PROVE  Goal
  BY <1>0, <1>4 DEF SendAccepted, Goto
<1>5. ASSUME NEW v \in Worker, SendThrows(v) \/ SendLost(v)
      PROVE  Goal
  BY <1>0, <1>5 DEF SendThrows, SendLost, ThrowToBull, Goto
<1>6. ASSUME NEW v \in Worker, MoveToCompleted(v) \/ MoveToFailed(v) \/ CrashRun(v)
      PROVE  Goal
  <2>1. Release(v)
    BY <1>6 DEF MoveToCompleted, MoveToFailed, CrashRun
  <2> QED
    BY <1>0, <2>1 DEF Release, Goto
<1>7. ASSUME NEW v \in Worker, DatabaseError(v)
      PROVE  Goal
  BY <1>0, <1>7 DEF DatabaseError, AfterDatabaseError, Goto
<1>8. ASSUME NEW v \in Worker
      PROVE  ~SendRejected(v) /\ ~SendUnreadable(v)
  BY DEF SendRejected, SendUnreadable
<1> QED
  BY <1>1, <1>2, <1>3, <1>4, <1>5, <1>6, <1>7, <1>8 DEF Unrelated

\* A step of Campaign, or one of a run that goes on, leaves a run the lock of its job.
LEMMA StepHolds ==
  ASSUME QueueSide, RowInv, SoleInv, "lock" \notin Faults, [DeletionNext]_deletionVars
  PROVE  SoleInv'
<1>0. TypeOK /\ Types /\ LockInv /\ RunInv
  BY TypesAndLimits DEF QueueSide, QueueInv
<1>1. CASE [Next]_vars
  BY <1>0, <1>1, StepSole
<1>2. ASSUME NEW w \in Worker, wpc[w] # "idle", NEW pc, Goto(w, pc), UNCHANGED <<bullVars, wjob>>
      PROVE  SoleInv'
  BY <1>0, <1>2 DEF SoleInv, TypeOK, Goto, bullVars
<1>3. CASE UNCHANGED <<bullVars, workerVars>>
  BY <1>3 DEF SoleInv, bullVars, workerVars
<1>4. CASE Unrelated \/ DeleteRead \/ UNCHANGED deletionVars
  BY <1>1, <1>4 DEF Unrelated, Next, Handle, WorkerStep, DeleteRead, deletionVars
<1>5. ASSUME NEW q \in Request, PersistRow(q) \/ StartRow(q)
      PROVE  SoleInv'
  BY <1>3, <1>5 DEF PersistRow, StartRow, Persist, StartProcessing
<1>6. ASSUME NEW w \in Worker,
             CheckRow(w) \/ MarkRow(w) \/ FindRow(w) \/ RecordRow(w) \/ CountRow(w)
      PROVE  SoleInv'
  <2>1. CASE \/ CheckIdempotency(w) \/ MarkProcessing(w) \/ RecordResult(w)
             \/ CountResult(w) \/ UNCHANGED vars
    BY <1>1, <2>1 DEF Next, WorkerStep
  <2>2. CASE /\ wpc[w] # "idle" /\ UNCHANGED <<bullVars, wjob>>
             /\ Goto(w, "send") \/ Goto(w, "count") \/ Goto(w, "ack")
    BY <1>2, <2>2
  <2>3. w \in found => wpc[w] = "record"
    BY DEF RowInv
  <2> QED
    BY <1>6, <2>1, <2>2, <2>3 DEF CheckRow, MarkRow, FindRow, RecordRow, CountRow
<1>7. CASE PollReadRow \/ PollSyncRow \/ DeleteRow
  BY <1>3, <1>7 DEF PollReadRow, PollSyncRow, PollRead, PollSync, DeleteRow
<1> QED
  BY <1>4, <1>5, <1>6, <1>7 DEF DeletionNext

\* What was read of the rows stays true of them, or is known to be of a deleted row.
LEMMA StepRead ==
  ASSUME QueueSide, RowInv, SoleInv, ReadInv, Outcomes \cap {"reject", "unreadable"} = {},
         [DeletionNext]_deletionVars
  PROVE  ReadInv'
<1>0. /\ TypeOK /\ Types /\ RunInv /\ row \in Nat
      /\ wpc \in [Worker -> WorkerPC] /\ log \in [Recipient -> LogStatus]
      /\ runRow \in [Worker -> Ids] /\ job \in JobRow
  BY TypesAndLimits DEF QueueSide, RowInv, TypeOK, Ids
<1> USE DEF rowVars
<1>1. CASE Unrelated
  <2>1. UNCHANGED <<job, log, row, runRow, pollRow>>
    <3>1. UNCHANGED dbVars
      BY <1>1 DEF Unrelated, Post, LookupChunk, AddBulk, AbortRequest, Take, SendAccepted,
                  SendRejected, SendUnreadable, SendThrows, SendLost, ThrowToBull,
                  MoveToCompleted, MoveToFailed, DatabaseError, CrashRun, LoseLock, Promote,
                  RequeueStalled
    <3> QED
      BY <1>1, <3>1 DEF Unrelated, dbVars
  <2> QED
    BY <1>0, <1>1, <2>1, UnrelatedRuns DEF ReadInv
<1>2. ASSUME NEW q \in Request, PersistRow(q)
      PROVE  ReadInv'
  <2>1. UNCHANGED <<row, runRow, pollRow, wpc, wjob, wok>>
    BY <1>2 DEF PersistRow, Persist, workerVars
  <2>2. CASE UNCHANGED dbVars
    BY <2>1, <2>2 DEF ReadInv, dbVars
  <2>3. CASE job' = CreateJob(rpayload[q], Cardinality(toSend[q])) /\ log' = CreateBatch(toSend[q])
    <3>1. job'.status # "none"
      BY <2>3 DEF CreateJob
    <3>2. \A r \in Recipient : log'[r] = log[r] \/ (log[r] = "absent" /\ log'[r] = "pending")
      BY <2>3 DEF CreateBatch
    <3>3. \A w \in Worker : wpc[w] = "mark" => wjob[w] \in Recipient
      BY <1>0 DEF RunInv
    <3> QED
      BY <2>1, <3>1, <3>2, <3>3 DEF ReadInv
  <2> QED
    BY <1>2, <2>2, <2>3 DEF PersistRow, Persist
<1>3. ASSUME NEW q \in Request, StartRow(q)
      PROVE  ReadInv'
  <2>1. UNCHANGED <<log, row, runRow, pollRow, wpc, wjob, wok>>
    BY <1>3 DEF StartRow, StartProcessing, workerVars, dbVars
  <2>2. job' = job \/ job'.status = "processing"
    BY <1>0, <1>3 DEF StartRow, StartProcessing, dbVars, JobRow
  <2> QED
    BY <2>1, <2>2 DEF ReadInv
<1>4. ASSUME NEW w \in Worker, CheckRow(w)
      PROVE  ReadInv'
  <2>1. /\ UNCHANGED <<job, log, row, pollRow, wjob>>
        /\ runRow' = [runRow EXCEPT ![w] = row]
        /\ \A v \in Worker : v # w => wpc'[v] = wpc[v] /\ wok'[v] = wok[v]
        /\ wpc'[w] = "mark" => log[wjob[w]] \notin {"absent", "sent"}
        /\ wpc'[w] # "record"
    BY <1>0, <1>4 DEF CheckRow, CheckIdempotency, WasEmailSent, Run, Goto, dbVars, TypeOK
  <2> QED
    BY <1>0, <2>1 DEF ReadInv
<1>5. ASSUME NEW w \in Worker, MarkRow(w)
      PROVE  ReadInv'
  <2>1. /\ UNCHANGED <<job, row, runRow, pollRow, wjob, wok>>
        /\ wpc[w] = "mark" /\ wpc'[w] = "send"
        /\ \A v \in Worker : v # w => wpc'[v] = wpc[v]
        /\ \/ log' = log
           \/ runRow[w] = row /\ log' = [log EXCEPT ![wjob[w]] = "processing"]
    BY <1>0, <1>5 DEF MarkRow, MarkProcessing, Same, Run, Goto, dbVars
  <2>2. CASE log' = log
    BY <2>1, <2>2 DEF ReadInv
  <2>3. CASE runRow[w] = row /\ log' = [log EXCEPT ![wjob[w]] = "processing"]
    <3>1. wjob[w] \in Recipient /\ job.status # "none"
      BY <1>0, <2>1, <2>3 DEF ReadInv, RunInv
    <3>2. \A v \in Worker : wpc[v] = "mark" => wjob[v] \in Recipient
      BY <1>0 DEF RunInv
    <3> QED
      BY <1>0, <2>1, <2>3, <3>1, <3>2 DEF ReadInv
  <2> QED
    BY <2>1, <2>2, <2>3
<1>6. ASSUME NEW w \in Worker, FindRow(w)
      PROVE  ReadInv'
  <2>1. wpc[w] = "record" /\ UNCHANGED <<job, row, pollRow>>
    BY <1>6 DEF FindRow, RecordResult, vars, dbVars
  <2>2. CASE UNCHANGED vars /\ runRow' = [runRow EXCEPT ![w] = row]
    BY <1>0, <2>1, <2>2 DEF ReadInv, vars, dbVars, workerVars
  <2>3. CASE log[Run(w)] = "absent" /\ RecordResult(w) /\ runRow' = runRow
    <3>1. /\ UNCHANGED <<log, wjob, wok>>
          /\ wpc' = [wpc EXCEPT ![w] = "ack"]
      BY <2>3 DEF RecordResult, Goto
    <3> QED
      BY <1>0, <2>1, <2>3, <3>1 DEF ReadInv
  <2> QED
    BY <1>6, <2>2, <2>3 DEF FindRow
<1>7. ASSUME NEW w \in Worker, RecordRow(w)
      PROVE  ReadInv'
  <2>1. /\ UNCHANGED <<job, row, runRow, pollRow, wjob, wok>>
        /\ wpc[w] = "record" /\ wpc'[w] \in {"count", "ack"}
        /\ \A v \in Worker : v # w => wpc'[v] = wpc[v]
        /\ \/ log' = log
           \/ log[wjob[w]] # "absent"
              /\ log' = [log EXCEPT ![wjob[w]] = IF wok[w] THEN "sent" ELSE "failed"]
    BY <1>0, <1>7 DEF RecordRow, RecordResult, RowInv, Run, Goto, dbVars
  <2>2. CASE log' = log
    BY <2>1, <2>2 DEF ReadInv
  <2>3. CASE log[wjob[w]] # "absent"
             /\ log' = [log EXCEPT ![wjob[w]] = IF wok[w] THEN "sent" ELSE "failed"]
    <3>1. wjob[w] \in Recipient /\ wok[w]
      BY <1>0, <2>1 DEF ReadInv, RunInv
    <3>2. \A v \in Worker : wpc[v] = "mark" => wjob[v] \in Recipient /\ wjob[v] # wjob[w]
      BY <1>0, <2>1, OneRunEach DEF RunInv
    <3>3. /\ log'[wjob[w]] = "sent" /\ job.status # "none"
          /\ \A r \in Recipient : r # wjob[w] => log'[r] = log[r]
      BY <1>0, <2>3, <3>1 DEF ReadInv
    <3> QED
      BY <2>1, <3>2, <3>3 DEF ReadInv
  <2> QED
    BY <2>1, <2>2, <2>3
<1>8. ASSUME NEW w \in Worker, CountRow(w)
      PROVE  ReadInv'
  <2>1. /\ UNCHANGED <<log, row, runRow, pollRow, wjob, wok>>
        /\ wpc' = [wpc EXCEPT ![w] = "ack"]
        /\ job'.status = job.status
    BY <1>0, <1>8 DEF CountRow, CountResult, Goto, dbVars, JobRow
  <2> QED
    BY <1>0, <2>1 DEF ReadInv
<1>9. CASE PollReadRow \/ PollSyncRow
  <2>1. /\ UNCHANGED <<log, row, runRow, wpc, wjob, wok>>
        /\ pollRow' \in {pollRow, row}
        /\ job' = job \/ job'.status = "completed"
    BY <1>0, <1>9 DEF PollReadRow, PollSyncRow, PollRead, PollSync, dbVars, workerVars, JobRow
  <2> QED
    BY <1>0, <2>1 DEF ReadInv
<1>10. CASE DeleteRow
  <2>1. /\ row' = row + 1 /\ UNCHANGED <<runRow, pollRow, wpc, wjob, wok>>
        /\ log' = [r \in Recipient |-> "absent"]
    BY <1>10 DEF DeleteRow, workerVars
  <2>2. \A w \in Worker : runRow[w] \in Nat /\ runRow[w] <= row
    BY <1>0 DEF ReadInv, Ids
  <2>3. pollRow \in Nat /\ pollRow <= row
    BY DEF ReadInv, RowInv, Ids
  <2>4. \A w \in Worker : runRow[w] <= row + 1 /\ runRow[w] # row + 1
    BY <1>0, <2>2
  <2>5. pollRow <= row + 1
    BY <1>0, <2>3
  <2> QED
    BY <2>1, <2>4, <2>5 DEF ReadInv
<1>11. CASE DeleteRead \/ UNCHANGED deletionVars
  BY <1>11 DEF DeleteRead, deletionVars, vars, dbVars, workerVars, ReadInv
<1> QED
  BY <1>1, <1>2, <1>3, <1>4, <1>5, <1>6, <1>7, <1>8, <1>9, <1>10, <1>11 DEF DeletionNext

\* A mail that has ended stays so, unless its row is deleted.
LEMMA EndedStays ==
  ASSUME QueueSide, RowInv, ReadInv, CompleteInv, [DeletionNext]_deletionVars, ~DeleteRow
  PROVE  /\ Terminal \subseteq Terminal' /\ row' = row
         /\ \/ job' = job
            \/ job.status = "none" /\ job'.status = "pending"
            \/ job.status # "none" /\ job'.valid = job.valid
                 /\ job'.status \in {job.status, "processing"}
            \/ job.status # "none" /\ poll /\ pollRow = row
                 /\ job'.valid = job.valid /\ job'.status = "completed"
            \/ job.status = "none" /\ job'.status \in {"none", "processing"}
<1>0. /\ TypeOK /\ RunInv /\ log \in [Recipient -> LogStatus] /\ job \in JobRow
  BY DEF QueueSide, TypeOK
<1> USE DEF rowVars
<1> DEFINE Stays == Terminal \subseteq Terminal'
           Row == \/ job' = job
                  \/ job.status = "none" /\ job'.status = "pending"
                  \/ job.status # "none" /\ job'.valid = job.valid
                       /\ job'.status \in {job.status, "processing"}
                  \/ job.status # "none" /\ poll /\ pollRow = row
                       /\ job'.valid = job.valid /\ job'.status = "completed"
                  \/ job.status = "none" /\ job'.status \in {"none", "processing"}
<1>1. CASE UNCHANGED <<dbVars, row>>
  BY <1>1 DEF dbVars, Terminal
<1>2. Unrelated => UNCHANGED <<dbVars, row>>
  <2>1. Unrelated => UNCHANGED dbVars
    BY DEF Unrelated, Post, LookupChunk, AddBulk, AbortRequest, Take, SendAccepted,
           SendRejected, SendUnreadable, SendThrows, SendLost, ThrowToBull,
           MoveToCompleted, MoveToFailed, DatabaseError, CrashRun, LoseLock, Promote,
           RequeueStalled
  <2> QED
    BY <2>1 DEF Unrelated
<1>3. ASSUME NEW q \in Request, PersistRow(q)
      PROVE  Stays /\ row' = row /\ Row
  <2>1. row' = row
    BY <1>3 DEF PersistRow
  <2>2. CASE job' = CreateJob(rpayload[q], Cardinality(toSend[q])) /\ log' = CreateBatch(toSend[q])
    BY <2>1, <2>2 DEF CreateJob, CreateBatch, Terminal
  <2> QED
    BY <1>1, <1>3, <2>1, <2>2 DEF PersistRow, Persist
<1>4. ASSUME NEW q \in Request, StartRow(q)
      PROVE  Stays /\ row' = row /\ Row
  <2>1. log' = log /\ row' = row
    BY <1>4 DEF StartRow, StartProcessing, dbVars
  <2>2. job' = job \/ (job'.status = "processing" /\ job'.valid = job.valid)
    BY <1>0, <1>4 DEF StartRow, StartProcessing, dbVars, JobRow
  <2> QED
    BY <2>1, <2>2 DEF Terminal
<1>5. ASSUME NEW w \in Worker, CheckRow(w) \/ FindRow(w)
      PROVE  Stays /\ row' = row /\ Row
  BY <1>1, <1>5 DEF CheckRow, FindRow, CheckIdempotency, RecordResult, vars, dbVars
<1>6. ASSUME NEW w \in Worker, MarkRow(w)
      PROVE  Stays /\ row' = row /\ Row
  <2>1. /\ job' = job /\ row' = row /\ wpc[w] = "mark"
        /\ \/ log' = log
           \/ runRow[w] = row /\ log' = [log EXCEPT ![wjob[w]] = "processing"]
    BY <1>6 DEF MarkRow, MarkProcessing, Same, Run, dbVars
  <2>2. wjob[w] \in Recipient
    BY <1>0, <2>1 DEF RunInv
  <2>3. runRow[w] = row => log[wjob[w]] \notin {"sent", "failed"}
    BY <2>1, <2>2 DEF ReadInv
  <2> QED
    BY <1>0, <2>1, <2>2, <2>3 DEF Terminal
<1>7. ASSUME NEW w \in Worker, RecordRow(w)
      PROVE  Stays /\ row' = row /\ Row
  <2>1. /\ job' = job /\ row' = row
        /\ \/ log' = log
           \/ log' = [log EXCEPT ![wjob[w]] = IF wok[w] THEN "sent" ELSE "failed"]
    BY <1>7 DEF RecordRow, RecordResult, Run, dbVars
  <2> QED
    BY <1>0, <2>1 DEF Terminal
<1>8. ASSUME NEW w \in Worker, CountRow(w)
      PROVE  Stays /\ row' = row /\ Row
  <2>1. /\ log' = log /\ row' = row
        /\ job' = job \/ (job.status # "none" /\ job'.status = job.status /\ job'.valid = job.valid)
    BY <1>0, <1>8 DEF CountRow, CountResult, dbVars, JobRow
  <2> QED
    BY <2>1 DEF Terminal
<1>9. ASSUME PollSyncRow
      PROVE  Stays /\ row' = row /\ Row
  <2>1. /\ log' = log /\ row' = row
        /\ \/ job' = job
           \/ poll /\ pollRow = row /\ job'.valid = job.valid /\ job'.status = "completed"
    BY <1>0, <1>9 DEF PollSyncRow, PollSync, Same, dbVars, JobRow
  <2>2. poll /\ pollRow = row => job.status # "none"
    BY DEF CompleteInv
  <2> QED
    BY <2>1, <2>2 DEF Terminal
<1>10. PollReadRow \/ DeleteRead \/ UNCHANGED deletionVars => UNCHANGED <<dbVars, row>>
  BY DEF PollReadRow, PollRead, DeleteRead, deletionVars, vars
<1> QED
  BY <1>1, <1>2, <1>3, <1>4, <1>5, <1>6, <1>7, <1>8, <1>9, <1>10 DEF DeletionNext

\* Only a poll that finds the campaign complete is about to write.
LEMMA PollKept ==
  ASSUME [DeletionNext]_deletionVars, ~DeleteRow, ~PollReadRow
  PROVE  poll' /\ pollRow' = row' => poll /\ pollRow = row
<1> USE DEF rowVars
<1>1. CASE UNCHANGED <<poll, row, pollRow>>
  BY <1>1
<1>2. Unrelated => UNCHANGED <<poll, row, pollRow>>
  BY DEF Unrelated, Post, LookupChunk, AddBulk, AbortRequest, Take, SendAccepted,
         SendRejected, SendUnreadable, SendThrows, SendLost, ThrowToBull,
         MoveToCompleted, MoveToFailed, DatabaseError, CrashRun, LoseLock, Promote,
         RequeueStalled
<1>3. \A q \in Request : PersistRow(q) \/ StartRow(q) => UNCHANGED <<poll, row, pollRow>>
  BY DEF PersistRow, Persist, StartRow, StartProcessing
<1>4. \A w \in Worker :
        CheckRow(w) \/ MarkRow(w) \/ FindRow(w) \/ RecordRow(w) \/ CountRow(w)
        => UNCHANGED <<poll, row, pollRow>>
  BY DEF CheckRow, CheckIdempotency, MarkRow, MarkProcessing, FindRow, RecordResult,
         RecordRow, CountRow, CountResult, vars
<1>5. PollSyncRow => ~poll'
  BY DEF PollSyncRow, PollSync
<1>6. DeleteRead \/ UNCHANGED deletionVars => UNCHANGED <<poll, row, pollRow>>
  BY DEF DeleteRead, deletionVars, vars
<1> QED
  BY <1>1, <1>2, <1>3, <1>4, <1>5, <1>6 DEF DeletionNext

\* A poll that found the campaign complete is right for good, or writes nothing because
\* its row is gone.
LEMMA StepComplete ==
  ASSUME QueueSide, QueueSide', RowInv, ReadInv, CompleteInv, [DeletionNext]_deletionVars
  PROVE  CompleteInv'
<1>0. /\ job.valid \in Nat /\ job'.valid \in Nat
      /\ Cardinality(Terminal) \in Nat /\ Cardinality(Terminal') \in Nat
      /\ Terminal \subseteq Terminal' => Cardinality(Terminal) <= Cardinality(Terminal')
  <2>1. Terminal \in SUBSET Recipient /\ Terminal' \in SUBSET Recipient
    BY DEF Terminal
  <2>2. job \in JobRow /\ job' \in JobRow
    BY DEF QueueSide, TypeOK
  <2> QED
    BY <2>1, <2>2, SetCount, SetsAssumption DEF JobRow
<1>1. CASE DeleteRow
  <2>1. /\ row' = row + 1 /\ pollRow' = pollRow /\ job'.status = "none"
    BY <1>1 DEF DeleteRow, NoJob
  <2>2. row \in Nat /\ pollRow \in Nat /\ pollRow <= row
    BY DEF RowInv, ReadInv, Ids
  <2>3. pollRow' # row'
    BY <2>1, <2>2
  <2> QED
    BY <2>1, <2>3 DEF CompleteInv
<1>2. CASE ~DeleteRow
  <2>1. ASSUME job.status # "none", Cardinality(Terminal) >= job.valid,
               job'.status # "none", job'.valid = job.valid
        PROVE  CompleteInv'
    <3>1. Cardinality(Terminal') >= job'.valid
      BY <1>0, <1>2, <2>1, EndedStays
    <3> QED
      BY <2>1, <3>1 DEF CompleteInv
  <2>2. CASE (poll /\ pollRow = row) \/ job.status = "completed"
    <3>1. job.status # "none" /\ Cardinality(Terminal) >= job.valid
      BY <2>2 DEF CompleteInv
    <3>2. job'.valid = job.valid
      BY <1>2, <3>1, EndedStays
    <3>3. job'.status # "none"
      BY <1>2, <3>1, EndedStays
    <3> QED
      BY <2>1, <3>1, <3>2, <3>3
  <2>3. CASE PollReadRow
    <3>1. /\ job' = job /\ job.status # "none"
          /\ Cardinality(Terminal) >= job.valid
      BY <2>3 DEF PollReadRow, PollRead, IsComplete, dbVars
    <3> QED
      BY <2>1, <3>1
  <2>4. CASE ~((poll /\ pollRow = row) \/ job.status = "completed") /\ ~PollReadRow
    <3>1. ~(poll' /\ pollRow' = row')
      BY <1>2, <2>4, PollKept
    <3>2. job'.status # "completed"
      BY <1>2, <2>4, EndedStays
    <3> QED
      BY <3>1, <3>2 DEF CompleteInv
  <2> QED
    BY <2>2, <2>3, <2>4
<1> QED
  BY <1>1, <1>2

\* NewRowIsItsOwn: the row of a campaign that is posted again says "completed" only when
\* its own logs do, and its logs never exist without it (deleteJob of jobController.ts,
\* the increments and status writes by id of JobRepository.ts), whoever has read the
\* deleted row and however often runs die, when runs keep their locks and no mail is
\* refused for good.
THEOREM NewRowStaysItsOwn ==
  ASSUME "lock" \notin Faults, Outcomes \cap {"reject", "unreadable"} = {}
  PROVE  DeletionSpec => []NewRowIsItsOwn
<1> DEFINE Sides == QueueSide /\ RowInv
           Own == SoleInv /\ ReadInv /\ CompleteInv
<1>1. DeletionInit => Own
  <2> SUFFICES ASSUME DeletionInit PROVE Own
    OBVIOUS
  <2>1. /\ \A r \in Recipient : log[r] = "absent"
        /\ \A w \in Worker : wpc[w] = "idle" /\ runRow[w] = 0
        /\ poll = FALSE /\ job = NoJob /\ row = 1 /\ pollRow = 0
    BY DEF DeletionInit, Init
  <2>2. SoleInv
    BY <2>1 DEF SoleInv
  <2>3. ReadInv
    BY <2>1 DEF ReadInv, NoJob
  <2>4. CompleteInv
    BY <2>1 DEF CompleteInv, NoJob
  <2> QED
    BY <2>2, <2>3, <2>4
<1>2. Sides /\ Sides' /\ Own /\ [DeletionNext]_deletionVars => Own'
  BY StepHolds, StepRead, StepComplete
<1>3. Sides /\ Own => NewRowIsItsOwn
  BY DEF ReadInv, CompleteInv, NewRowIsItsOwn, CompletedIsTruthful
<1> HIDE DEF Sides, Own
<1>4. DeletionSpec => []Sides
  BY DeletionInvariance DEF Sides
<1> QED
  BY <1>1, <1>2, <1>3, <1>4, PTL DEF DeletionSpec
-----------------------------------------------------------------------------
(***************************************************************************)
(* A campaign that is deleted keeps its promise all the same: what was     *)
(* promised is kept by the queue and its runs, not by the rows.            *)
(***************************************************************************)

\* What the promise rests on, besides the queue's side.
PromiseSide ==
  LogInv /\ OwedInv /\ AcceptedIsQueued /\ SuccessInv /\ RefusalInv /\ ReturnInv

\* A statement that finds its row gone, and the deletion: the queue and the mails stay,
\* runs go on to where they may give no more mails, and logs only go.
Rowless ==
  /\ UNCHANGED <<bullVars, wjob, wok, accepted, doubt>>
  /\ \A w \in Worker :
       \/ wpc'[w] = wpc[w]
       \/ wpc[w] = "mark" /\ wpc'[w] = "send"
       \/ wpc[w] \in {"record", "count"} /\ wpc'[w] \in {"count", "ack"}
  /\ \A r \in Recipient : log'[r] \in {log[r], "absent"}
  /\ \/ UNCHANGED <<requestVars, promised>>
     \/ \E q \in Request : rpc[q] = "status" /\ AnswerAccepted(q)

\* A step is one of the campaign, or one that finds a row gone or removes it.
LEMMA DeletionSteps ==
  ASSUME QueueSide, RowInv, [DeletionNext]_deletionVars
  PROVE  [Next]_vars \/ Rowless
<1> DEFINE Goal == [Next]_vars \/ Rowless
<1> SUFFICES Goal
  OBVIOUS
<1>0. wpc \in [Worker -> WorkerPC]
  BY DEF QueueSide, TypeOK
<1>1. CASE Unrelated
  BY <1>1 DEF Unrelated, Next, Handle, WorkerStep
<1>2. ASSUME NEW q \in Request, PersistRow(q) \/ StartRow(q)
      PROVE  Goal
  <2>1. CASE Persist(q) \/ StartProcessing(q)
    BY <2>1 DEF Next, Handle
  <2>2. CASE /\ rpc[q] = "status" /\ AnswerAccepted(q)
             /\ UNCHANGED <<dbVars, bullVars, workerVars, poll, accepted, doubt>>
    BY <2>2 DEF Rowless, dbVars, workerVars
  <2> QED
    BY <1>2, <2>1, <2>2 DEF PersistRow, StartRow
<1>3. ASSUME NEW w \in Worker,
             CheckRow(w) \/ MarkRow(w) \/ FindRow(w) \/ RecordRow(w) \/ CountRow(w)
      PROVE  Goal
  <2>1. CASE \/ CheckIdempotency(w) \/ MarkProcessing(w) \/ RecordResult(w)
             \/ CountResult(w) \/ UNCHANGED vars
    BY <2>1 DEF Next, WorkerStep
  <2>2. ASSUME NEW pc, Goto(w, pc),
               UNCHANGED <<dbVars, bullVars, requestVars, wjob, wok, poll, history>>,
               \/ wpc[w] = "mark" /\ pc = "send"
               \/ wpc[w] \in {"record", "count"} /\ pc \in {"count", "ack"}
        PROVE  Goal
    <3>1. wpc'[w] = pc /\ \A v \in Worker : v # w => wpc'[v] = wpc[v]
      BY <1>0, <2>2 DEF Goto
    <3> QED
      BY <2>2, <3>1 DEF Rowless, dbVars, history
  <2>3. w \in found => wpc[w] = "record"
    BY DEF RowInv
  <2> QED
    BY <1>3, <2>1, <2>2, <2>3 DEF CheckRow, MarkRow, FindRow, RecordRow, CountRow
<1>4. CASE PollReadRow \/ PollSyncRow
  <2>1. CASE PollRead \/ PollSync
    BY <2>1 DEF Next
  <2>2. CASE poll' = FALSE /\ UNCHANGED <<dbVars, bullVars, requestVars, workerVars, history>>
    BY <2>2 DEF Rowless, dbVars, workerVars, history
  <2> QED
    BY <1>4, <2>1, <2>2 DEF PollReadRow, PollSyncRow
<1>5. CASE DeleteRow
  BY <1>5 DEF DeleteRow, Rowless, workerVars, history
<1>6. CASE DeleteRead \/ UNCHANGED deletionVars
  BY <1>6 DEF DeleteRead, deletionVars
<1> QED
  BY <1>1, <1>2, <1>3, <1>4, <1>5, <1>6 DEF DeletionNext

\* A step without a row is one of the promise: an answer to a client, or none.
LEMMA RowlessKeeps ==
  ASSUME QueueSide, PromiseSide, Rowless
  PROVE  PromiseSide' /\ [Contract!Next]_(Contract!vars)
<1>0. Types
  BY TypesAndLimits DEF QueueSide
<1>1. /\ bull' = bull /\ returned' = returned /\ wjob' = wjob /\ wok' = wok
      /\ accepted' = accepted /\ doubt' = doubt
      /\ \A r \in Recipient : log'[r] \in {log[r], "absent"}
  BY DEF Rowless, bullVars
<1>2. LogInv'
  BY <1>1 DEF PromiseSide, LogInv
<1>3. SuccessInv' /\ ReturnInv'
  <2>1. \A w \in Worker : wpc[w] # "idle" => wpc'[w] # "idle"
    BY DEF Rowless
  <2>2. \A r \in Recipient : log'[r] = "sent" => log[r] = "sent"
    BY <1>1
  <2> QED
    BY <1>1, <2>1, <2>2 DEF PromiseSide, SuccessInv, ReturnInv
<1>4. RefusalInv'
  <2> SUFFICES ASSUME "unreadable" \notin Outcomes, NEW r \in Recipient,
                      RefusedAlready(r)' \/ \E w \in Worker : Refusing(w, r)'
               PROVE  accepted'[r] + Cardinality(Pending(r)') + Waiting(r)' <= doubt'[r]
    BY DEF RefusalInv
  <2>1. RefusedAlready(r) \/ \E w \in Worker : Refusing(w, r)
    BY <1>1 DEF RefusedAlready, Refusing, Rowless
  <2>2. accepted[r] + Cardinality(Pending(r)) + Waiting(r) <= doubt[r]
    BY <2>1 DEF PromiseSide, RefusalInv
  <2>3. Cardinality(Pending(r)') <= Cardinality(Pending(r)) /\ Cardinality(Pending(r)') \in Nat
    <3>1. Pending(r) \in SUBSET Worker /\ Pending(r)' \in SUBSET Worker
      BY DEF Pending
    <3>2. Pending(r)' \subseteq Pending(r)
      BY <1>1 DEF Pending, Rowless
    <3> QED
      BY <3>1, <3>2, RunCount
  <2>4. Waiting(r)' = Waiting(r)
    BY <1>1 DEF Waiting
  <2>5. /\ accepted[r] \in Nat /\ doubt[r] \in Nat /\ Waiting(r) \in {0, 1}
        /\ Cardinality(Pending(r)) \in Nat
    BY <1>0, LoadTypes
  <2> QED
    BY <1>1, <2>2, <2>3, <2>4, <2>5
<1>5. Outcome' = Outcome
  BY <1>1, SameReport
<1>6. CASE UNCHANGED <<requestVars, promised>>
  <2>1. OwedInv' /\ AcceptedIsQueued'
    BY <1>1, <1>6 DEF PromiseSide, OwedInv, AcceptedIsQueued, requestVars
  <2> QED
    BY <1>1, <1>2, <1>3, <1>4, <1>5, <1>6, <2>1 DEF PromiseSide, Contract!vars
<1>7. ASSUME NEW q \in Request, rpc[q] = "status", AnswerAccepted(q)
      PROVE  PromiseSide' /\ [Contract!Next]_(Contract!vars)
  <2>1. \A r \in rlist[q] : r \in Recipient /\ bull[r] # "absent"
    BY <1>0, <1>7 DEF PromiseSide, OwedInv, Types
  <2>2. promised' = promised \cup rlist[q]
    BY <1>7 DEF AnswerAccepted
  <2>3. AcceptedIsQueued'
    BY <1>1, <2>1, <2>2 DEF PromiseSide, AcceptedIsQueued
  <2>4. OwedInv'
    <3>1. \A p \in Request : \/ rlist'[p] = {} /\ toSend'[p] = {} /\ missing'[p] = {}
                             \/ /\ rpc'[p] = rpc[p] /\ rlist'[p] = rlist[p]
                                /\ toSend'[p] = toSend[p] /\ missing'[p] = missing[p]
      BY <1>0, <1>7 DEF AnswerAccepted, Answered, Types
    <3> QED
      BY <1>1, <3>1 DEF PromiseSide, OwedInv
  <2>5. \A r \in rlist[q] : Outcome[r] # "none"
    BY <1>0, <2>1, KnownReport DEF PromiseSide
  <2>6. Contract!Answer(rlist[q]) /\ rlist[q] \in SUBSET Recipient
    BY <1>1, <1>5, <2>1, <2>2, <2>5 DEF Contract!Answer
  <2>7. Contract!Next
    BY <2>6 DEF Contract!Next
  <2> QED
    BY <1>2, <1>3, <1>4, <2>3, <2>4, <2>7 DEF PromiseSide
<1> QED
  BY <1>6, <1>7 DEF Rowless

\* Every step of a campaign that may be deleted is one of its promise, or none.
LEMMA StepKeepsPromise ==
  ASSUME QueueSide, QueueSide', RowInv, PromiseSide, [DeletionNext]_deletionVars
  PROVE  PromiseSide' /\ [Contract!Next]_(Contract!vars)
<1>1. ASSUME [Next]_vars
      PROVE  PromiseSide' /\ [Contract!Next]_(Contract!vars)
  <2>1. Types /\ Types' /\ LockInv /\ RunInv /\ BudgetInv
    BY TypesAndLimits, <1>1, StepTypes DEF QueueSide, QueueInv
  <2>2. PromiseSide'
    BY <1>1, <2>1, StepLog, StepOwed, StepPromised, StepSuccess, StepRefusal, StepReturn
       DEF PromiseSide
  <2> QED
    BY <1>1, <2>1, <2>2, StepContract DEF PromiseSide
<1> QED
  BY <1>1, DeletionSteps, RowlessKeeps

\* deleteJob takes the rows of a campaign at any point, and neither a 202 nor the bound
\* on mails nor the report of a job: the campaign goes on implementing MailPromise,
\* whatever fails.
THEOREM DeletedKeepsPromise == DeletionSpec => PromiseKept
<1>1. DeletionInit => Contract!Init
  <2>1. ASSUME DeletionInit
        PROVE  Outcome = [r \in Recipient |-> "none"]
    BY <2>1, Reports DEF DeletionInit, Init, Outcome
  <2> QED
    BY <2>1 DEF DeletionInit, Init, Contract!Init
<1>2. DeletionInit => PromiseSide
  <2>1. DeletionInit => LogInv /\ OwedInv /\ AcceptedIsQueued
    BY InitIInv DEF DeletionInit, IInv, RequestInv
  <2>2. DeletionInit => SuccessInv /\ ReturnInv
    BY DEF DeletionInit, Init, SuccessInv, ReturnInv
  <2>3. DeletionInit => RefusalInv
    BY DEF DeletionInit, Init, RefusalInv, RefusedAlready, Refusing
  <2> QED
    BY <2>1, <2>2, <2>3 DEF PromiseSide
<1>3. QueueSide /\ QueueSide' /\ RowInv /\ PromiseSide /\ [DeletionNext]_deletionVars
        => PromiseSide' /\ [Contract!Next]_(Contract!vars)
  BY StepKeepsPromise
<1> QED
  BY <1>1, <1>2, <1>3, DeletionInvariance, PTL DEF DeletionSpec, PromiseKept, Contract!Spec
=============================================================================
