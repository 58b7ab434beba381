--------------------------- MODULE RecoveryProofs ---------------------------
(***************************************************************************)
(* What a campaign keeps through disasters and repairs, for every set of   *)
(* recipients, requests and runs, and any number of disasters and of       *)
(* commands, in any order.                                                 *)
(*                                                                         *)
(* As long as the stack runs, its steps are those of Campaign, and the     *)
(* step lemmas of CampaignProofs apply; what a disaster takes away is said *)
(* by leaving it out of the invariant, or by making it conditional.  While *)
(* the stack is stopped no request and no run is under way.                *)
(***************************************************************************)
EXTENDS Recovery, CampaignProofs

-----------------------------------------------------------------------------

\* The operator: a command runs on a stopped stack.
OperatorTypes ==
  /\ stopped \in BOOLEAN
  /\ command \in Command
  /\ todo \subseteq Recipient
  /\ commands \in 0 .. MaxCommands
  /\ strikes \in 0 .. MaxStrikes
  /\ damaged \in BOOLEAN
  /\ command # "none" => stopped

\* A stopped stack: no request, no run, no poll, no lock.
StopInv ==
  stopped => /\ \A q \in Request : rpc[q] = "idle" /\ toSend[q] = {} /\ missing[q] = {}
             /\ \A w \in Worker : wpc[w] = "idle"
             /\ \A r \in Recipient : lock[r] = None

\* What a command has yet to do is still as it found or wrote it.
TodoInv ==
  \A r \in todo :
    /\ command = "enqueue" => log[r] = "pending" /\ job.status # "none"
    /\ command = "retry" => bull[r] = "failed" /\ log[r] = "pending" /\ accepted[r] = 0

\* The part that no fault and no disaster breaks.
StackInv ==
  /\ Types /\ OperatorTypes /\ StopInv /\ TodoInv
  /\ LockInv /\ RunInv /\ PersistedInv
  /\ ~damaged => QueuedIsPersisted

-----------------------------------------------------------------------------
(***************************************************************************)
(* Steps.                                                                  *)
(***************************************************************************)

\* A step is one of the campaign while the stack runs, the scaling to zero, or one
\* of the operator that finds no request and no run under way and starts none.
LEMMA OperatorSteps ==
  ASSUME OperatorTypes, [RecoveryNext]_recoveryVars
  PROVE  \/ ~stopped /\ [Next]_vars /\ UNCHANGED operatorVars
         \/ Stop
         \/ stopped /\ UNCHANGED <<requestVars, workerVars, lock, poll>>
<1> DEFINE Quiet == stopped /\ UNCHANGED <<requestVars, workerVars, lock, poll>>
<1> USE DEF bullVars
<1>1. Resume \/ CommandDies \/ EnqueueMissing => Quiet
  BY DEF Resume, CommandDies, EnqueueMissing, Begin, vars, OperatorTypes
<1>2. LoseRedis \/ LoseLogs \/ RestoreDump => Quiet
  BY DEF LoseRedis, LoseLogs, RestoreDump, Strike
<1>3. Apply \/ RetryFailed => Quiet
  BY DEF Apply, RetryFailed, Begin
<1>4. EnqueueChunk \/ EnqueueDone => Quiet
  BY DEF EnqueueChunk, EnqueueDone, OperatorTypes
<1>5. ASSUME NEW r \in Recipient, RetryOne(r)
      PROVE  Quiet
  BY <1>5 DEF RetryOne, OperatorTypes
<1>6. CASE UNCHANGED recoveryVars
  BY <1>6 DEF recoveryVars, operatorVars, vars, OperatorTypes
<1>7. CASE Running
  BY <1>7 DEF Running
<1> QED
  BY <1>1, <1>2, <1>3, <1>4, <1>5, <1>6, <1>7 DEF RecoveryNext

\* What is said of requests and of runs holds while there are none.
LEMMA Deserted ==
  ASSUME \A q \in Request : rpc'[q] = "idle" /\ toSend'[q] = {} /\ missing'[q] = {},
         \A w \in Worker : wpc'[w] = "idle",
         \A r \in Recipient : lock'[r] = None
  PROVE  /\ StopInv' /\ LockInv' /\ RunInv' /\ PersistedInv'
         /\ SoleInv' /\ StageInv'
BY DEF StopInv, LockInv, RunInv, PersistedInv, SoleInv, StageInv

\* Scaling to zero leaves such a stack.
LEMMA StopDeserts ==
  ASSUME Stop
  PROVE  /\ StopInv' /\ LockInv' /\ RunInv' /\ PersistedInv'
         /\ SoleInv' /\ StageInv'
<1>1. /\ \A q \in Request : rpc'[q] = "idle" /\ toSend'[q] = {} /\ missing'[q] = {}
      /\ \A w \in Worker : wpc'[w] = "idle"
      /\ \A r \in Recipient : lock'[r] = None
  BY DEF Stop
<1> QED
  BY <1>1, Deserted

\* And the operator keeps it so.
LEMMA OperatorDeserts ==
  ASSUME StopInv, stopped, UNCHANGED <<requestVars, workerVars, lock, poll>>
  PROVE  /\ StopInv' /\ LockInv' /\ RunInv' /\ PersistedInv'
         /\ SoleInv' /\ StageInv'
<1>1. /\ \A q \in Request : rpc'[q] = "idle" /\ toSend'[q] = {} /\ missing'[q] = {}
      /\ \A w \in Worker : wpc'[w] = "idle"
      /\ \A r \in Recipient : lock'[r] = None
  BY DEF StopInv, requestVars, workerVars
<1> QED
  BY <1>1, Deserted

\* The recounted row has the type of a jobs row.
LEMMA RecountedType ==
  ASSUME job \in JobRow, NEW logs
  PROVE  /\ Recounted(logs) \in JobRow
         /\ Recounted(logs).status = job.status /\ Recounted(logs).payload = job.payload
<1>1. Count(logs, "sent") \in Nat /\ Count(logs, "failed") \in Nat
  BY ListSize DEF Count
<1> QED
  BY <1>1 DEF Recounted, JobRow

\* A report without blockers says of every Bull job whether it is sent, failed or
\* pending, and agrees with the rows that are there.
LEMMA CleanReport ==
  ASSUME Types, NoBlockers
  PROVE  /\ job.status # "none"
         /\ \A r \in Queued : /\ data[r] = job.payload
                              /\ ClassifySnapshot(r) \in {"sent", "failed", "pending"}
                              /\ log[r] # "absent" /\ ClassifySnapshot(r) # "pending"
                                   => log[r] = ClassifySnapshot(r)
BY DEF NoBlockers, MatchesQueueData, ClassifySnapshot, Conflicts

\* What --apply writes.
LEMMA ApplyWrites ==
  ASSUME Types, Apply
  PROVE  /\ job' \in JobRow /\ job'.status # "none" /\ job'.payload = job.payload
         /\ log' \in [Recipient -> LogStatus]
         /\ \A r \in Recipient : bull[r] = "absent" => log'[r] = log[r]
         /\ \A r \in Recipient : bull[r] # "absent" =>
              /\ log'[r] # "absent" /\ data[r] = job.payload
              /\ ClassifySnapshot(r) # "pending" => log'[r] = ClassifySnapshot(r)
<1>1. /\ job.status # "none"
      /\ \A r \in Queued : /\ data[r] = job.payload
                           /\ ClassifySnapshot(r) \in {"sent", "failed", "pending"}
                           /\ log[r] # "absent" /\ ClassifySnapshot(r) # "pending"
                                => log[r] = ClassifySnapshot(r)
  BY CleanReport DEF Apply
<1>2. log' = [r \in Recipient |->
                IF r \in Queued \ Logged THEN ClassifySnapshot(r) ELSE log[r]]
  BY DEF Apply
<1>3. log' \in [Recipient -> LogStatus]
  BY <1>1, <1>2 DEF Types, LogStatus
<1>4. \A r \in Recipient : bull[r] = "absent" => log'[r] = log[r]
  BY <1>2 DEF Queued
<1>5. ASSUME NEW r \in Recipient, bull[r] # "absent"
      PROVE  /\ log'[r] # "absent" /\ data[r] = job.payload
             /\ ClassifySnapshot(r) # "pending" => log'[r] = ClassifySnapshot(r)
  <2>1. r \in Queued
    BY <1>5 DEF Queued
  <2>2. CASE log[r] = "absent"
    BY <1>1, <1>2, <2>1, <2>2 DEF Logged
  <2>3. CASE log[r] # "absent"
    BY <1>1, <1>2, <2>1, <2>3 DEF Logged
  <2> QED
    BY <2>2, <2>3
<1>6. /\ Recounted(log') \in JobRow /\ Recounted(log').payload = job.payload
      /\ job' = Rated(Recounted(log'))
  BY RecountedType DEF Types, Apply
<1>7. job' \in JobRow /\ job'.status # "none" /\ job'.payload = job.payload
  BY <1>6 DEF Rated, JobRow, JobStatus
<1> QED
  BY <1>3, <1>4, <1>5, <1>7

\* What the transaction of --retry-failed writes.
LEMMA RetryWrites ==
  ASSUME Types, RetryFailed
  PROVE  /\ job' \in JobRow /\ job'.status # "none" /\ job'.payload = job.payload
         /\ log' \in [Recipient -> LogStatus]
         /\ \A r \in Recipient : log'[r] = IF bull[r] = "failed" THEN "pending" ELSE log[r]
         /\ \A r \in Recipient : bull[r] = "failed" => accepted[r] = 0
<1>1. log' = [r \in Recipient |-> IF r \in FailedJobs THEN "pending" ELSE log[r]]
  BY DEF RetryFailed
<1>2. Recounted(log') \in JobRow /\ Recounted(log').payload = job.payload
  BY RecountedType DEF Types
<1>3. job' = [Recounted(log') EXCEPT !.status = "processing"]
  BY DEF RetryFailed
<1>4. job' \in JobRow /\ job'.status # "none" /\ job'.payload = job.payload
  BY <1>2, <1>3 DEF JobRow, JobStatus
<1>5. \A r \in Recipient : bull[r] = "failed" => accepted[r] = 0
  BY DEF RetryFailed, FailedJobs
<1> QED
  BY <1>1, <1>4, <1>5 DEF FailedJobs, Types, LogStatus

\* What the steps of the operator do to the queue: lose it, add jobs that are not
\* there, retry a failed one, or nothing; lost rows leave it as it is, but nobody may
\* know any more how its mails ended.
LEMMA OperatorQueue ==
  ASSUME StackInv, stopped, [RecoveryNext]_recoveryVars
  PROVE  \/ LoseRedis
         \/ EnqueueChunk
         \/ \E r \in Recipient : RetryOne(r)
         \/ (LoseLogs \/ RestoreDump) /\ UNCHANGED <<bullVars, accepted, promised>>
         \/ UNCHANGED <<bullVars, accepted, doubt, promised>>
<1> DEFINE Same == UNCHANGED <<bullVars, accepted, doubt, promised>>
<1> USE DEF history
<1>1. Resume \/ CommandDies \/ EnqueueMissing => Same
  BY DEF Resume, CommandDies, EnqueueMissing, vars
<1>2. Apply \/ RetryFailed \/ EnqueueDone => Same
  BY DEF Apply, RetryFailed, EnqueueDone
<1>3. LoseLogs \/ RestoreDump => UNCHANGED <<bullVars, accepted, promised>>
  BY DEF LoseLogs, RestoreDump
<1>4. UNCHANGED recoveryVars => Same
  BY DEF recoveryVars, vars
<1>5. ~Running /\ ~Stop
  BY DEF Running, Stop
<1> QED
  BY <1>1, <1>2, <1>3, <1>4, <1>5 DEF RecoveryNext

\* A disaster only adds doubts, one for each mail whose end it forgets: a recipient
\* out of the queue that loses the row which said how its mail ended gets one.
LEMMA DisasterDoubts ==
  ASSUME Types, LoseRedis \/ LoseLogs \/ RestoreDump
  PROVE  /\ doubt' \in [Recipient -> Nat]
         /\ \A r \in Recipient : doubt'[r] >= doubt[r]
         /\ LoseLogs \/ RestoreDump =>
              \A r \in Recipient :
                \/ log'[r] = log[r]
                \/ log'[r] = "absent" /\ (r \in OnlyLogged => doubt'[r] = doubt[r] + 1)
<1>1. doubt \in [Recipient -> Nat]
  BY DEF Types
<1>2. ASSUME NEW R, Forget(R)
      PROVE  /\ doubt' \in [Recipient -> Nat]
             /\ \A r \in Recipient : doubt'[r] >= doubt[r]
             /\ \A r \in Recipient \cap R : doubt'[r] = doubt[r] + 1
  BY <1>1, <1>2 DEF Forget
<1>3. CASE LoseRedis
  <2>1. /\ doubt' \in [Recipient -> Nat]
        /\ \A r \in Recipient : doubt'[r] >= doubt[r]
    BY <1>2, <1>3 DEF LoseRedis
  <2>2. UNCHANGED log
    BY <1>3 DEF LoseRedis, dbVars
  <2> QED
    BY <2>1, <2>2
<1>4. CASE LoseLogs
  <2>1. PICK lost : /\ log' = [r \in Recipient |-> IF r \in lost THEN "absent" ELSE log[r]]
                    /\ Forget(lost \cap OnlyLogged)
    BY <1>4 DEF LoseLogs
  <2> QED
    BY <1>2, <2>1
<1>5. CASE RestoreDump
  <2>1. Forget(OnlyLogged) /\ log' = [r \in Recipient |-> "absent"]
    BY <1>5 DEF RestoreDump
  <2> QED
    BY <1>2, <2>1
<1> QED
  BY <1>3, <1>4, <1>5

\* And to the database.
LEMMA OperatorDatabase ==
  ASSUME StackInv, stopped, [RecoveryNext]_recoveryVars
  PROVE  LoseLogs \/ RestoreDump \/ Apply \/ RetryFailed \/ EnqueueDone \/ UNCHANGED dbVars
<1> DEFINE Same == UNCHANGED dbVars
<1>1. Resume \/ CommandDies \/ EnqueueMissing => Same
  BY DEF Resume, CommandDies, EnqueueMissing, vars
<1>2. LoseRedis \/ EnqueueChunk => Same
  BY DEF LoseRedis, EnqueueChunk
<1>3. ASSUME NEW r \in Recipient, RetryOne(r)
      PROVE  Same
  BY <1>3 DEF RetryOne
<1>4. UNCHANGED recoveryVars => Same
  BY DEF recoveryVars, vars
<1>5. ~Running /\ ~Stop
  BY DEF Running, Stop
<1> QED
  BY <1>1, <1>2, <1>3, <1>4, <1>5 DEF RecoveryNext

\* The operator's own variables keep their types, and a command runs on a stopped stack.
LEMMA StepOperator ==
  ASSUME OperatorTypes, [RecoveryNext]_recoveryVars
  PROVE  OperatorTypes'
<1> USE DEF OperatorTypes, Command
<1>1. CASE UNCHANGED operatorVars
  BY <1>1 DEF operatorVars
<1>2. CASE Stop \/ Resume \/ CommandDies
  <2>1. /\ stopped' \in BOOLEAN /\ todo' \subseteq Recipient /\ command' \in {command, "none"}
        /\ command' # "none" => stopped'
        /\ UNCHANGED <<commands, strikes, damaged>>
    BY <1>2 DEF Stop, Resume, CommandDies
  <2> QED
    BY <2>1
<1>3. CASE LoseRedis \/ LoseLogs \/ RestoreDump
  <2>1. /\ strikes < MaxStrikes /\ strikes' = strikes + 1
        /\ UNCHANGED <<stopped, command, todo, commands>> /\ damaged' \in {TRUE, damaged}
    BY <1>3 DEF LoseRedis, LoseLogs, RestoreDump, Strike
  <2>2. strikes' \in 0 .. MaxStrikes
    BY <2>1, RecoveryAssumption
  <2> QED
    BY <2>1, <2>2
<1>4. ASSUME NEW cmd \in Command, NEW rs \in SUBSET Recipient, Begin(cmd, rs),
             stopped' = stopped, strikes' = strikes, damaged' \in BOOLEAN
      PROVE  OperatorTypes'
  <2>1. commands' \in 0 .. MaxCommands
    BY <1>4, RecoveryAssumption DEF Begin
  <2>2. stopped /\ command' = cmd /\ todo' = rs
    BY <1>4 DEF Begin
  <2> QED
    BY <1>4, <2>1, <2>2
<1>5. CASE Apply \/ EnqueueMissing \/ RetryFailed
  <2>1. \E cmd \in Command, rs \in SUBSET Recipient :
          /\ Begin(cmd, rs)
          /\ stopped' = stopped /\ strikes' = strikes /\ damaged' \in BOOLEAN
    <3>1. FailedJobs \in SUBSET Recipient /\ MissingJobs \in SUBSET Recipient
      BY DEF FailedJobs, MissingJobs
    <3>2. Apply => Begin("none", {}) /\ stopped' = stopped /\ strikes' = strikes /\ damaged' = FALSE
      BY DEF Apply
    <3>3. EnqueueMissing => /\ Begin("enqueue", MissingJobs)
                            /\ stopped' = stopped /\ strikes' = strikes /\ damaged' = damaged
      BY DEF EnqueueMissing
    <3>4. RetryFailed => /\ Begin("retry", FailedJobs)
                         /\ stopped' = stopped /\ strikes' = strikes /\ damaged' = damaged
      BY DEF RetryFailed
    <3>5. damaged \in BOOLEAN /\ {} \in SUBSET Recipient
      OBVIOUS
    <3>6. CASE Apply
      BY <3>2, <3>5, <3>6
    <3>7. CASE EnqueueMissing
      BY <3>1, <3>3, <3>5, <3>7
    <3>8. CASE RetryFailed
      BY <3>1, <3>4, <3>5, <3>8
    <3> QED
      BY <1>5, <3>6, <3>7, <3>8
  <2> QED
    BY <1>4, <2>1
<1>6. CASE EnqueueChunk \/ EnqueueDone
  <2>1. /\ todo' \subseteq Recipient /\ command' \in {command, "none"}
        /\ UNCHANGED <<stopped, commands, strikes, damaged>>
    BY <1>6 DEF EnqueueChunk, EnqueueDone
  <2> QED
    BY <2>1
<1>7. ASSUME NEW r \in Recipient, RetryOne(r)
      PROVE  OperatorTypes'
  BY <1>7 DEF RetryOne
<1>8. UNCHANGED recoveryVars => UNCHANGED operatorVars
  BY DEF recoveryVars
<1>9. Running => UNCHANGED operatorVars
  BY DEF Running
<1> QED
  BY <1>1, <1>2, <1>3, <1>5, <1>6, <1>7, <1>8, <1>9 DEF RecoveryNext

\* The operator leaves every variable in its type.
LEMMA OperatorKeepsTypes ==
  ASSUME StackInv, stopped, [RecoveryNext]_recoveryVars
  PROVE  Types'
<1>1. UNCHANGED <<requestVars, workerVars, lock, poll>>
  BY OperatorSteps DEF StackInv, Stop
<1>2. /\ bull' \in [Recipient -> BullState]
      /\ data' \in [Recipient -> Payload \cup {None}]
      /\ returned' \in [Recipient -> {"none", "success", "failure"}]
      /\ attemptsMade' \in [Recipient -> Nat]
      /\ stalled' \in [Recipient -> Nat]
      /\ doubt' \in [Recipient -> Nat]
      /\ accepted' = accepted /\ promised' = promised
  <2>0. LoseRedis \/ LoseLogs \/ RestoreDump => doubt' \in [Recipient -> Nat]
    BY DisasterDoubts DEF StackInv
  <2> USE DEF StackInv, Types, BullState
  <2>1. CASE LoseRedis
    BY <2>0, <2>1 DEF LoseRedis
  <2>2. CASE EnqueueChunk
    <3>1. job.payload \in Payload \cup {None}
      BY DEF JobRow
    <3> QED
      BY <2>2, <3>1 DEF EnqueueChunk, BullAdd, history
  <2>3. ASSUME NEW r \in Recipient, RetryOne(r)
        PROVE  /\ bull' \in [Recipient -> BullState]
               /\ UNCHANGED <<data, returned, attemptsMade, stalled, doubt, accepted, promised>>
    BY <2>3 DEF RetryOne, history
  <2>4. CASE UNCHANGED <<bullVars, accepted, doubt, promised>>
    BY <2>4 DEF bullVars
  <2>5. CASE (LoseLogs \/ RestoreDump) /\ UNCHANGED <<bullVars, accepted, promised>>
    BY <2>0, <2>5 DEF bullVars
  <2> QED
    BY <2>1, <2>2, <2>3, <2>4, <2>5, OperatorQueue
<1>3. job' \in JobRow /\ log' \in [Recipient -> LogStatus]
  <2>1. CASE LoseLogs
    <3>1. job' = job
      BY <2>1 DEF LoseLogs
    <3>2. PICK lost : log' = [r \in Recipient |-> IF r \in lost THEN "absent" ELSE log[r]]
      BY <2>1 DEF LoseLogs
    <3> QED
      BY <3>1, <3>2 DEF StackInv, Types, LogStatus
  <2>2. CASE RestoreDump
    BY <2>2 DEF RestoreDump, NoJob, JobRow, JobStatus, LogStatus
  <2>3. CASE Apply
    BY <2>3, ApplyWrites DEF StackInv
  <2>4. CASE RetryFailed
    BY <2>4, RetryWrites DEF StackInv
  <2>5. CASE EnqueueDone
    BY <2>5 DEF EnqueueDone, StackInv, Types, JobRow, JobStatus
  <2>6. CASE UNCHANGED dbVars
    BY <2>6 DEF StackInv, Types, dbVars
  <2> QED
    BY <2>1, <2>2, <2>3, <2>4, <2>5, <2>6, OperatorDatabase
<1> QED
  BY <1>1, <1>2, <1>3 DEF StackInv, Types, requestVars, workerVars

\* What a command has yet to do stays as it found or wrote it.
LEMMA OperatorTodo ==
  ASSUME StackInv, stopped, [RecoveryNext]_recoveryVars
  PROVE  TodoInv'
<1> USE DEF TodoInv
<1>1. CASE command' = "none"
  BY <1>1
<1>2. CASE EnqueueMissing
  BY <1>2 DEF EnqueueMissing, Begin, MissingJobs, OnlyDatabase, vars, dbVars
<1>3. CASE RetryFailed
  <2>1. todo' = FailedJobs /\ command' = "retry" /\ bull' = bull /\ accepted' = accepted
    BY <1>3 DEF RetryFailed, Begin, bullVars, history
  <2> QED
    BY <1>3, <2>1, RetryWrites DEF StackInv, FailedJobs
<1>4. CASE EnqueueChunk
  BY <1>4 DEF EnqueueChunk, StackInv, dbVars
<1>5. ASSUME NEW r \in Recipient, RetryOne(r)
      PROVE  TodoInv'
  <2>1. /\ todo' = todo \ {r} /\ command = "retry"
        /\ log' = log /\ accepted' = accepted
        /\ \A s \in Recipient : s # r => bull'[s] = bull[s]
    BY <1>5 DEF RetryOne, StackInv, Types, dbVars, history
  <2>2. \A s \in todo' : s \in todo /\ s # r /\ s \in Recipient
    BY <2>1 DEF StackInv, OperatorTypes
  <2>3. command' # "enqueue"
    BY <1>5 DEF RetryOne
  <2> QED
    BY <2>1, <2>2, <2>3 DEF StackInv
<1>6. CASE UNCHANGED recoveryVars
  BY <1>6 DEF recoveryVars, operatorVars, vars, dbVars, bullVars, history, StackInv
<1>7. CASE Resume \/ LoseRedis \/ LoseLogs \/ RestoreDump \/ Apply \/ EnqueueDone \/ CommandDies
  BY <1>1, <1>7 DEF Resume, LoseRedis, LoseLogs, RestoreDump, Strike, Apply, Begin,
                    EnqueueDone, CommandDies
<1>8. ~Running /\ ~Stop
  BY DEF Running, Stop
<1> QED
  BY <1>2, <1>3, <1>4, <1>5, <1>6, <1>7, <1>8 DEF RecoveryNext

\* Unless rows were lost, a command leaves every Bull job persisted, and --apply makes
\* it so again.
LEMMA OperatorPersists ==
  ASSUME StackInv, stopped, [RecoveryNext]_recoveryVars, ~damaged'
  PROVE  QueuedIsPersisted'
<1> USE DEF QueuedIsPersisted
<1>1. CASE LoseRedis
  BY <1>1 DEF LoseRedis
<1>2. CASE Apply
  <2>1. bull' = bull /\ data' = data
    BY <1>2 DEF Apply, bullVars
  <2> QED
    BY <1>2, <2>1, ApplyWrites DEF StackInv
<1>3. CASE RetryFailed
  <2>1. bull' = bull /\ data' = data /\ ~damaged
    BY <1>3 DEF RetryFailed, bullVars
  <2> QED
    BY <1>3, <2>1, RetryWrites DEF StackInv
<1>4. CASE EnqueueChunk
  <2>1. ~damaged /\ job' = job /\ log' = log /\ command = "enqueue"
    BY <1>4 DEF EnqueueChunk, dbVars
  <2>2. PICK chunk \in SUBSET todo : BullAdd(chunk, job.payload)
    BY <1>4 DEF EnqueueChunk
  <2>3. ASSUME NEW r \in Recipient, bull'[r] # "absent", bull[r] = "absent"
        PROVE  log[r] = "pending" /\ job.status # "none" /\ data'[r] = job.payload
    <3>1. r \in chunk /\ data'[r] = job.payload
      BY <2>2, <2>3 DEF BullAdd, StackInv, Types
    <3> QED
      BY <2>1, <3>1 DEF StackInv, TodoInv
  <2>4. ASSUME NEW r \in Recipient, bull[r] # "absent"
        PROVE  data'[r] = data[r]
    BY <2>2, <2>4 DEF BullAdd
  <2> QED
    BY <2>1, <2>3, <2>4 DEF StackInv
<1>5. ASSUME NEW r \in Recipient, RetryOne(r)
      PROVE  QueuedIsPersisted'
  <2>1. /\ ~damaged /\ job' = job /\ log' = log /\ data' = data
        /\ command = "retry" /\ r \in todo
        /\ \A s \in Recipient : s # r => bull'[s] = bull[s]
    BY <1>5 DEF RetryOne, dbVars, StackInv, Types
  <2>2. bull[r] # "absent"
    BY <2>1 DEF StackInv, TodoInv
  <2> QED
    BY <2>1, <2>2 DEF StackInv
<1>6. CASE EnqueueDone
  <2>1. bull' = bull /\ data' = data /\ log' = log /\ ~damaged
    BY <1>6 DEF EnqueueDone, bullVars
  <2>2. job'.status = "processing" /\ job'.payload = job.payload
    BY <1>6 DEF EnqueueDone, StackInv, Types, JobRow
  <2> QED
    BY <2>1, <2>2 DEF StackInv
<1>7. CASE UNCHANGED <<vars, damaged>>
  BY <1>7 DEF vars, dbVars, bullVars, StackInv
<1>8. Resume \/ EnqueueMissing \/ CommandDies \/ UNCHANGED recoveryVars
        => UNCHANGED <<vars, damaged>>
  BY DEF Resume, EnqueueMissing, CommandDies, recoveryVars, operatorVars
<1>9. ~LoseLogs /\ ~RestoreDump
  BY DEF LoseLogs, RestoreDump
<1>10. ~Running /\ ~Stop
  BY DEF Running, Stop
<1> QED
  BY <1>1, <1>2, <1>3, <1>4, <1>5, <1>6, <1>7, <1>8, <1>9, <1>10 DEF RecoveryNext

\* Scaling to zero changes neither the database nor the queue but for its locks.
LEMMA StopKeeps ==
  ASSUME StackInv, Stop
  PROVE  Types' /\ TodoInv' /\ (~damaged' => QueuedIsPersisted')
<1>1. UNCHANGED <<job, log, bull, data, returned, attemptsMade, stalled,
                  promised, accepted, doubt, todo, command, damaged>>
  BY DEF Stop, dbVars, history
<1>2. command' = "none"
  BY <1>1 DEF Stop, StackInv, OperatorTypes
<1>3. /\ rpc' \in [Request -> RequestPC]
      /\ rlist' \in [Request -> SUBSET Recipient]
      /\ rpayload' \in [Request -> Payload \cup {None}]
      /\ toSend' \in [Request -> SUBSET Recipient]
      /\ missing' \in [Request -> SUBSET Recipient]
      /\ blocked' \in [Request -> BOOLEAN]
  BY DEF Stop, RequestPC
<1>4. /\ wpc' \in [Worker -> WorkerPC]
      /\ wjob' \in [Worker -> Recipient \cup {None}]
      /\ wok' \in [Worker -> BOOLEAN]
      /\ lock' \in [Recipient -> Worker \cup {None}]
      /\ poll' \in BOOLEAN
  BY DEF Stop, WorkerPC
<1>5. Types'
  BY <1>1, <1>3, <1>4 DEF StackInv, Types
<1>6. TodoInv'
  BY <1>2 DEF TodoInv
<1>7. ~damaged' => QueuedIsPersisted'
  BY <1>1 DEF StackInv, QueuedIsPersisted
<1> QED
  BY <1>5, <1>6, <1>7

\* The part of the invariant that no fault and no disaster breaks is inductive.
LEMMA StepStack ==
  ASSUME StackInv, [RecoveryNext]_recoveryVars
  PROVE  StackInv'
<1>1. OperatorTypes'
  BY StepOperator DEF StackInv
<1>2. CASE ~stopped /\ [Next]_vars /\ UNCHANGED operatorVars
  <2>1. Types' /\ LockInv' /\ RunInv' /\ PersistedInv'
    BY <1>2, StepTypes, StepLock, StepRun, StepPersisted DEF StackInv
  <2>2. ~damaged' => QueuedIsPersisted'
    BY <1>2, StepQueued DEF StackInv, operatorVars
  <2>3. StopInv' /\ TodoInv'
    BY <1>1, <1>2 DEF StackInv, operatorVars, OperatorTypes, StopInv, TodoInv
  <2> QED
    BY <1>1, <2>1, <2>2, <2>3 DEF StackInv
<1>3. CASE Stop
  BY <1>1, <1>3, StopDeserts, StopKeeps DEF StackInv
<1>4. CASE stopped /\ UNCHANGED <<requestVars, workerVars, lock, poll>>
  BY <1>1, <1>4, OperatorDeserts, OperatorKeepsTypes, OperatorTodo, OperatorPersists
     DEF StackInv
<1> QED
  BY <1>2, <1>3, <1>4, OperatorSteps DEF StackInv

\* And it holds in the initial state.
LEMMA InitStack == RecoveryInit => StackInv
<1> SUFFICES ASSUME RecoveryInit PROVE StackInv
  OBVIOUS
<1>1. TypeOK /\ QueueInv /\ RunInv /\ RequestInv /\ QueuedIsPersisted
  BY InitIInv DEF RecoveryInit, IInv
<1>2. Types
  BY <1>1, TypesAndLimits
<1>3. OperatorTypes
  <2>1. commands \in 0 .. MaxCommands /\ strikes \in 0 .. MaxStrikes
    BY RecoveryAssumption DEF RecoveryInit
  <2> QED
    BY <2>1 DEF RecoveryInit, OperatorTypes, Command
<1>4. StopInv /\ TodoInv
  BY DEF RecoveryInit, StopInv, TodoInv
<1> QED
  BY <1>1, <1>2, <1>3, <1>4 DEF StackInv, QueueInv, RequestInv

\* So it always holds.
LEMMA StackInvariance == RecoverySpec => []StackInv
  BY InitStack, StepStack, PTL DEF RecoverySpec

\* Whatever is lost and whatever the commands write, the campaign, the queue and the
\* operator keep their types, and no command runs while the stack does.
THEOREM RecoveryTypeCorrect == RecoverySpec => []RecoveryTypeOK
<1>1. StackInv => RecoveryTypeOK
  BY DEF StackInv, Types, OperatorTypes, RecoveryTypeOK
<1> QED
  BY <1>1, StackInvariance, PTL

-----------------------------------------------------------------------------
(***************************************************************************)
(* The report repairs: the queue and the database agree.                   *)
(***************************************************************************)

\* Runs that hold their locks, and, unless rows were lost, a log that says what the
\* runs and the completed jobs say.
AgreeInv ==
  /\ SoleInv
  /\ ~damaged => StageInv /\ QueueAndLogAgree

\* The operator leaves the queue and the database in agreement, and --apply makes them
\* agree.
LEMMA OperatorAgrees ==
  ASSUME StackInv, AgreeInv, stopped, [RecoveryNext]_recoveryVars, ~damaged'
  PROVE  QueueAndLogAgree'
<1> USE DEF QueueAndLogAgree
<1>1. CASE LoseRedis
  BY <1>1 DEF LoseRedis
<1>2. CASE Apply
  <2>1. bull' = bull /\ returned' = returned
    BY <1>2 DEF Apply, bullVars
  <2> QED
    BY <1>2, <2>1, ApplyWrites DEF StackInv, ClassifySnapshot
<1>3. CASE RetryFailed
  <2>1. bull' = bull /\ returned' = returned /\ ~damaged
    BY <1>3 DEF RetryFailed, bullVars
  <2> QED
    BY <1>3, <2>1, RetryWrites DEF StackInv, AgreeInv
<1>4. CASE EnqueueChunk
  <2>1. ~damaged /\ log' = log /\ returned' = returned
    BY <1>4 DEF EnqueueChunk, dbVars
  <2>2. \A r \in Recipient : bull'[r] \in {bull[r], "waiting"}
    BY <1>4 DEF EnqueueChunk, BullAdd
  <2> QED
    BY <2>1, <2>2 DEF AgreeInv
<1>5. ASSUME NEW s \in Recipient, RetryOne(s)
      PROVE  QueueAndLogAgree'
  <2>1. ~damaged /\ log' = log /\ returned' = returned
    BY <1>5 DEF RetryOne, dbVars
  <2>2. \A r \in Recipient : bull'[r] \in {bull[r], "waiting"}
    BY <1>5 DEF RetryOne, StackInv, Types
  <2> QED
    BY <2>1, <2>2 DEF AgreeInv
<1>6. CASE UNCHANGED <<log, bullVars, damaged>>
  BY <1>6 DEF bullVars, AgreeInv
<1>7. Resume \/ EnqueueMissing \/ EnqueueDone \/ CommandDies \/ UNCHANGED recoveryVars
        => UNCHANGED <<log, bullVars, damaged>>
  BY DEF Resume, EnqueueMissing, EnqueueDone, CommandDies, recoveryVars, operatorVars, vars,
         dbVars
<1>8. ~LoseLogs /\ ~RestoreDump
  BY DEF LoseLogs, RestoreDump
<1>9. ~Running /\ ~Stop
  BY DEF Running, Stop
<1> QED
  BY <1>1, <1>2, <1>3, <1>4, <1>5, <1>6, <1>7, <1>8, <1>9 DEF RecoveryNext

\* The agreement is kept by the running campaign, the operator and the scaling to zero.
LEMMA StepAgreement ==
  ASSUME StackInv, AgreeInv, Faults \subseteq {"api", "crash"}, [RecoveryNext]_recoveryVars
  PROVE  AgreeInv'
<1>1. CASE ~stopped /\ [Next]_vars /\ UNCHANGED operatorVars
  <2>1. SoleInv'
    BY <1>1, StepSole DEF StackInv, AgreeInv
  <2>2. ASSUME ~damaged
        PROVE  StageInv' /\ QueueAndLogAgree'
    BY <1>1, <2>2, StepStage, StepAgree DEF StackInv, AgreeInv
  <2> QED
    BY <1>1, <2>1, <2>2 DEF AgreeInv, operatorVars
<1>2. CASE Stop
  <2>1. ~damaged' => QueueAndLogAgree'
    BY <1>2 DEF Stop, dbVars, AgreeInv, QueueAndLogAgree
  <2> QED
    BY <1>2, <2>1, StopDeserts DEF AgreeInv
<1>3. CASE stopped /\ UNCHANGED <<requestVars, workerVars, lock, poll>>
  BY <1>3, OperatorDeserts, OperatorAgrees DEF StackInv, AgreeInv
<1> QED
  BY <1>1, <1>2, <1>3, OperatorSteps DEF StackInv

\* After the report of reconcile:email-jobs was applied, the queue and the database agree
\* until rows are lost once more: every Bull job is persisted with the payload of its
\* campaign, and every completed one has the log its result says, whatever requests, runs,
\* crashes, losses of Redis and later commands do, and so after each disaster, as long as
\* no lock expires under a run and the database answers.
THEOREM RepairedAlwaysAgrees ==
  ASSUME Faults \subseteq {"api", "crash"}
  PROVE  RecoverySpec => []RepairedAgrees
<1>1. RecoveryInit => AgreeInv
  BY DEF RecoveryInit, Init, AgreeInv, SoleInv, StageInv, QueueAndLogAgree
<1>2. StackInv /\ AgreeInv /\ [RecoveryNext]_recoveryVars => AgreeInv'
  BY StepAgreement, Faults \subseteq {"api", "crash"}
<1>3. StackInv /\ AgreeInv => RepairedAgrees
  BY DEF StackInv, AgreeInv, RepairedAgrees
<1> QED
  BY <1>1, <1>2, <1>3, StackInvariance, PTL DEF RecoverySpec

-----------------------------------------------------------------------------
(***************************************************************************)
(* The mail budget through disasters and repairs.                          *)
(***************************************************************************)

\* A recipient that is not in the queue can still get there, and be sent once, unless
\* its log has an end.
Open(r) == IF bull[r] = "absent" /\ ~Ended(r) THEN 1 ELSE 0

\* A request adds only recipients whose logs have no end.
OpenInv ==
  \A q \in Request : \A r \in toSend[q] \cup missing[q] : bull[r] = "absent" => ~Ended(r)

\* While no rows are lost and the database answers, a mail goes out only after its log says
\* "processing": a log that does not say so yet stands for a mail that was never sent, but
\* in runs whose outcome nobody learned.
MarkedInv ==
  /\ \A r \in Recipient : log[r] \in {"absent", "pending"} => accepted[r] <= doubt[r]
  /\ \A w \in Worker : wpc[w] = "send" => log[wjob[w]] \notin {"absent", "pending"}
CalmInv == "db" \notin Faults /\ ~damaged => MarkedInv

\* The budget of BudgetInv, in which only a recipient that is still open is owed a mail.
OpenBudget ==
  \A r \in Recipient :
    accepted[r] + Cardinality(Pending(r)) + Waiting(r) + Open(r) <= 1 + doubt[r]

MailInv == OpenInv /\ CalmInv /\ OpenBudget

\* As long as a recipient stays out of the queue, its log gets no end.
LEMMA OpenStays ==
  ASSUME Types, RunInv, [Next]_vars, NEW r \in Recipient, bull'[r] = "absent"
  PROVE  /\ bull[r] = "absent"
         /\ log'[r] = log[r] \/ (log[r] = "absent" /\ log'[r] = "pending")
<1>1. bull[r] = "absent"
  BY BullStays
<1>2. \A w \in Worker : wjob[w] = r => ~MarkProcessing(w) /\ ~RecordResult(w)
  BY <1>1 DEF RunInv, MarkProcessing, RecordResult
<1> QED
  BY <1>1, <1>2, LogWriters

\* Requests look up and add recipients whose logs have no end.
LEMMA StepOpen ==
  ASSUME Types, RunInv, OpenInv, [Next]_vars
  PROVE  OpenInv'
<1> SUFFICES ASSUME NEW q \in Request, NEW r \in toSend'[q] \cup missing'[q],
                    bull'[r] = "absent"
             PROVE  ~Ended(r)'
  BY DEF OpenInv
<1>1. ASSUME r \in Recipient, ~Ended(r)
      PROVE  ~Ended(r)'
  BY <1>1, OpenStays DEF Ended
<1>2. ASSUME r \in Recipient, r \in toSend[q] \cup missing[q]
      PROVE  ~Ended(r)'
  BY <1>1, <1>2, OpenStays DEF OpenInv
<1> USE DEF Types
<1>3. CASE toSend'[q] \subseteq toSend[q] /\ missing'[q] \subseteq missing[q]
  BY <1>2, <1>3
<1>4. CASE Answered(q)
  BY <1>4 DEF Answered
<1>5. ASSUME NEW list \in Lists, NEW p \in Payload, Post(q, list, p)
      PROVE  ~Ended(r)'
  <2>1. list \subseteq Recipient
    BY SetsAssumption
  <2>2. r \in missing[q] \/ (r \in list /\ ~Ended(r))
    BY <1>5 DEF Post, NeedsManualRetry, WasEmailSent, Ended
  <2> QED
    BY <1>1, <1>2, <2>1, <2>2
<1>6. CASE Persist(q)
  <2>1. Answered(q) \/ UNCHANGED <<toSend, missing>>
    BY <1>6 DEF Persist, AnswerAccepted
  <2> QED
    BY <1>3, <1>4, <2>1
<1>7. CASE LookupChunk(q)
  <2>1. PICK chunk \in SUBSET toSend[q] :
          /\ missing' = [missing EXCEPT ![q] = {s \in chunk : bull[s] = "absent"}]
          /\ toSend' = [toSend EXCEPT ![q] = @ \ chunk]
    BY <1>7 DEF LookupChunk
  <2> QED
    BY <1>2, <2>1
<1>8. CASE AddBulk(q)
  <2>1. Answered(q) \/ (toSend' = toSend /\ missing' = [missing EXCEPT ![q] = {}])
    BY <1>8 DEF AddBulk
  <2> QED
    BY <1>3, <1>4, <2>1
<1> QED
  BY <1>3, <1>4, <1>5, <1>6, <1>7, <1>8, RequestSteps

\* A run marks its mail before it sends it, as long as the database answers.
LEMMA StepMarked ==
  ASSUME Types, RunInv, QueuedIsPersisted, MarkedInv, "db" \notin Faults, [Next]_vars
  PROVE  MarkedInv'
<1>1. ASSUME NEW r \in Recipient, log'[r] \in {"absent", "pending"}
      PROVE  accepted'[r] <= doubt'[r]
  <2>1. log[r] \in {"absent", "pending"}
    BY <1>1, LogWriters
  <2>2. ASSUME accepted'[r] # accepted[r]
        PROVE  FALSE
    BY <2>1, <2>2, Mailed DEF MarkedInv
  <2>3. accepted[r] \in Nat /\ accepted[r] <= doubt[r]
    BY <2>1 DEF MarkedInv, Types
  <2> QED
    BY <2>2, <2>3, DoubtSteps
<1>2. ASSUME NEW w \in Worker, wpc'[w] = "send"
      PROVE  log'[wjob'[w]] \notin {"absent", "pending"}
  <2> USE DEF Types, Goto, Run
  <2>1. CASE wpc'[w] = wpc[w] /\ wjob'[w] = wjob[w]
    <3>1. wjob[w] \in Recipient /\ log[wjob[w]] \notin {"absent", "pending"}
      BY <1>2, <2>1 DEF RunInv, MarkedInv
    <3> QED
      BY <2>1, <3>1, LogWriters
  <2>2. CASE MarkProcessing(w)
    BY <2>2 DEF MarkProcessing, RunInv
  <2>3. CASE CheckIdempotency(w)
    <3>1. wjob[w] \in Recipient /\ log[wjob[w]] # "absent"
      BY <2>3 DEF CheckIdempotency, RunInv, QueuedIsPersisted
    <3> QED
      BY <1>2, <2>3, <3>1 DEF CheckIdempotency
  <2>4. CASE \E r \in Recipient : Take(w, r)
    BY <1>2, <2>4 DEF Take
  <2>5. CASE SendAccepted(w) \/ SendRejected(w) \/ SendUnreadable(w) \/ SendThrows(w)
               \/ SendLost(w)
    BY <1>2, <2>5 DEF SendAccepted, SendRejected, SendUnreadable, SendThrows, SendLost,
                      ThrowToBull
  <2>6. CASE RecordResult(w) \/ CountResult(w)
    BY <1>2, <2>6 DEF RecordResult, CountResult
  <2>7. CASE MoveToCompleted(w) \/ MoveToFailed(w) \/ CrashRun(w)
    BY <1>2, <2>7 DEF MoveToCompleted, MoveToFailed, CrashRun, Release
  <2>8. ~DatabaseError(w)
    BY DEF DatabaseError
  <2> HIDE DEF Types, Goto, Run
  <2> QED
    BY <2>1, <2>2, <2>3, <2>4, <2>5, <2>6, <2>7, <2>8, RunMoves DEF WorkerStep
<1> QED
  BY <1>1, <1>2 DEF MarkedInv

\* A running campaign keeps the budget: a recipient that is added was open.
LEMMA StepOpenBudget ==
  ASSUME Types, Types', RunInv, OpenInv, OpenBudget, [Next]_vars
  PROVE  OpenBudget'
<1> SUFFICES ASSUME NEW r \in Recipient
             PROVE  accepted'[r] + Cardinality(Pending(r)') + Waiting(r)' + Open(r)'
                      <= 1 + doubt'[r]
  BY DEF OpenBudget
<1>1. /\ accepted[r] \in Nat /\ accepted'[r] \in Nat
      /\ doubt[r] \in Nat /\ doubt'[r] \in Nat
      /\ Waiting(r) \in {0, 1} /\ Waiting(r)' \in {0, 1}
      /\ Open(r) \in {0, 1} /\ Open(r)' \in {0, 1}
  BY LoadTypes DEF Types, Waiting, Open
<1>2. Cardinality(Pending(r)) \in Nat /\ Cardinality(Pending(r)') \in Nat
  BY RunCount DEF Pending
<1>3. accepted[r] + Cardinality(Pending(r)) + Waiting(r) + Open(r) <= 1 + doubt[r]
  BY DEF OpenBudget
<1>4. CASE bull'[r] = "absent"
  <2>1. bull[r] = "absent" /\ Open(r)' <= Open(r)
    BY <1>4, OpenStays DEF Open, Ended
  <2> QED
    BY <1>1, <1>2, <1>3, <1>4, <2>1, StepLoad
<1>5. CASE bull[r] # "absent"
  <2>1. bull'[r] # "absent"
    BY <1>5, BullStays
  <2>2. Open(r) = 0 /\ Open(r)' = 0
    BY <1>5, <2>1 DEF Open
  <2> QED
    BY <1>1, <1>2, <1>3, <1>5, <2>2, StepLoad
<1>6. CASE bull[r] = "absent" /\ bull'[r] # "absent"
  <2>1. \E q \in Request : r \in missing[q]
    BY <1>6, Enqueued
  <2>2. Open(r) = 1 /\ Open(r)' = 0 /\ Waiting(r) = 0
    BY <1>6, <2>1 DEF Open, OpenInv, Waiting
  <2> QED
    BY <1>1, <1>2, <1>3, <1>6, <2>2, StepLoad
<1> QED
  BY <1>4, <1>5, <1>6

\* A report that is applied leaves as not started only what is still owed a mail.
LEMMA AppliedAreOwed ==
  ASSUME StackInv, MailInv, Apply, NEW r \in Recipient, log'[r] \in {"absent", "pending"}
  PROVE  accepted[r] <= doubt[r]
<1>1. Waiting(r) + Open(r) >= 1
  <2>1. CASE bull[r] = "absent"
    <3>1. log'[r] = log[r]
      BY <2>1, ApplyWrites DEF StackInv
    <3> QED
      BY <2>1, <3>1 DEF Waiting, Open, Ended
  <2>2. CASE bull[r] # "absent"
    <3>1. ClassifySnapshot(r) \in {"sent", "failed", "pending"}
      BY <2>2, CleanReport DEF StackInv, Apply, Queued
    <3>2. ClassifySnapshot(r) = "pending"
      BY <2>2, <3>1, ApplyWrites DEF StackInv
    <3>3. bull[r] \in {"waiting", "delayed"}
      BY <2>2, <3>2 DEF ClassifySnapshot, StackInv, Types, BullState
    <3> QED
      BY <2>2, <3>3 DEF Waiting, Open
  <2> QED
    BY <2>1, <2>2
<1>2. /\ accepted[r] \in Nat /\ doubt[r] \in Nat /\ Cardinality(Pending(r)) \in Nat
      /\ Waiting(r) \in {0, 1} /\ Open(r) \in {0, 1}
  BY LoadTypes DEF StackInv, Open
<1>3. accepted[r] + Cardinality(Pending(r)) + Waiting(r) + Open(r) <= 1 + doubt[r]
  BY DEF MailInv, OpenBudget
<1> QED
  BY <1>1, <1>2, <1>3

\* The operator's steps keep what holds while no rows are lost, and --apply makes it so
\* again.
LEMMA OperatorCalm ==
  ASSUME StackInv, MailInv, stopped, [RecoveryNext]_recoveryVars
  PROVE  CalmInv'
<1> SUFFICES ASSUME ~damaged', "db" \notin Faults
             PROVE  MarkedInv'
  BY DEF CalmInv
<1>1. ~LoseLogs /\ ~RestoreDump
  BY DEF LoseLogs, RestoreDump
<1>2. Apply \/ ~damaged
  BY <1>1 DEF RecoveryNext, Running, Stop, Resume, LoseRedis, EnqueueMissing, EnqueueChunk,
              EnqueueDone, RetryFailed, RetryOne, CommandDies, recoveryVars, operatorVars
<1>3. ~Apply => MarkedInv
  BY <1>2 DEF MailInv, CalmInv
<1>4. accepted' = accepted
  BY OperatorQueue DEF LoseRedis, EnqueueChunk, RetryOne, history
<1>5. \A w \in Worker : wpc'[w] # "send"
  <2>1. wpc' = wpc
    BY OperatorSteps DEF StackInv, Stop, workerVars
  <2> QED
    BY <2>1 DEF StackInv, StopInv
<1>6. \A r \in Recipient : /\ accepted[r] \in Nat /\ doubt[r] \in Nat
                           /\ doubt'[r] \in Nat /\ doubt'[r] >= doubt[r]
  <2>1. CASE LoseRedis
    BY <2>1, DisasterDoubts DEF StackInv, Types
  <2>2. CASE doubt' = doubt
    BY <2>2 DEF StackInv, Types
  <2> QED
    BY <1>1, <2>1, <2>2, OperatorQueue DEF EnqueueChunk, RetryOne, history
<1>7. ASSUME NEW r \in Recipient, log'[r] \in {"absent", "pending"}
      PROVE  accepted[r] <= doubt[r]
  <2>1. CASE Apply
    BY <1>7, <2>1, AppliedAreOwed
  <2>2. CASE RetryFailed
    <3>1. CASE bull[r] = "failed"
      BY <1>6, <2>2, <3>1, RetryWrites DEF StackInv
    <3>2. CASE bull[r] # "failed"
      <4>1. log'[r] = log[r] /\ ~Apply
        BY <2>2, <3>2, RetryWrites DEF StackInv, RetryFailed, Apply, Begin
      <4> QED
        BY <1>3, <1>7, <4>1 DEF MarkedInv
    <3> QED
      BY <3>1, <3>2
  <2>3. CASE ~Apply /\ UNCHANGED log
    BY <1>3, <1>7, <2>3 DEF MarkedInv
  <2> QED
    BY <1>1, <2>1, <2>2, <2>3, OperatorDatabase DEF dbVars, EnqueueDone
<1>8. ASSUME NEW r \in Recipient, log'[r] \in {"absent", "pending"}
      PROVE  accepted'[r] <= doubt'[r]
  <2>1. accepted[r] <= doubt[r]
    BY <1>7, <1>8
  <2> QED
    BY <1>4, <1>6, <2>1
<1> QED
  BY <1>5, <1>8 DEF MarkedInv

\* And the budget: a retry is only for a mail the provider never got, whoever loses the
\* queue does not know what became of a mail in "processing", nor, after rows were lost, of
\* one without an end, and whoever then loses the row of an ended mail knows nothing of it.
LEMMA OperatorBudget ==
  ASSUME StackInv, Types', MailInv, stopped, [RecoveryNext]_recoveryVars,
         "redis" \in Disasters => "db" \notin Faults
  PROVE  OpenBudget'
<1> SUFFICES ASSUME NEW r \in Recipient
             PROVE  accepted'[r] + Cardinality(Pending(r)') + Waiting(r)' + Open(r)'
                      <= 1 + doubt'[r]
  BY DEF OpenBudget
<1>1. /\ accepted[r] \in Nat /\ doubt[r] \in Nat /\ doubt'[r] \in Nat
      /\ Waiting(r) \in {0, 1} /\ Waiting(r)' \in {0, 1}
      /\ Open(r) \in {0, 1} /\ Open(r)' \in {0, 1}
  BY DEF StackInv, Types, Waiting, Open
<1>2. Cardinality(Pending(r)) = 0 /\ Cardinality(Pending(r)') = 0
  <2>1. wpc' = wpc
    BY OperatorSteps DEF StackInv, Stop, workerVars
  <2>2. Pending(r) = {} /\ Pending(r)' = {}
    BY <2>1 DEF Pending, StackInv, StopInv
  <2> QED
    BY <2>2, FS_EmptySet
<1>3. accepted[r] + Waiting(r) + Open(r) <= 1 + doubt[r]
  BY <1>1, <1>2 DEF MailInv, OpenBudget
<1>4. accepted' = accepted
  BY OperatorQueue DEF LoseRedis, EnqueueChunk, RetryOne, history
<1>5. ASSUME doubt'[r] = doubt[r], Waiting(r)' + Open(r)' <= Waiting(r) + Open(r)
      PROVE  accepted'[r] + Cardinality(Pending(r)') + Waiting(r)' + Open(r)' <= 1 + doubt'[r]
  BY <1>1, <1>2, <1>3, <1>4, <1>5
<1>6. CASE LoseRedis
  <2> DEFINE lost == bull[r] # "absent" /\ (log[r] = "processing" \/ (damaged /\ ~Ended(r)))
  <2>1. /\ Waiting(r)' = 0 /\ log' = log
        /\ doubt'[r] = IF lost THEN doubt[r] + 1 ELSE doubt[r]
    BY <1>6 DEF LoseRedis, Forget, Waiting, dbVars
  <2>2. CASE Ended(r) \/ bull[r] = "absent"
    <3>1. Open(r)' = Open(r) /\ ~lost
      BY <1>6, <2>1, <2>2 DEF LoseRedis, Open, Ended
    <3> QED
      BY <1>1, <1>5, <2>1, <3>1
  <2>3. CASE lost
    BY <1>1, <1>2, <1>3, <1>4, <2>1, <2>3
  <2>4. CASE bull[r] # "absent" /\ ~damaged /\ log[r] \in {"absent", "pending"}
    <3>1. "db" \notin Faults
      BY <1>6 DEF LoseRedis, Strike
    <3>2. accepted[r] <= doubt[r]
      BY <2>4, <3>1 DEF MailInv, CalmInv, MarkedInv
    <3>3. doubt'[r] = doubt[r]
      BY <2>1, <2>4
    <3> QED
      BY <1>1, <1>2, <1>4, <2>1, <3>2, <3>3
  <2>5. log[r] \in {"absent", "pending", "processing"} \/ Ended(r)
    BY DEF StackInv, Types, LogStatus, Ended
  <2> QED
    BY <2>2, <2>3, <2>4, <2>5
<1>7. CASE LoseLogs \/ RestoreDump
  <2>1. /\ bull' = bull /\ doubt'[r] >= doubt[r]
        /\ \/ log'[r] = log[r]
           \/ log'[r] = "absent" /\ (r \in OnlyLogged => doubt'[r] = doubt[r] + 1)
    BY <1>7, DisasterDoubts DEF LoseLogs, RestoreDump, bullVars, StackInv
  <2>2. Waiting(r)' = Waiting(r)
    BY <2>1 DEF Waiting
  <2>3. CASE r \in OnlyLogged /\ doubt'[r] = doubt[r] + 1
    BY <1>1, <1>2, <1>3, <1>4, <2>2, <2>3
  <2>4. CASE Open(r)' = Open(r)
    BY <1>1, <1>2, <1>3, <1>4, <2>1, <2>2, <2>4
  <2>5. r \in OnlyLogged \/ Open(r)' = Open(r) \/ log'[r] = log[r]
    BY <2>1 DEF OnlyLogged, Open, Ended
  <2>6. log'[r] = log[r] => Open(r)' = Open(r)
    BY <2>1 DEF Open, Ended
  <2> QED
    BY <2>1, <2>3, <2>4, <2>5, <2>6
<1>8. CASE Apply \/ RetryFailed \/ EnqueueDone
  <2>1. bull' = bull /\ doubt' = doubt
    BY <1>8 DEF Apply, RetryFailed, EnqueueDone, bullVars, history
  <2>2. bull[r] = "absent" => log'[r] = log[r]
    BY <1>8, ApplyWrites, RetryWrites DEF StackInv, EnqueueDone
  <2>3. Waiting(r)' = Waiting(r) /\ Open(r)' = Open(r)
    BY <2>1, <2>2 DEF Waiting, Open, Ended
  <2> QED
    BY <1>1, <1>5, <2>1, <2>3
<1>9. CASE EnqueueChunk
  <2>1. log' = log /\ doubt' = doubt /\ command = "enqueue"
    BY <1>9 DEF EnqueueChunk, dbVars, history
  <2>2. PICK chunk \in SUBSET todo : BullAdd(chunk, job.payload)
    BY <1>9 DEF EnqueueChunk
  <2>3. CASE bull'[r] = bull[r]
    BY <1>1, <1>5, <2>1, <2>3 DEF Waiting, Open, Ended
  <2>4. CASE bull[r] = "absent" /\ bull'[r] = "waiting" /\ r \in chunk
    <3>1. log[r] = "pending"
      BY <2>1, <2>4 DEF StackInv, TodoInv
    <3>2. Open(r) = 1 /\ Waiting(r) = 0 /\ Open(r)' = 0 /\ Waiting(r)' = 1
      BY <2>4, <3>1 DEF Open, Waiting, Ended
    <3> QED
      BY <1>1, <1>5, <2>1, <3>2
  <2> QED
    BY <2>2, <2>3, <2>4 DEF BullAdd
<1>10. ASSUME NEW s \in Recipient, RetryOne(s)
       PROVE  accepted'[r] + Cardinality(Pending(r)') + Waiting(r)' + Open(r)'
                <= 1 + doubt'[r]
  <2>1. /\ log' = log /\ doubt' = doubt /\ command = "retry" /\ s \in todo
        /\ bull' = [bull EXCEPT ![s] = "waiting"]
    BY <1>10 DEF RetryOne, dbVars, history
  <2>2. CASE s = r
    <3>1. accepted[r] = 0
      BY <2>1, <2>2 DEF StackInv, TodoInv
    <3>2. Waiting(r)' = 1 /\ Open(r)' = 0
      BY <2>1, <2>2 DEF Waiting, Open, StackInv, Types
    <3> QED
      BY <1>1, <1>2, <1>4, <3>1, <3>2
  <2>3. CASE s # r
    <3>1. bull'[r] = bull[r]
      BY <2>1, <2>3
    <3> QED
      BY <1>1, <1>5, <2>1, <3>1 DEF Waiting, Open, Ended
  <2> QED
    BY <2>2, <2>3
<1>11. CASE UNCHANGED <<log, bull, doubt>>
  BY <1>1, <1>5, <1>11 DEF Waiting, Open, Ended
<1>12. Resume \/ EnqueueMissing \/ CommandDies \/ UNCHANGED recoveryVars
         => UNCHANGED <<log, bull, doubt>>
  BY DEF Resume, EnqueueMissing, CommandDies, recoveryVars, vars, dbVars, bullVars, history
<1>13. ~Running /\ ~Stop
  BY DEF Running, Stop
<1> QED
  BY <1>6, <1>7, <1>8, <1>9, <1>10, <1>11, <1>12, <1>13 DEF RecoveryNext

\* The budget is kept by every step.
LEMMA StepMail ==
  ASSUME StackInv, StackInv', MailInv, [RecoveryNext]_recoveryVars,
         "redis" \in Disasters => "db" \notin Faults
  PROVE  MailInv'
<1>1. CASE ~stopped /\ [Next]_vars /\ UNCHANGED operatorVars
  <2>1. OpenInv' /\ OpenBudget'
    BY <1>1, StepOpen, StepOpenBudget DEF StackInv, MailInv
  <2>2. ASSUME "db" \notin Faults, ~damaged
        PROVE  MarkedInv'
    <3>1. MarkedInv /\ QueuedIsPersisted
      BY <2>2 DEF MailInv, CalmInv, StackInv
    <3> QED
      BY <1>1, <2>2, <3>1, StepMarked DEF StackInv
  <2>3. CalmInv'
    BY <1>1, <2>2 DEF CalmInv, operatorVars
  <2> QED
    BY <2>1, <2>3 DEF MailInv
<1>2. CASE Stop
  <2>1. /\ UNCHANGED <<log, bull, accepted, doubt, damaged>>
        /\ \A w \in Worker : wpc'[w] = "idle"
        /\ \A q \in Request : toSend'[q] = {} /\ missing'[q] = {}
    BY <1>2 DEF Stop, dbVars, history
  <2>2. OpenInv'
    BY <2>1 DEF OpenInv
  <2>3. CalmInv'
    BY <2>1 DEF MailInv, CalmInv, MarkedInv
  <2>4. ASSUME NEW r \in Recipient
        PROVE  accepted'[r] + Cardinality(Pending(r)') + Waiting(r)' + Open(r)'
                 <= 1 + doubt'[r]
    <3>1. /\ accepted[r] \in Nat /\ doubt[r] \in Nat /\ Waiting(r) \in {0, 1}
          /\ Open(r) \in {0, 1} /\ Cardinality(Pending(r)) \in Nat
      BY LoadTypes DEF StackInv, Open
    <3>2. Pending(r)' = {}
      BY <2>1 DEF Pending
    <3>3. Cardinality(Pending(r)') = 0
      BY <3>2, FS_EmptySet
    <3>4. Waiting(r)' = Waiting(r) /\ Open(r)' = Open(r)
      BY <2>1 DEF Waiting, Open, Ended
    <3>5. accepted[r] + Cardinality(Pending(r)) + Waiting(r) + Open(r) <= 1 + doubt[r]
      BY DEF MailInv, OpenBudget
    <3> QED
      BY <2>1, <3>1, <3>3, <3>4, <3>5
  <2>5. OpenBudget'
    BY <2>4 DEF OpenBudget
  <2> QED
    BY <2>2, <2>3, <2>5 DEF MailInv
<1>3. CASE stopped /\ UNCHANGED <<requestVars, workerVars, lock, poll>>
  <2>1. OpenInv'
    BY <1>3 DEF OpenInv, StackInv, StopInv, requestVars
  <2>2. CalmInv'
    BY <1>3, OperatorCalm
  <2>3. OpenBudget'
    BY <1>3, OperatorBudget DEF StackInv
  <2> QED
    BY <2>1, <2>2, <2>3 DEF MailInv
<1> QED
  BY <1>1, <1>2, <1>3, OperatorSteps DEF StackInv

\* The budget holds in the initial state.
LEMMA InitMail == RecoveryInit => MailInv
<1> SUFFICES ASSUME RecoveryInit PROVE MailInv
  OBVIOUS
<1>1. BudgetInv /\ Types
  BY InitIInv, TypesAndLimits DEF RecoveryInit, IInv
<1>2. OpenInv /\ MarkedInv
  BY DEF RecoveryInit, Init, OpenInv, MarkedInv
<1>3. \A r \in Recipient : Waiting(r) + Open(r) = Starts(r)
  BY DEF RecoveryInit, Init, Waiting, Open, Ended, Starts
<1>4. ASSUME NEW r \in Recipient
      PROVE  accepted[r] + Cardinality(Pending(r)) + Waiting(r) + Open(r) <= 1 + doubt[r]
  <2>1. /\ accepted[r] \in Nat /\ doubt[r] \in Nat /\ Cardinality(Pending(r)) \in Nat
        /\ Waiting(r) \in {0, 1} /\ Open(r) \in {0, 1}
    BY <1>1, LoadTypes DEF Open
  <2>2. accepted[r] + Cardinality(Pending(r)) + Starts(r) <= 1 + doubt[r]
    BY <1>1 DEF BudgetInv
  <2> QED
    BY <1>3, <2>1, <2>2
<1> QED
  BY <1>1, <1>2, <1>4 DEF MailInv, CalmInv, OpenBudget

\* The provider gets a mail a second time only after a run whose outcome nobody could
\* learn, or of which a disaster took what was known, through any number of losses of Redis,
\* of logs or of the database and whatever the operator's commands repair, enqueue or retry
\* in between.  A run that the database failed leaves no mark that
\* it sent, so a loss of Redis is only taken with a database that answers.
THEOREM RepairedAtMostOnceButDoubt ==
  ASSUME "redis" \in Disasters => "db" \notin Faults
  PROVE  RecoverySpec => []AtMostOnceButDoubt
<1>1. RecoveryInit => MailInv
  BY InitMail
<1>2. StackInv /\ MailInv /\ [RecoveryNext]_recoveryVars => MailInv'
  BY StepStack, StepMail, "redis" \in Disasters => "db" \notin Faults
<1>3. StackInv /\ MailInv => AtMostOnceButDoubt
  <2> SUFFICES ASSUME StackInv, MailInv, NEW r \in Recipient
               PROVE  accepted[r] <= 1 + doubt[r]
    BY DEF AtMostOnceButDoubt
  <2>1. /\ accepted[r] \in Nat /\ doubt[r] \in Nat /\ Cardinality(Pending(r)) \in Nat
        /\ Waiting(r) \in {0, 1} /\ Open(r) \in {0, 1}
    BY LoadTypes DEF StackInv, Open
  <2> QED
    BY <2>1 DEF MailInv, OpenBudget
<1> QED
  BY <1>1, <1>2, <1>3, StackInvariance, PTL DEF RecoverySpec

-----------------------------------------------------------------------------
(***************************************************************************)
(* The counters of the campaign and its end.                               *)
(***************************************************************************)

\* One pair for each unit a function counts: Doubts is Pairs(doubt).
Pairs(d) == UNION {{r} \X (1 .. d[r]) : r \in Recipient}

\* What a pair is.
LEMMA PairOf ==
  ASSUME NEW d, NEW x
  PROVE  x \in Pairs(d) <=> \E r \in Recipient : \E n \in 1 .. d[r] : x = <<r, n>>
BY DEF Pairs

\* There are finitely many pairs.
LEMMA PairsFinite ==
  ASSUME NEW d \in [Recipient -> Nat]
  PROVE  IsFiniteSet(Pairs(d)) /\ Cardinality(Pairs(d)) \in Nat
<1> DEFINE f == [r \in Recipient |-> {r} \X (1 .. d[r])]
           S == {{r} \X (1 .. d[r]) : r \in Recipient}
<1>1. f \in Surjection(Recipient, S)
  BY DEF Surjection
<1>2. IsFiniteSet(S)
  BY <1>1, FS_Surjection, SetsAssumption
<1>3. ASSUME NEW r \in Recipient
      PROVE  IsFiniteSet({r} \X (1 .. d[r]))
  <2>1. d[r] \in Int /\ 1 \in Int
    OBVIOUS
  <2>2. IsFiniteSet(1 .. d[r]) /\ IsFiniteSet({r})
    BY <2>1, FS_Interval, FS_Singleton
  <2> QED
    BY <2>2, FS_Product
<1>4. \A T \in S : IsFiniteSet(T)
  BY <1>3
<1> HIDE DEF S
<1>5. IsFiniteSet(UNION S)
  BY <1>2, <1>4, FS_UNION
<1>6. Pairs(d) = UNION S
  BY DEF Pairs, S
<1> QED
  BY <1>5, <1>6, FS_CardinalityType

\* A function that grows has the pairs it had, and one more for each place where it grew
\* by one.
LEMMA PairsGrow ==
  ASSUME NEW d \in [Recipient -> Nat], NEW e \in [Recipient -> Nat],
         NEW P \in SUBSET Recipient,
         \A r \in Recipient : e[r] >= d[r],
         \A r \in P : e[r] = d[r] + 1
  PROVE  Cardinality(Pairs(d)) + Cardinality(P) <= Cardinality(Pairs(e))
<1> DEFINE f == [r \in P |-> <<r, d[r] + 1>>]
           New == {<<r, d[r] + 1>> : r \in P}
<1>1. IsFiniteSet(P)
  BY FS_Subset, SetsAssumption
<1>2. f \in Bijection(P, New)
  <2>1. f \in [P -> New]
    OBVIOUS
  <2>2. \A a, b \in P : f[a] = f[b] => a = b
    OBVIOUS
  <2>3. \A t \in New : \E s \in P : f[s] = t
    OBVIOUS
  <2> QED
    BY <2>1, <2>2, <2>3 DEF Bijection, Injection, Surjection, IsInjective
<1>3. IsFiniteSet(New) /\ Cardinality(New) = Cardinality(P)
  BY <1>1, <1>2, FS_Bijection DEF ExistsBijection
<1>4. Pairs(d) \cap New = {}
  <2> SUFFICES ASSUME NEW r \in P, <<r, d[r] + 1>> \in Pairs(d)
               PROVE  FALSE
    OBVIOUS
  <2>1. \E s \in Recipient : \E n \in 1 .. d[s] : <<r, d[r] + 1>> = <<s, n>>
    BY PairOf
  <2>2. d[r] \in Nat /\ d[r] + 1 \in 1 .. d[r]
    BY <2>1
  <2> QED
    BY <2>2
<1>5. Pairs(d) \cup New \subseteq Pairs(e)
  <2>1. ASSUME NEW r \in Recipient, NEW n \in 1 .. d[r]
        PROVE  n \in 1 .. e[r]
    <3>1. d[r] \in Nat /\ e[r] \in Nat /\ e[r] >= d[r]
      OBVIOUS
    <3> QED
      BY <3>1
  <2>2. Pairs(d) \subseteq Pairs(e)
    BY <2>1, PairOf
  <2>3. ASSUME NEW r \in P
        PROVE  <<r, d[r] + 1>> \in Pairs(e)
    <3>1. r \in Recipient /\ d[r] \in Nat /\ e[r] = d[r] + 1
      OBVIOUS
    <3>2. d[r] + 1 \in 1 .. e[r]
      BY <3>1
    <3> QED
      BY <3>1, <3>2, PairOf
  <2> QED
    BY <2>2, <2>3
<1> HIDE DEF New
<1>6. /\ Cardinality(Pairs(d) \cup New) = Cardinality(Pairs(d)) + Cardinality(New)
      /\ IsFiniteSet(Pairs(d) \cup New)
  <2>1. Cardinality(Pairs(d) \cap New) = 0
    BY <1>4, FS_EmptySet
  <2>2. Cardinality(New) \in Nat
    BY <1>3, FS_CardinalityType
  <2>3. IsFiniteSet(Pairs(d)) /\ Cardinality(Pairs(d)) \in Nat
    BY PairsFinite
  <2>4. /\ IsFiniteSet(Pairs(d) \cup New)
        /\ Cardinality(Pairs(d) \cup New)
             = Cardinality(Pairs(d)) + Cardinality(New) - Cardinality(Pairs(d) \cap New)
    BY <1>3, <2>3, FS_Union
  <2> QED
    BY <2>1, <2>2, <2>3, <2>4
<1>7. Cardinality(Pairs(d) \cup New) <= Cardinality(Pairs(e))
  BY <1>5, PairsFinite, FS_Subset
<1> QED
  BY <1>3, <1>6, <1>7

\* Places where a function is positive are no more than its pairs.
LEMMA PairsCover ==
  ASSUME NEW d \in [Recipient -> Nat], NEW X \in SUBSET Recipient,
         \A r \in X : d[r] > 0
  PROVE  Cardinality(X) <= Cardinality(Pairs(d))
<1> DEFINE f == [r \in X |-> <<r, 1>>]
<1>1. ASSUME NEW r \in X
      PROVE  <<r, 1>> \in Pairs(d)
  <2>1. r \in Recipient /\ d[r] \in Nat /\ d[r] > 0
    OBVIOUS
  <2>2. 1 \in 1 .. d[r]
    BY <2>1
  <2> QED
    BY <2>1, <2>2, PairOf
<1>2. f \in [X -> Pairs(d)]
  BY <1>1
<1>3. \A a, b \in X : f[a] = f[b] => a = b
  OBVIOUS
<1>4. f \in Injection(X, Pairs(d))
  BY <1>2, <1>3 DEF Injection, IsInjective
<1> QED
  BY <1>4, PairsFinite, FS_Injection

\* Logs a run has taken up, runs that may still count theirs, and logs that a run may
\* take up once more.
Started == {r \in Recipient : log[r] \in {"processing", "sent", "failed"}}
Counting == {w \in Worker : wpc[w] \in {"send", "record", "count", "nack"}}
Early(r) == \E w \in Worker : wpc[w] \in {"check", "mark"} /\ wjob[w] = r
Reruns == {r \in Started : \/ bull[r] \in {"waiting", "delayed"}
                           \/ Early(r)
                           \/ bull[r] = "absent" /\ log[r] = "processing"}

\* A log that has an end is only taken up again after a run whose outcome is unknown.
RerunInv ==
  /\ \A r \in Recipient : bull[r] \in {"waiting", "delayed"} /\ Ended(r) => doubt[r] > 0
  /\ \A w \in Worker : wpc[w] \in {"check", "mark"} /\ Ended(wjob[w]) => doubt[wjob[w]] > 0

\* A run that sends has taken up its log.
SendInv ==
  \A w \in Worker :
    wpc[w] \in {"send", "record", "nack"} =>
      /\ ~Ended(wjob[w])
      /\ ~damaged => log[wjob[w]] = "processing"

\* What was counted, what may be counted by a run under way and what may be counted once
\* more, against the logs taken up and the doubts.
TallyInv ==
  job.completed + job.failed + Cardinality(Counting) + Cardinality(Reruns)
    <= Cardinality(Started) + Cardinality(Doubts)

\* A campaign that a poll found complete stays so, but for the mails sent again.
EndInv == poll \/ job.status = "completed" =>
            job.status # "none" /\ Cardinality(Settled) >= job.valid

CountsInv ==
  /\ RerunInv /\ SendInv /\ (stopped => ~poll)
  /\ ~damaged => TallyInv /\ EndInv

\* The sizes that TallyInv adds up.
LEMMA TallySizes ==
  ASSUME Types, Types'
  PROVE  /\ Cardinality(Counting) \in Nat /\ Cardinality(Counting') \in Nat
         /\ Cardinality(Reruns) \in Nat /\ Cardinality(Reruns') \in Nat
         /\ Cardinality(Started) \in Nat /\ Cardinality(Started') \in Nat
         /\ Cardinality(Doubts) \in Nat /\ Cardinality(Doubts') \in Nat
         /\ Cardinality(Settled) \in Nat /\ Cardinality(Settled') \in Nat
         /\ job.completed + job.failed \in Nat /\ job'.completed + job'.failed \in Nat
         /\ job.valid \in Nat /\ job'.valid \in Nat
<1>1. /\ Counting \in SUBSET Worker /\ Counting' \in SUBSET Worker
      /\ Reruns \in SUBSET Recipient /\ Reruns' \in SUBSET Recipient
      /\ Started \in SUBSET Recipient /\ Started' \in SUBSET Recipient
      /\ Settled \in SUBSET Recipient /\ Settled' \in SUBSET Recipient
  BY DEF Counting, Reruns, Started, Settled
<1>2. Cardinality(Doubts) \in Nat /\ Cardinality(Doubts') \in Nat
  BY PairsFinite DEF Doubts, Pairs, Types
<1>3. /\ job.completed + job.failed \in Nat /\ job'.completed + job'.failed \in Nat
      /\ job.valid \in Nat /\ job'.valid \in Nat
  BY DEF Types, JobRow
<1> QED
  BY <1>1, <1>2, <1>3, SetCount, SetsAssumption

\* Sizes of these sets in two states.
LEMMA TallyMoves ==
  /\ Counting' \subseteq Counting => Cardinality(Counting') <= Cardinality(Counting)
  /\ \A w \in Counting : Counting' \subseteq Counting \ {w}
                           => Cardinality(Counting') + 1 <= Cardinality(Counting)
  /\ \A w : Counting' \subseteq Counting \cup {w}
                           => Cardinality(Counting') <= Cardinality(Counting) + 1
  /\ Reruns' \subseteq Reruns => Cardinality(Reruns') <= Cardinality(Reruns)
  /\ \A r \in Reruns : Reruns' \subseteq Reruns \ {r}
                           => Cardinality(Reruns') + 1 <= Cardinality(Reruns)
  /\ \A r : Reruns' \subseteq Reruns \cup {r} => Cardinality(Reruns') <= Cardinality(Reruns) + 1
  /\ Started \subseteq Started' => Cardinality(Started) <= Cardinality(Started')
  /\ \A r \in Started' : Started \subseteq Started' \ {r}
                           => Cardinality(Started) + 1 <= Cardinality(Started')
  /\ Settled \subseteq Settled' => Cardinality(Settled) <= Cardinality(Settled')
<1>1. /\ Counting \in SUBSET Worker /\ Counting' \in SUBSET Worker
      /\ Reruns \in SUBSET Recipient /\ Reruns' \in SUBSET Recipient
      /\ Started \in SUBSET Recipient /\ Started' \in SUBSET Recipient
      /\ Settled \in SUBSET Recipient /\ Settled' \in SUBSET Recipient
  BY DEF Counting, Reruns, Started, Settled
<1> HIDE DEF Counting, Reruns, Started, Settled
<1>2. /\ Counting' \subseteq Counting => Cardinality(Counting') <= Cardinality(Counting)
      /\ \A w \in Counting : Counting' \subseteq Counting \ {w}
                               => Cardinality(Counting') + 1 <= Cardinality(Counting)
      /\ \A w : Counting' \subseteq Counting \cup {w}
                               => Cardinality(Counting') <= Cardinality(Counting) + 1
  BY <1>1, SetCount, SetsAssumption
<1>3. /\ Reruns' \subseteq Reruns => Cardinality(Reruns') <= Cardinality(Reruns)
      /\ \A r \in Reruns : Reruns' \subseteq Reruns \ {r}
                               => Cardinality(Reruns') + 1 <= Cardinality(Reruns)
      /\ \A r : Reruns' \subseteq Reruns \cup {r}
                               => Cardinality(Reruns') <= Cardinality(Reruns) + 1
  BY <1>1, SetCount, SetsAssumption
<1>4. /\ Started \subseteq Started' => Cardinality(Started) <= Cardinality(Started')
      /\ \A r \in Started' : Started \subseteq Started' \ {r}
                               => Cardinality(Started) + 1 <= Cardinality(Started')
      /\ Settled \subseteq Settled' => Cardinality(Settled) <= Cardinality(Settled')
  BY <1>1, SetCount, SetsAssumption
<1> QED
  BY <1>2, <1>3, <1>4

\* The doubts of two states.
LEMMA DoubtMoves ==
  ASSUME Types, Types', \A r \in Recipient : doubt'[r] >= doubt[r]
  PROVE  /\ Cardinality(Doubts) <= Cardinality(Doubts')
         /\ \A P \in SUBSET Recipient : (\A r \in P : doubt'[r] = doubt[r] + 1)
              => Cardinality(Doubts) + Cardinality(P) <= Cardinality(Doubts')
<1>1. /\ doubt \in [Recipient -> Nat] /\ doubt' \in [Recipient -> Nat]
      /\ Doubts = Pairs(doubt) /\ Doubts' = Pairs(doubt')
  BY DEF Types, Doubts, Pairs
<1>2. ASSUME NEW P \in SUBSET Recipient, \A r \in P : doubt'[r] = doubt[r] + 1
      PROVE  Cardinality(Doubts) + Cardinality(P) <= Cardinality(Doubts')
  BY <1>1, <1>2, PairsGrow
<1>3. Cardinality(Doubts) <= Cardinality(Doubts')
  <2>1. Cardinality(Doubts) + Cardinality({}) <= Cardinality(Doubts')
    BY <1>2
  <2> QED
    BY <2>1, FS_EmptySet, TallySizes
<1> QED
  BY <1>2, <1>3
\* A job gets back to the queue when it is added, given back by a run or found stalled,
\* and a stalled one is charged as a doubt.
LEMMA BackInQueue ==
  ASSUME Types, LockInv, RunInv, [Next]_vars, NEW r \in Recipient,
         bull[r] \notin {"waiting", "delayed"}, bull'[r] \in {"waiting", "delayed"}
  PROVE  \/ bull[r] = "absent" /\ \E q \in Request : r \in missing[q] /\ log' = log
         \/ \E w \in Worker : MoveToFailed(w) /\ wjob[w] = r
         \/ RequeueStalled(r) /\ doubt'[r] = doubt[r] + 1
<1>1. CASE bull[r] = "absent"
  <2>1. PICK q \in Request : AddBulk(q) /\ r \in missing[q]
    BY <1>1, Enqueued
  <2> QED
    BY <1>1, <2>1 DEF AddBulk, dbVars
<1>2. CASE bull[r] \in Finished
  BY <1>2, StepFinished DEF Finished
<1>3. CASE bull[r] = "active"
  <2> USE <1>3 DEF Types
  <2>1. ~UNCHANGED bullVars
    BY DEF bullVars
  <2>2. ASSUME NEW q \in Request
        PROVE  ~AddBulk(q)
    BY DEF AddBulk, BullAdd
  <2>3. ASSUME NEW w \in Worker, NEW s \in Recipient
        PROVE  ~Take(w, s)
    BY DEF Take
  <2>4. ASSUME NEW w \in Worker
        PROVE  ~MoveToCompleted(w) /\ ~CrashRun(w) /\ ~LoseLock(w)
    BY DEF MoveToCompleted, CrashRun, LoseLock
  <2>5. ASSUME NEW w \in Worker, MoveToFailed(w)
        PROVE  wjob[w] = r
    BY <2>5 DEF MoveToFailed, Run
  <2>6. ASSUME NEW s \in Recipient
        PROVE  /\ ~Promote(s)
               /\ RequeueStalled(s) => s = r /\ doubt'[r] = doubt[r] + 1
    BY DEF Promote, RequeueStalled
  <2> QED
    BY <2>1, <2>2, <2>3, <2>4, <2>5, <2>6, BullSteps
<1> QED
  BY <1>1, <1>2, <1>3 DEF Types, BullState, Finished

\* A job that waits has no run, and its log stays as it is.
LEMMA Untouched ==
  ASSUME Types, LockInv, RunInv, SoleInv, [Next]_vars, NEW r \in Recipient,
         bull[r] \in {"waiting", "delayed"}, Ended(r)'
  PROVE  log'[r] = log[r]
<1>1. lock[r] = None
  BY DEF LockInv
<1>2. ASSUME NEW w \in Worker, wjob[w] = r
      PROVE  wpc[w] = "idle"
  BY <1>1, <1>2, SetsAssumption DEF SoleInv
<1> QED
  BY <1>2, LogWriters DEF Ended, MarkProcessing, RecordResult

\* A mail that ended is taken up again only after a run whose outcome nobody learned.
LEMMA StepRerun ==
  ASSUME Types, LockInv, RunInv, SoleInv, OpenInv, RerunInv, SendInv, [Next]_vars
  PROVE  RerunInv'
<1>1. \A r \in Recipient : doubt[r] \in Nat /\ doubt'[r] \in Nat /\ doubt'[r] >= doubt[r]
  BY DoubtSteps
<1>2. ASSUME NEW r \in Recipient, bull'[r] \in {"waiting", "delayed"}, Ended(r)'
      PROVE  doubt'[r] > 0
  <2>1. CASE bull[r] \in {"waiting", "delayed"}
    <3>1. Ended(r)
      BY <1>2, <2>1, Untouched DEF Ended
    <3>2. doubt[r] > 0
      BY <2>1, <3>1 DEF RerunInv
    <3> QED
      BY <1>1, <3>2
  <2>2. ASSUME bull[r] = "absent", NEW q \in Request, r \in missing[q], log' = log
        PROVE  FALSE
    BY <1>2, <2>2 DEF OpenInv, Ended
  <2>3. ASSUME NEW w \in Worker, MoveToFailed(w), wjob[w] = r
        PROVE  FALSE
    <3>1. wpc[w] = "nack" /\ log' = log
      BY <2>3 DEF MoveToFailed, dbVars
    <3> QED
      BY <1>2, <2>3, <3>1 DEF SendInv, Ended
  <2>4. CASE doubt'[r] = doubt[r] + 1
    BY <1>1, <2>4
  <2> QED
    BY <1>2, <2>1, <2>2, <2>3, <2>4, BackInQueue
<1>3. ASSUME NEW w \in Worker, wpc'[w] \in {"check", "mark"}, Ended(wjob[w])'
      PROVE  doubt'[wjob'[w]] > 0
  <2>1. ASSUME wpc[w] \in {"check", "mark"}, wjob'[w] = wjob[w], log'[wjob[w]] = log[wjob[w]]
        PROVE  doubt'[wjob'[w]] > 0
    <3>1. wjob[w] \in Recipient /\ doubt[wjob[w]] > 0
      BY <1>3, <2>1 DEF RerunInv, RunInv, Ended
    <3> QED
      BY <1>1, <2>1, <3>1
  <2>2. CASE wpc'[w] = wpc[w] /\ wjob'[w] = wjob[w]
    <3>1. log'[wjob[w]] = log[wjob[w]]
      <4>1. ~MarkProcessing(w) /\ ~RecordResult(w)
        BY <1>3, <2>2 DEF MarkProcessing, RecordResult, Goto, Types
      <4> QED
        BY <1>3, <2>2, <4>1, OwnWrites DEF Ended
    <3> QED
      BY <1>3, <2>1, <2>2, <3>1
  <2>3. ASSUME NEW r \in Recipient, Take(w, r)
        PROVE  doubt'[wjob'[w]] > 0
    <3>1. wjob'[w] = r /\ bull[r] = "waiting" /\ log' = log
      BY <2>3 DEF Take, dbVars, Types
    <3>2. doubt[r] > 0
      BY <1>3, <3>1 DEF RerunInv, Ended
    <3> QED
      BY <1>1, <3>1, <3>2
  <2>4. CASE CheckIdempotency(w)
    BY <2>1, <2>4 DEF CheckIdempotency, dbVars
  <2>5. ~DatabaseError(w) /\ ~CrashRun(w)
    BY <1>3 DEF DatabaseError, CrashRun, AfterDatabaseError, Release, Goto, Types
  <2>6. WorkerStep(w) => CheckIdempotency(w)
    BY <1>3 DEF WorkerStep, MarkProcessing, SendAccepted, SendRejected, SendUnreadable,
                SendThrows, SendLost, ThrowToBull, RecordResult, CountResult,
                MoveToCompleted, MoveToFailed, Release, Goto, Types
  <2> QED
    BY <2>2, <2>3, <2>4, <2>5, <2>6, RunMoves
<1> QED
  BY <1>2, <1>3 DEF RerunInv, Ended

\* A run sends what it has taken up, as long as the database answers.
LEMMA StepSend ==
  ASSUME Types, RunInv, SoleInv, SendInv, "db" \notin Faults, ~damaged => QueuedIsPersisted,
         [Next]_vars, damaged' = damaged
  PROVE  SendInv'
<1> SUFFICES ASSUME NEW w \in Worker, wpc'[w] \in {"send", "record", "nack"}
             PROVE  /\ log'[wjob'[w]] \notin {"sent", "failed"}
                    /\ ~damaged => log'[wjob'[w]] = "processing"
  BY DEF SendInv, Ended
<1> DEFINE Fine == /\ log'[wjob'[w]] \notin {"sent", "failed"}
                   /\ ~damaged => log'[wjob'[w]] = "processing"
<1>1. ASSUME wpc[w] \in {"send", "record", "nack"}, wjob'[w] = wjob[w],
             log'[wjob[w]] = log[wjob[w]]
      PROVE  Fine
  BY <1>1 DEF SendInv, Ended
<1>2. CASE wpc'[w] = wpc[w] /\ wjob'[w] = wjob[w]
  <2>1. ~MarkProcessing(w) /\ ~RecordResult(w)
    BY <1>2 DEF MarkProcessing, RecordResult, Goto, Types
  <2>2. CASE log[wjob[w]] = "absent" /\ log'[wjob[w]] = "pending"
    <3>1. ~damaged => log[wjob[w]] = "processing"
      BY <1>2 DEF SendInv
    <3> QED
      BY <1>2, <2>2, <3>1
  <2> QED
    BY <1>1, <1>2, <2>1, <2>2, OwnWrites
<1>3. CASE CheckIdempotency(w)
  <2>1. /\ wjob'[w] = wjob[w] /\ log' = log /\ log[wjob[w]] = "absent"
        /\ wpc[w] = "check"
    BY <1>3 DEF CheckIdempotency, Goto, Run, dbVars, Types
  <2>2. damaged
    BY <2>1 DEF RunInv, QueuedIsPersisted
  <2> QED
    BY <2>1, <2>2
<1>4. CASE MarkProcessing(w)
  <2>1. wjob[w] \in Recipient
    BY <1>4 DEF MarkProcessing, RunInv
  <2> QED
    BY <1>4, <2>1 DEF MarkProcessing, Run, Types
<1>5. CASE SendAccepted(w) \/ SendRejected(w) \/ SendUnreadable(w) \/ SendThrows(w) \/ SendLost(w)
  <2>1. wpc[w] = "send" /\ wjob' = wjob /\ log' = log
    BY <1>5 DEF SendAccepted, SendRejected, SendUnreadable, SendThrows, SendLost, ThrowToBull,
                dbVars
  <2> QED
    BY <1>1, <2>1
<1>6. /\ \A r \in Recipient : ~Take(w, r)
      /\ ~RecordResult(w) /\ ~CountResult(w) /\ ~MoveToCompleted(w) /\ ~MoveToFailed(w)
      /\ ~CrashRun(w) /\ ~DatabaseError(w)
  BY DEF Take, RecordResult, CountResult, MoveToCompleted, MoveToFailed, CrashRun,
         DatabaseError, Release, Goto, Types
<1> QED
  BY <1>2, <1>3, <1>4, <1>5, <1>6, RunMoves DEF WorkerStep
\* A log taken up stays so.
LEMMA StartedStays ==
  ASSUME Types, RunInv, [Next]_vars
  PROVE  Started \subseteq Started'
<1> SUFFICES ASSUME NEW r \in Recipient, log[r] \in {"processing", "sent", "failed"}
             PROVE  log'[r] \in {"processing", "sent", "failed"}
  BY DEF Started
<1> QED
  BY LogWriters

\* A run that begins to count is one that has just taken up its log.
LEMMA NewCounting ==
  ASSUME Types, RunInv, QueuedIsPersisted, "db" \notin Faults, [Next]_vars,
         NEW w \in Counting', w \notin Counting
  PROVE  MarkProcessing(w)
<1>1. /\ w \in Worker /\ wpc'[w] \in {"send", "record", "count", "nack"}
      /\ wpc[w] \notin {"send", "record", "count", "nack"}
  BY DEF Counting
<1>2. CASE CheckIdempotency(w)
  <2>1. log[wjob[w]] = "absent" /\ wpc[w] = "check"
    BY <1>1, <1>2 DEF CheckIdempotency, Goto, Run, Types
  <2> QED
    BY <1>1, <2>1 DEF RunInv, QueuedIsPersisted
<1>3. ~SendAccepted(w) /\ ~SendRejected(w) /\ ~SendUnreadable(w) /\ ~SendThrows(w)
        /\ ~SendLost(w) /\ ~RecordResult(w)
  BY <1>1 DEF SendAccepted, SendRejected, SendUnreadable, SendThrows, SendLost, RecordResult
<1>4. /\ \A r \in Recipient : ~Take(w, r)
      /\ ~CountResult(w) /\ ~MoveToCompleted(w) /\ ~MoveToFailed(w)
      /\ ~CrashRun(w) /\ ~DatabaseError(w)
  BY <1>1 DEF Take, CountResult, MoveToCompleted, MoveToFailed, CrashRun,
              DatabaseError, Release, Goto, Types
<1> QED
  BY <1>1, <1>2, <1>3, <1>4, RunMoves DEF WorkerStep

\* The log of a run that takes it up is no rerun afterwards.
LEMMA TakenUp ==
  ASSUME Types, LockInv, RunInv, SoleInv, [Next]_vars, NEW w \in Worker, MarkProcessing(w)
  PROVE  /\ wjob[w] \in Recipient /\ log'[wjob[w]] = "processing"
         /\ UNCHANGED <<job, bullVars>>
         /\ wjob[w] \in Started' \ Reruns'
         /\ log[wjob[w]] \in {"processing", "sent", "failed"} => wjob[w] \in Reruns
<1>1. /\ wjob[w] \in Recipient /\ log'[wjob[w]] = "processing"
      /\ wpc[w] = "mark" /\ wjob' = wjob
      /\ wpc' = [wpc EXCEPT ![w] = "send"]
      /\ UNCHANGED <<job, bullVars>>
  BY DEF MarkProcessing, RunInv, Run, Goto, Types
<1>2. lock[wjob[w]] = w
  BY <1>1 DEF SoleInv
<1>3. bull'[wjob[w]] = "active"
  BY <1>1, <1>2, SetsAssumption DEF LockInv, bullVars
<1>4. ~Early(wjob[w])'
  <2> SUFFICES ASSUME NEW v \in Worker, wpc'[v] \in {"check", "mark"}, wjob'[v] = wjob[w]
               PROVE  FALSE
    BY <1>1 DEF Early
  <2>1. v # w /\ wpc'[v] = wpc[v] /\ wjob[v] = wjob[w]
    BY <1>1 DEF Types
  <2> QED
    BY <1>1, <2>1, OneRunEach
<1>5. wjob[w] \in Started' \ Reruns'
  BY <1>1, <1>3, <1>4 DEF Started, Reruns
<1>6. Early(wjob[w])
  BY <1>1 DEF Early
<1> QED
  BY <1>1, <1>5, <1>6 DEF Started, Reruns

\* A log may be taken up once more because its run gives the job back or because the job
\* was found stalled.
LEMMA NewReruns ==
  ASSUME Types, LockInv, RunInv, SoleInv, QueuedIsPersisted, OpenInv, SendInv, ~damaged,
         [Next]_vars, NEW r \in Reruns', r \notin Reruns
  PROVE  \/ \E w \in Worker : MoveToFailed(w) /\ wjob[w] = r
         \/ RequeueStalled(r) /\ doubt'[r] = doubt[r] + 1
<1>1. r \in Recipient /\ log'[r] \in {"processing", "sent", "failed"}
  BY DEF Reruns, Started
<1>2. r \in Started
  <2> SUFFICES ASSUME log[r] \notin {"processing", "sent", "failed"}
               PROVE  FALSE
    BY <1>1 DEF Started
  <2>1. PICK w \in Worker : wjob[w] = r /\ (MarkProcessing(w) \/ RecordResult(w))
    BY <1>1, LogWriters
  <2>2. ~RecordResult(w)
    BY <2>1 DEF RecordResult, SendInv
  <2> QED
    BY <2>1, <2>2, TakenUp
<1>3. ASSUME bull[r] = "absent", log'[r] = log[r]
      PROVE  ~Ended(r)' /\ bull'[r] \in {"waiting", "delayed"} => FALSE
  BY <1>1, <1>2, <1>3 DEF Reruns, Ended
<1>4. CASE bull'[r] \in {"waiting", "delayed"}
  <2>1. bull[r] \notin {"waiting", "delayed"}
    BY <1>2 DEF Reruns
  <2>2. ASSUME bull[r] = "absent", NEW q \in Request, r \in missing[q], log' = log
        PROVE  FALSE
    <3>1. ~Ended(r)'
      BY <2>2 DEF OpenInv, Ended
    <3> QED
      BY <1>3, <1>4, <2>2, <3>1
  <2> QED
    BY <1>1, <1>4, <2>1, <2>2, BackInQueue
<1>5. ~Early(r)'
  <2> SUFFICES ASSUME NEW w \in Worker, wpc'[w] \in {"check", "mark"}, wjob'[w] = r
               PROVE  FALSE
    BY DEF Early
  <2>1. ~(wpc[w] \in {"check", "mark"} /\ wjob[w] = r)
    BY <1>2 DEF Reruns, Early
  <2>2. ASSUME NEW s \in Recipient
        PROVE  ~Take(w, s)
    BY <1>2 DEF Take, Reruns, Types
  <2>3. ~CheckIdempotency(w)
    BY <2>1 DEF CheckIdempotency
  <2>4. ~DatabaseError(w) /\ ~CrashRun(w)
    BY DEF DatabaseError, CrashRun, AfterDatabaseError, Release, Goto, Types
  <2>5. WorkerStep(w) => CheckIdempotency(w)
    BY DEF WorkerStep, MarkProcessing, SendAccepted, SendRejected, SendUnreadable,
           SendThrows, SendLost, ThrowToBull, RecordResult, CountResult,
           MoveToCompleted, MoveToFailed, Release, Goto, Types
  <2> QED
    BY <2>1, <2>2, <2>3, <2>4, <2>5, RunMoves
<1>6. ~(bull'[r] = "absent" /\ log'[r] = "processing")
  BY <1>1, <1>2, OpenStays DEF Reruns
<1> QED
  BY <1>4, <1>5, <1>6 DEF Reruns
\* What a step of the campaign does to the sets that TallyInv counts, and to the counters.
\* A mail taken up again leaves Reruns, one taken up for the first time joins Started; a
\* run that counts or gives its job back leaves Counting; a stalled job is a new doubt.
LEMMA StepTally ==
  ASSUME Types, Types', LockInv, RunInv, SoleInv, QueuedIsPersisted, OpenInv, SendInv, ~damaged,
         "db" \notin Faults, TallyInv, [Next]_vars
  PROVE  TallyInv'
<1> DEFINE n == job.completed + job.failed
<1>1. /\ Cardinality(Counting) \in Nat /\ Cardinality(Counting') \in Nat
      /\ Cardinality(Reruns) \in Nat /\ Cardinality(Reruns') \in Nat
      /\ Cardinality(Started) \in Nat /\ Cardinality(Started') \in Nat
      /\ Cardinality(Doubts) \in Nat /\ Cardinality(Doubts') \in Nat
      /\ n \in Nat /\ n' \in Nat
  BY TallySizes
<1>2. n + Cardinality(Counting) + Cardinality(Reruns)
        <= Cardinality(Started) + Cardinality(Doubts)
  BY DEF TallyInv
<1>3. /\ Cardinality(Started) <= Cardinality(Started')
      /\ Cardinality(Doubts) <= Cardinality(Doubts')
  <2>1. \A r \in Recipient : doubt'[r] >= doubt[r]
    BY DoubtSteps
  <2> QED
    BY <2>1, StartedStays, TallyMoves, DoubtMoves
<1>4. \A w \in Counting' : w \notin Counting => MarkProcessing(w)
  BY NewCounting
<1>5. \A r \in Reruns' : r \notin Reruns =>
         \/ \E w \in Worker : MoveToFailed(w) /\ wjob[w] = r
         \/ RequeueStalled(r) /\ doubt'[r] = doubt[r] + 1
  BY NewReruns
<1>6. n' <= n \/ (n' = n + 1 /\ \E w \in Worker : CountResult(w))
  BY CountSteps
<1> DEFINE Goal == n' + Cardinality(Counting') + Cardinality(Reruns')
                     <= Cardinality(Started') + Cardinality(Doubts')
<1> HIDE DEF n
<1>7. ASSUME NEW w \in Worker, MarkProcessing(w)
      PROVE  Goal
  <2>1. /\ wpc[w] = "mark" /\ wpc' = [wpc EXCEPT ![w] = "send"]
        /\ stalled' = stalled /\ n' = n
    BY <1>7, TakenUp DEF MarkProcessing, Goto, bullVars, n
  <2>2. \A v \in Worker : v # w => wpc'[v] = wpc[v]
    BY <2>1 DEF Types
  <2>3. Counting' \subseteq Counting \cup {w}
    BY <1>4, <2>1, <2>2 DEF Counting
  <2>4. Reruns' \subseteq Reruns
    <3>1. \A v \in Worker : ~MoveToFailed(v)
      BY <2>1, <2>2 DEF MoveToFailed, Release, Goto, Types
    <3>2. \A r \in Recipient : ~RequeueStalled(r)
      BY <2>1 DEF RequeueStalled, Types
    <3> QED
      BY <1>5, <3>1, <3>2 DEF Reruns, Started
  <2>5. Cardinality(Counting') <= Cardinality(Counting) + 1
    BY <2>3, TallyMoves
  <2>6. /\ wjob[w] \in Started' \ Reruns'
        /\ log[wjob[w]] \in {"processing", "sent", "failed"} => wjob[w] \in Reruns
    BY <1>7, TakenUp
  <2>7. CASE wjob[w] \in Reruns
    <3>1. Reruns' \subseteq Reruns \ {wjob[w]}
      BY <2>4, <2>6
    <3>2. Cardinality(Reruns') + 1 <= Cardinality(Reruns)
      BY <2>7, <3>1, TallyMoves
    <3> QED
      BY <1>1, <1>2, <1>3, <2>1, <2>5, <3>2
  <2>8. CASE wjob[w] \notin Reruns
    <3>1. Started \subseteq Started' \ {wjob[w]}
      BY <2>6, <2>8, StartedStays DEF Started
    <3>2. Cardinality(Started) + 1 <= Cardinality(Started')
      BY <2>6, <3>1, TallyMoves
    <3>3. Cardinality(Reruns') <= Cardinality(Reruns)
      BY <2>4, TallyMoves
    <3> QED
      BY <1>1, <1>2, <1>3, <2>1, <2>5, <3>2, <3>3
  <2> QED
    BY <2>7, <2>8
<1>8. ASSUME NEW w \in Worker, CountResult(w)
      PROVE  Goal
  <2>1. /\ wpc[w] = "count" /\ wpc' = [wpc EXCEPT ![w] = "ack"] /\ bull' = bull
        /\ stalled' = stalled
    BY <1>8 DEF CountResult, Goto, bullVars
  <2>2. \A v \in Worker : v # w => wpc'[v] = wpc[v]
    BY <2>1 DEF Types
  <2>3. \A v \in Worker : ~MarkProcessing(v) /\ ~MoveToFailed(v)
    BY <2>1, <2>2 DEF MarkProcessing, MoveToFailed, Release, Goto, Types
  <2>4. \A r \in Recipient : ~RequeueStalled(r)
    BY <2>1 DEF RequeueStalled, Types
  <2>5. Reruns' \subseteq Reruns /\ Counting' \subseteq Counting
    BY <1>4, <1>5, <2>3, <2>4 DEF Reruns, Started, Counting
  <2>6. w \in Counting /\ w \notin Counting'
    BY <2>1 DEF Counting, Types
  <2>7. Cardinality(Reruns') <= Cardinality(Reruns)
    BY <2>5, TallyMoves
  <2>8. Counting' \subseteq Counting \ {w}
    BY <2>5, <2>6
  <2>9. Cardinality(Counting') + 1 <= Cardinality(Counting)
    BY <2>6, <2>8, TallyMoves
  <2>10. n' <= n + 1
    BY <1>1, <1>6
  <2> QED
    BY <1>1, <1>2, <1>3, <2>7, <2>9, <2>10
<1>9. ASSUME NEW w \in Worker, MoveToFailed(w)
      PROVE  Goal
  <2>1. /\ wpc[w] = "nack" /\ wpc' = [wpc EXCEPT ![w] = "idle"]
        /\ stalled' = stalled /\ job' = job
    BY <1>9 DEF MoveToFailed, Release, Goto, dbVars
  <2>2. \A v \in Worker : v # w => wpc'[v] = wpc[v]
    BY <2>1 DEF Types
  <2>3. \A v \in Worker : ~MarkProcessing(v) /\ (MoveToFailed(v) => v = w)
    BY <2>1, <2>2 DEF MarkProcessing, MoveToFailed, Release, Goto, Types
  <2>4. \A r \in Recipient : ~RequeueStalled(r)
    BY <2>1 DEF RequeueStalled, Types
  <2>5. Reruns' \subseteq Reruns \cup {wjob[w]} /\ Counting' \subseteq Counting
    BY <1>4, <1>5, <2>3, <2>4 DEF Reruns, Started, Counting
  <2>6. w \in Counting /\ w \notin Counting'
    BY <2>1 DEF Counting, Types
  <2>7. Cardinality(Reruns') <= Cardinality(Reruns) + 1
    BY <2>5, TallyMoves
  <2>8. Counting' \subseteq Counting \ {w}
    BY <2>5, <2>6
  <2>9. Cardinality(Counting') + 1 <= Cardinality(Counting)
    BY <2>6, <2>8, TallyMoves
  <2>10. n' = n
    BY <2>1 DEF n
  <2> QED
    BY <1>1, <1>2, <1>3, <2>7, <2>9, <2>10
<1>10. ASSUME \A w \in Worker : ~MarkProcessing(w) /\ ~CountResult(w) /\ ~MoveToFailed(w)
       PROVE  Goal
  <2>1. n' <= n
    BY <1>6, <1>10
  <2>2. Counting' \subseteq Counting
    BY <1>4, <1>10 DEF Counting
  <2>3. Cardinality(Counting') <= Cardinality(Counting)
    BY <2>2, TallyMoves
  <2>4. ASSUME NEW r \in Reruns', r \notin Reruns
        PROVE  Goal
    <3>1. r \in Recipient /\ RequeueStalled(r) /\ doubt'[r] = doubt[r] + 1
      BY <1>5, <1>10, <2>4 DEF Reruns, Started
    <3>2. \A s \in Recipient : s # r => ~RequeueStalled(s)
      BY <3>1 DEF RequeueStalled, Types
    <3>3. Reruns' \subseteq Reruns \cup {r}
      BY <1>5, <1>10, <3>2 DEF Reruns, Started
    <3>4. Cardinality(Reruns') <= Cardinality(Reruns) + 1
      BY <3>3, TallyMoves
    <3>5. Cardinality(Doubts) + Cardinality({r}) <= Cardinality(Doubts')
      <4>1. \A s \in Recipient : doubt'[s] >= doubt[s]
        BY DoubtSteps
      <4>2. {r} \in SUBSET Recipient /\ \A s \in {r} : doubt'[s] = doubt[s] + 1
        BY <3>1
      <4> QED
        BY <4>1, <4>2, DoubtMoves
    <3>6. Cardinality({r}) = 1
      BY FS_Singleton
    <3> QED
      BY <1>1, <1>2, <1>3, <2>1, <2>3, <3>4, <3>5, <3>6
  <2>5. CASE Reruns' \subseteq Reruns
    <3>1. Cardinality(Reruns') <= Cardinality(Reruns)
      BY <2>5, TallyMoves
    <3> QED
      BY <1>1, <1>2, <1>3, <2>1, <2>3, <3>1
  <2> QED
    BY <2>4, <2>5
<1>11. Goal
  BY <1>7, <1>8, <1>9, <1>10
<1> QED
  BY <1>11 DEF TallyInv, n

\* A mail that has ended, or that Bull sends once more, stays one of them.
LEMMA SettledStays ==
  ASSUME Types, RunInv, RerunInv, [Next]_vars
  PROVE  Settled \subseteq Settled'
<1> SUFFICES ASSUME NEW r \in Settled
             PROVE  r \in Settled'
  OBVIOUS
<1>1. /\ r \in Recipient /\ doubt[r] \in Nat /\ doubt'[r] \in Nat /\ doubt'[r] >= doubt[r]
      /\ log[r] \in {"sent", "failed"} \/ (log[r] = "processing" /\ doubt[r] > 0)
  BY DoubtSteps DEF Settled
<1>2. doubt[r] > 0 => doubt'[r] > 0
  BY <1>1
<1>3. CASE log'[r] = log[r]
  BY <1>1, <1>2, <1>3 DEF Settled
<1>4. ASSUME NEW w \in Worker, wjob[w] = r, MarkProcessing(w), log'[r] = "processing"
      PROVE  r \in Settled'
  <2>1. log[r] \in {"sent", "failed"} => doubt[r] > 0
    BY <1>4 DEF MarkProcessing, RerunInv, Ended
  <2> QED
    BY <1>1, <1>2, <1>4, <2>1 DEF Settled
<1>5. CASE log'[r] \in {"sent", "failed"}
  BY <1>1, <1>5 DEF Settled
<1> QED
  BY <1>1, <1>3, <1>4, <1>5, LogWriters

\* A poll that found the campaign complete is right for good.
LEMMA StepEnd ==
  ASSUME Types, Types', RunInv, RerunInv, EndInv, [Next]_vars
  PROVE  EndInv'
<1>1. /\ Cardinality(Settled) \in Nat /\ Cardinality(Settled') \in Nat
      /\ job.valid \in Nat /\ job'.valid \in Nat
      /\ Cardinality(Settled) <= Cardinality(Settled')
  BY TallySizes, TallyMoves, SettledStays
<1>2. ASSUME job.status # "none", Cardinality(Settled) >= job.valid
      PROVE  job'.status # "none" /\ Cardinality(Settled') >= job'.valid
  <2>1. job'.status # "none" /\ job'.valid = job.valid
    BY <1>2, JobStays, JobSteps
  <2> QED
    BY <1>1, <1>2, <2>1
<1>3. CASE PollRead
  <2>1. job.status # "none" /\ Cardinality(Terminal) >= job.valid
    BY <1>3 DEF PollRead, IsComplete
  <2>2. Terminal \in SUBSET Recipient /\ Settled \in SUBSET Recipient /\ Terminal \subseteq Settled
    BY DEF Terminal, Settled
  <2>3. Cardinality(Terminal) \in Nat /\ Cardinality(Terminal) <= Cardinality(Settled)
    BY <2>2, SetCount, SetsAssumption
  <2>4. Cardinality(Settled) >= job.valid
    BY <1>1, <2>1, <2>3
  <2> QED
    BY <1>2, <2>1, <2>4 DEF EndInv
<1>4. CASE poll \/ job.status = "completed"
  BY <1>2, <1>4 DEF EndInv
<1>5. job'.status = "completed" => job.status = "completed" \/ poll
  BY JobSteps DEF PollSync
<1>6. poll' => poll \/ PollRead
  BY PollSteps
<1> QED
  BY <1>3, <1>4, <1>5, <1>6 DEF EndInv
\* On a stopped stack no run counts, and none is about to take up a log.
LEMMA Unattended ==
  ASSUME \A w \in Worker : wpc'[w] = "idle"
  PROVE  /\ Cardinality(Counting') = 0
         /\ \A r \in Recipient : ~Early(r)'
         /\ SendInv'
<1>1. Counting' = {}
  BY DEF Counting
<1> QED
  BY <1>1, FS_EmptySet DEF Early, SendInv

\* The size of a union of two disjoint sets.
LEMMA DisjointSize ==
  ASSUME NEW A, NEW B, IsFiniteSet(A), IsFiniteSet(B), A \cap B = {}
  PROVE  /\ IsFiniteSet(A \cup B)
         /\ Cardinality(A \cup B) = Cardinality(A) + Cardinality(B)
<1>1. Cardinality(A \cap B) = 0
  BY FS_EmptySet
<1>2. /\ IsFiniteSet(A \cup B)
      /\ Cardinality(A \cup B) = Cardinality(A) + Cardinality(B) - Cardinality(A \cap B)
  BY FS_Union
<1>3. Cardinality(A) \in Nat /\ Cardinality(B) \in Nat
  BY FS_CardinalityType
<1> QED
  BY <1>1, <1>2, <1>3

\* A recount leaves the counters at the number of ended mails, which leaves room for
\* every log still taken up and for every doubt.
LEMMA RecountTallies ==
  ASSUME Types', RerunInv', \A w \in Worker : wpc'[w] = "idle",
         job'.completed = Count(log', "sent"), job'.failed = Count(log', "failed")
  PROVE  /\ TallyInv'
         /\ job'.completed + job'.failed \in Nat
         /\ job'.completed + job'.failed <= Cardinality(Settled')
<1> DEFINE S == {r \in Recipient : log'[r] = "sent"}
           F == {r \in Recipient : log'[r] = "failed"}
           P == {r \in Recipient : log'[r] = "processing"}
           X == {r \in S \cup F : doubt'[r] > 0}
<1>1. /\ S \in SUBSET Recipient /\ F \in SUBSET Recipient
      /\ P \in SUBSET Recipient /\ X \in SUBSET Recipient
  OBVIOUS
<1>2. /\ IsFiniteSet(S) /\ IsFiniteSet(F) /\ IsFiniteSet(P) /\ IsFiniteSet(X)
      /\ Cardinality(S) \in Nat /\ Cardinality(F) \in Nat
      /\ Cardinality(P) \in Nat /\ Cardinality(X) \in Nat
  BY <1>1, FS_Subset, FS_CardinalityType, SetsAssumption
<1>3. S \cap F = {} /\ (S \cup F) \cap P = {} /\ P \cap X = {}
  OBVIOUS
<1>4. Started' = (S \cup F) \cup P
  BY DEF Started
<1>5. Reruns' \subseteq P \cup X
  BY Unattended DEF Reruns, Started, RerunInv, Ended
<1>6. S \cup F \subseteq Settled' /\ Settled' \in SUBSET Recipient
  BY DEF Settled
<1>7. \A r \in X : doubt'[r] > 0
  OBVIOUS
<1>8. /\ job'.completed = Cardinality(S) /\ job'.failed = Cardinality(F)
  BY DEF Count
<1> HIDE DEF S, F, P, X
<1>9. /\ IsFiniteSet(S \cup F) /\ Cardinality(S \cup F) = Cardinality(S) + Cardinality(F)
  BY <1>2, <1>3, DisjointSize
<1>10. Cardinality(Started') = Cardinality(S \cup F) + Cardinality(P)
  BY <1>2, <1>3, <1>4, <1>9, DisjointSize
<1>11. Cardinality(Reruns') <= Cardinality(P) + Cardinality(X) /\ Cardinality(Reruns') \in Nat
  <2>1. IsFiniteSet(P \cup X) /\ Cardinality(P \cup X) = Cardinality(P) + Cardinality(X)
    BY <1>2, <1>3, DisjointSize
  <2> QED
    BY <1>5, <2>1, FS_Subset, FS_CardinalityType
<1>12. Cardinality(X) <= Cardinality(Doubts') /\ Cardinality(Doubts') \in Nat
  <2>1. doubt' \in [Recipient -> Nat] /\ Doubts' = Pairs(doubt')
    BY DEF Types, Doubts, Pairs
  <2> QED
    BY <1>1, <1>7, <2>1, PairsCover, PairsFinite
<1>13. Cardinality(S \cup F) <= Cardinality(Settled')
  BY <1>6, SetsAssumption, FS_Subset
<1>14. Cardinality(Counting') = 0
  BY Unattended
<1> DEFINE n == job'.completed + job'.failed
<1>15. n = Cardinality(S \cup F) /\ n \in Nat
  BY <1>2, <1>8, <1>9
<1> HIDE DEF n
<1>16. n + Cardinality(Counting') + Cardinality(Reruns')
         <= Cardinality(Started') + Cardinality(Doubts')
  BY <1>2, <1>10, <1>11, <1>12, <1>14, <1>15
<1> QED
  BY <1>13, <1>15, <1>16 DEF TallyInv, n

\* The operator puts no ended mail back into the queue.
LEMMA OperatorReruns ==
  ASSUME StackInv, StackInv', RerunInv, stopped, [RecoveryNext]_recoveryVars
  PROVE  RerunInv'
<1>1. \A w \in Worker : wpc'[w] = "idle"
  BY OperatorSteps DEF StackInv, StopInv, Stop, workerVars
<1> SUFFICES ASSUME NEW r \in Recipient, bull'[r] \in {"waiting", "delayed"}, Ended(r)'
             PROVE  doubt'[r] > 0
  BY <1>1 DEF RerunInv
<1>2. log'[r] \in {"sent", "failed"}
  BY DEF Ended
<1>3. CASE bull'[r] = bull[r] /\ log'[r] = log[r] /\ doubt'[r] = doubt[r]
  BY <1>2, <1>3 DEF RerunInv, Ended
<1>4. CASE LoseRedis
  BY <1>4 DEF LoseRedis
<1>5. CASE EnqueueChunk
  <2>1. log' = log /\ doubt' = doubt /\ command = "enqueue"
    BY <1>5 DEF EnqueueChunk, dbVars, history
  <2>2. PICK chunk \in SUBSET todo : BullAdd(chunk, job.payload)
    BY <1>5 DEF EnqueueChunk
  <2>3. r \in chunk => log[r] = "pending"
    BY <2>1 DEF StackInv, TodoInv
  <2> QED
    BY <1>2, <1>3, <2>1, <2>2, <2>3 DEF BullAdd
<1>6. ASSUME NEW s \in Recipient, RetryOne(s)
      PROVE  doubt'[r] > 0
  <2>1. /\ log' = log /\ doubt' = doubt /\ command = "retry" /\ s \in todo
        /\ bull' = [bull EXCEPT ![s] = "waiting"]
    BY <1>6 DEF RetryOne, dbVars, history
  <2>2. s # r
    BY <1>2, <2>1 DEF StackInv, TodoInv
  <2> QED
    BY <1>3, <2>1, <2>2
<1>7. CASE LoseLogs \/ RestoreDump
  <2>1. bull' = bull /\ log'[r] = log[r] /\ doubt'[r] >= doubt[r]
    BY <1>2, <1>7, DisasterDoubts DEF LoseLogs, RestoreDump, bullVars, StackInv
  <2>2. doubt[r] \in Nat /\ doubt'[r] \in Nat
    BY DEF StackInv, Types
  <2>3. doubt[r] > 0
    BY <1>2, <2>1 DEF RerunInv, Ended
  <2> QED
    BY <2>1, <2>2, <2>3
<1>8. CASE UNCHANGED <<bullVars, accepted, doubt, promised>> /\ ~LoseLogs /\ ~RestoreDump
  <2>1. bull' = bull /\ doubt' = doubt
    BY <1>8 DEF bullVars
  <2>4. CASE Apply
    <3>1. log' = [s \in Recipient |->
                    IF s \in Queued \ Logged THEN ClassifySnapshot(s) ELSE log[s]]
      BY <2>4 DEF Apply
    <3>2. ClassifySnapshot(r) = "pending"
      BY <2>1 DEF ClassifySnapshot
    <3> QED
      BY <1>2, <1>3, <2>1, <3>1, <3>2
  <2>5. CASE RetryFailed
    BY <1>2, <1>3, <2>1, <2>5, RetryWrites DEF StackInv
  <2>6. CASE EnqueueDone \/ UNCHANGED dbVars
    BY <1>3, <2>1, <2>6 DEF EnqueueDone, dbVars
  <2> QED
    BY <1>8, <2>4, <2>5, <2>6, OperatorDatabase
<1> QED
  BY <1>4, <1>5, <1>6, <1>7, <1>8, OperatorQueue

\* What neither recounts nor loses the queue leaves the logs, the counters and the doubts
\* alone, and adds only mails that are pending.
LEMMA OperatorSpares ==
  ASSUME StackInv, stopped, ~damaged', [RecoveryNext]_recoveryVars,
         ~LoseRedis, ~Apply, ~RetryFailed
  PROVE  /\ ~damaged /\ log' = log /\ doubt' = doubt
         /\ job' = job \/ EnqueueDone
         /\ \A r \in Recipient : \/ bull'[r] = bull[r]
                                 \/ bull'[r] = "waiting" /\ log[r] = "pending"
<1>1. ~LoseLogs /\ ~RestoreDump
  BY DEF LoseLogs, RestoreDump
<1>2. ~damaged
  BY <1>1 DEF RecoveryNext, Running, Stop, Resume, EnqueueMissing, EnqueueChunk,
              EnqueueDone, RetryOne, CommandDies, recoveryVars, operatorVars
<1>3. log' = log /\ (job' = job \/ EnqueueDone)
  BY <1>1, OperatorDatabase DEF EnqueueDone, dbVars
<1>4. CASE EnqueueChunk
  <2>1. doubt' = doubt /\ command = "enqueue"
    BY <1>4 DEF EnqueueChunk, history
  <2>2. PICK chunk \in SUBSET todo : BullAdd(chunk, job.payload)
    BY <1>4 DEF EnqueueChunk
  <2>3. \A r \in chunk : log[r] = "pending"
    BY <2>1 DEF StackInv, TodoInv
  <2> QED
    BY <1>2, <1>3, <2>1, <2>2, <2>3 DEF BullAdd
<1>5. ASSUME NEW s \in Recipient, RetryOne(s)
      PROVE  /\ doubt' = doubt
             /\ \A r \in Recipient : \/ bull'[r] = bull[r]
                                     \/ bull'[r] = "waiting" /\ log[r] = "pending"
  <2>1. /\ doubt' = doubt /\ command = "retry" /\ s \in todo
        /\ bull' = [bull EXCEPT ![s] = "waiting"]
    BY <1>5 DEF RetryOne, history
  <2>2. log[s] = "pending"
    BY <2>1 DEF StackInv, TodoInv
  <2> QED
    BY <2>1, <2>2 DEF StackInv, Types
<1>6. CASE UNCHANGED <<bullVars, accepted, doubt, promised>>
  BY <1>2, <1>3, <1>6 DEF bullVars
<1> QED
  BY <1>1, <1>2, <1>3, <1>4, <1>5, <1>6, OperatorQueue

\* The operator keeps the tally and the end of the campaign.
LEMMA OperatorCounts ==
  ASSUME StackInv, StackInv', CountsInv, stopped, ~damaged', [RecoveryNext]_recoveryVars
  PROVE  TallyInv' /\ EndInv'
<1>1. (\A w \in Worker : wpc'[w] = "idle") /\ ~poll'
  BY OperatorSteps DEF StackInv, StopInv, Stop, workerVars, CountsInv
<1>2. RerunInv' /\ Types /\ Types'
  BY OperatorReruns DEF CountsInv, StackInv
<1>3. /\ Cardinality(Counting') = 0
      /\ Cardinality(Counting) \in Nat
      /\ Cardinality(Reruns) \in Nat /\ Cardinality(Reruns') \in Nat
      /\ Cardinality(Started) \in Nat /\ Cardinality(Started') \in Nat
      /\ Cardinality(Doubts) \in Nat /\ Cardinality(Doubts') \in Nat
      /\ job.completed + job.failed \in Nat /\ job'.completed + job'.failed \in Nat
      /\ Cardinality(Settled) \in Nat /\ Cardinality(Settled') \in Nat /\ job.valid \in Nat
  BY <1>1, <1>2, TallySizes, Unattended
<1>4. CASE Apply
  <2>1. /\ job'.completed = Count(log', "sent") /\ job'.failed = Count(log', "failed")
        /\ job'.status # "none"
        /\ job'.status = "completed" => job'.completed + job'.failed = job'.valid
    <3>1. job' = Rated(Recounted(log')) /\ job \in JobRow
      BY <1>2, <1>4 DEF Apply, Types
    <3> QED
      BY <3>1 DEF Rated, Recounted, JobRow
  <2>2. TallyInv' /\ job'.completed + job'.failed <= Cardinality(Settled')
    BY <1>1, <1>2, <2>1, RecountTallies
  <2>3. job'.status = "completed" => Cardinality(Settled') >= job'.valid
    BY <1>3, <2>1, <2>2
  <2> QED
    BY <1>1, <2>1, <2>2, <2>3 DEF EndInv
<1>5. CASE RetryFailed
  <2>1. /\ job'.completed = Count(log', "sent") /\ job'.failed = Count(log', "failed")
        /\ job'.status = "processing"
    <3>1. job' = [Recounted(log') EXCEPT !.status = "processing"] /\ job \in JobRow
      BY <1>2, <1>5 DEF RetryFailed, Types
    <3> QED
      BY <3>1 DEF Recounted, JobRow
  <2>2. TallyInv'
    BY <1>1, <1>2, <2>1, RecountTallies
  <2> QED
    BY <1>1, <2>1, <2>2 DEF EndInv
<1>6. CASE LoseRedis
  <2> DEFINE P == {r \in Recipient : bull[r] # "absent" /\ log[r] = "processing"}
             R == Reruns' \ P
  <2>1. /\ job' = job /\ log' = log /\ ~damaged
        /\ \A r \in Recipient : bull'[r] = "absent"
        /\ doubt' = [r \in Recipient |-> IF r \in P THEN doubt[r] + 1 ELSE doubt[r]]
    BY <1>6 DEF LoseRedis, Forget, dbVars
  <2>2. R \subseteq Reruns /\ Started' = Started
    BY <1>1, <2>1, Unattended DEF Reruns, Started
  <2>3. doubt \in [Recipient -> Nat]
    BY <1>2 DEF Types
  <2>4. /\ \A r \in Recipient : doubt'[r] >= doubt[r]
        /\ P \in SUBSET Recipient
        /\ \A r \in P : doubt'[r] = doubt[r] + 1
    BY <2>1, <2>3
  <2>5. Settled \subseteq Settled'
    BY <2>1, <2>3, <2>4 DEF Settled
  <2>5a. Reruns' \subseteq P \cup R /\ P \cap R = {} /\ Reruns \in SUBSET Recipient
    BY DEF Reruns, Started
  <2> HIDE DEF P, R
  <2>6. Cardinality(Doubts) + Cardinality(P) <= Cardinality(Doubts')
    BY <1>2, <2>4, DoubtMoves
  <2>7. Cardinality(Reruns') <= Cardinality(P) + Cardinality(Reruns) /\ Cardinality(P) \in Nat
    <3>1. /\ IsFiniteSet(P) /\ IsFiniteSet(R) /\ IsFiniteSet(Reruns)
          /\ Cardinality(P) \in Nat /\ Cardinality(R) \in Nat
          /\ Cardinality(R) <= Cardinality(Reruns)
      BY <2>2, <2>4, <2>5a, FS_Subset, FS_CardinalityType, SetsAssumption
    <3>2. IsFiniteSet(P \cup R) /\ Cardinality(P \cup R) = Cardinality(P) + Cardinality(R)
      BY <2>5a, <3>1, DisjointSize
    <3>3. Cardinality(Reruns') <= Cardinality(P \cup R)
      BY <2>5a, <3>2, FS_Subset
    <3> QED
      BY <1>3, <3>1, <3>2, <3>3
  <2>8. job'.completed + job'.failed = job.completed + job.failed
    BY <2>1
  <2>9. job.completed + job.failed + Cardinality(Counting) + Cardinality(Reruns)
          <= Cardinality(Started) + Cardinality(Doubts)
    BY <2>1 DEF CountsInv, TallyInv
  <2> DEFINE n == job.completed + job.failed
             m == job'.completed + job'.failed
  <2> HIDE DEF n, m
  <2>10. m = n /\ n \in Nat /\ n + Cardinality(Counting) + Cardinality(Reruns)
                                 <= Cardinality(Started) + Cardinality(Doubts)
    BY <1>3, <2>8, <2>9 DEF n, m
  <2>11. m + Cardinality(Counting') + Cardinality(Reruns')
           <= Cardinality(Started') + Cardinality(Doubts')
    BY <1>3, <2>2, <2>6, <2>7, <2>10
  <2>12. Cardinality(Settled) <= Cardinality(Settled')
    BY <2>5, TallyMoves
  <2>13. job.status = "completed" => Cardinality(Settled) >= job.valid
    BY <2>1 DEF CountsInv, EndInv
  <2>14. job'.status = "completed" => Cardinality(Settled') >= job'.valid /\ job'.status # "none"
    BY <1>3, <2>1, <2>12, <2>13
  <2> QED
    BY <1>1, <2>11, <2>14 DEF TallyInv, EndInv, m
<1>7. CASE ~LoseRedis /\ ~Apply /\ ~RetryFailed
  <2>1. /\ ~damaged /\ log' = log /\ doubt' = doubt
        /\ job' = job \/ EnqueueDone
        /\ \A r \in Recipient : \/ bull'[r] = bull[r]
                                \/ bull'[r] = "waiting" /\ log[r] = "pending"
    BY <1>7, OperatorSpares
  <2>2. /\ Started' = Started /\ Doubts' = Doubts /\ Settled' = Settled
        /\ Reruns' \subseteq Reruns
    BY <1>1, <2>1, Unattended DEF Started, Doubts, Settled, Reruns
  <2>3. Cardinality(Reruns') <= Cardinality(Reruns)
    BY <2>2, TallyMoves
  <2>4. /\ job'.completed = job.completed /\ job'.failed = job.failed
        /\ job'.status = "completed" => job' = job
    BY <1>2, <2>1 DEF EnqueueDone, Types, JobRow
  <2> DEFINE n == job.completed + job.failed
             m == job'.completed + job'.failed
  <2> HIDE DEF n, m
  <2>5. m = n /\ n \in Nat /\ n + Cardinality(Counting) + Cardinality(Reruns)
                                 <= Cardinality(Started) + Cardinality(Doubts)
    BY <1>3, <2>1, <2>4 DEF n, m, CountsInv, TallyInv
  <2>6. m + Cardinality(Counting') + Cardinality(Reruns')
          <= Cardinality(Started') + Cardinality(Doubts')
    BY <1>3, <2>2, <2>3, <2>5
  <2>7. job'.status = "completed" => Cardinality(Settled') >= job'.valid /\ job'.status # "none"
    BY <2>1, <2>2, <2>4 DEF CountsInv, EndInv
  <2> QED
    BY <1>1, <2>6, <2>7 DEF TallyInv, EndInv, m
<1> QED
  BY <1>4, <1>5, <1>6, <1>7
\* The counters and the end of the campaign are kept by every step.
LEMMA StepCounts ==
  ASSUME StackInv, StackInv', SoleInv, OpenInv, CountsInv, Faults \subseteq {"api", "crash"},
         [RecoveryNext]_recoveryVars
  PROVE  CountsInv'
<1>1. Types /\ Types'
  BY DEF StackInv
<1>2. CASE ~stopped /\ [Next]_vars /\ UNCHANGED operatorVars
  <2>1. damaged' = damaged /\ stopped' = stopped
    BY <1>2 DEF operatorVars
  <2>2. RerunInv' /\ SendInv'
    BY <1>2, <2>1, StepRerun, StepSend DEF StackInv, CountsInv
  <2>3. ASSUME ~damaged
        PROVE  TallyInv' /\ EndInv'
    BY <1>1, <1>2, <2>3, StepTally, StepEnd DEF StackInv, CountsInv
  <2> QED
    BY <1>2, <2>1, <2>2, <2>3 DEF CountsInv
<1>3. CASE Stop
  <2>1. /\ UNCHANGED <<job, log, bull, doubt, damaged>> /\ ~poll'
        /\ \A w \in Worker : wpc'[w] = "idle"
    BY <1>3 DEF Stop, dbVars, history
  <2>2. SendInv' /\ RerunInv'
    BY <2>1, Unattended DEF CountsInv, RerunInv, Ended
  <2>3. ASSUME ~damaged
        PROVE  TallyInv'
    <3>1. Started' = Started /\ Doubts' = Doubts /\ Reruns' \subseteq Reruns
      BY <2>1, Unattended DEF Started, Doubts, Reruns
    <3>2. Cardinality(Reruns') <= Cardinality(Reruns) /\ Cardinality(Counting') = 0
      BY <2>1, <3>1, TallyMoves, Unattended
    <3>3. /\ Cardinality(Counting) \in Nat
          /\ Cardinality(Reruns) \in Nat /\ Cardinality(Reruns') \in Nat
          /\ Cardinality(Started) \in Nat /\ Cardinality(Doubts) \in Nat
      BY <1>1, TallySizes
    <3> DEFINE n == job.completed + job.failed
    <3>4. n \in Nat /\ n' = n
      BY <1>1, <2>1, TallySizes
    <3>5. n + Cardinality(Counting) + Cardinality(Reruns)
            <= Cardinality(Started) + Cardinality(Doubts)
      BY <2>3 DEF CountsInv, TallyInv
    <3> HIDE DEF n
    <3>6. n' + Cardinality(Counting') + Cardinality(Reruns')
            <= Cardinality(Started') + Cardinality(Doubts')
      BY <3>1, <3>2, <3>3, <3>4, <3>5
    <3> QED
      BY <3>6 DEF TallyInv, n
  <2>4. ASSUME ~damaged
        PROVE  EndInv'
    BY <2>1, <2>4 DEF CountsInv, EndInv, Settled
  <2> QED
    BY <2>1, <2>2, <2>3, <2>4 DEF CountsInv
<1>4. CASE stopped /\ UNCHANGED <<requestVars, workerVars, lock, poll>>
  <2>1. (\A w \in Worker : wpc'[w] = "idle") /\ ~poll'
    BY <1>4 DEF StackInv, StopInv, workerVars, CountsInv
  <2>2. SendInv' /\ RerunInv'
    BY <1>4, <2>1, Unattended, OperatorReruns DEF CountsInv
  <2>3. ~damaged' => TallyInv' /\ EndInv'
    BY <1>4, OperatorCounts
  <2> QED
    BY <2>1, <2>2, <2>3 DEF CountsInv
<1> QED
  BY <1>2, <1>3, <1>4, OperatorSteps DEF StackInv

\* The sizes that TallyInv adds up, in one state.
LEMMA CountSizes ==
  ASSUME Types
  PROVE  /\ Cardinality(Counting) \in Nat /\ Cardinality(Reruns) \in Nat
         /\ Cardinality(Started) \in Nat /\ Cardinality(Doubts) \in Nat
         /\ job.completed + job.failed \in Nat
<1>1. /\ Counting \in SUBSET Worker /\ Reruns \in SUBSET Recipient
      /\ Started \in SUBSET Recipient
  BY DEF Counting, Reruns, Started
<1>2. Cardinality(Doubts) \in Nat
  BY PairsFinite DEF Doubts, Pairs, Types
<1>3. job.completed + job.failed \in Nat
  BY DEF Types, JobRow
<1> QED
  BY <1>1, <1>2, <1>3, SetCount, SetsAssumption

\* The row of a campaign, which requests, runs, polls and the commands of
\* reconcile:email-jobs write: its counters count a recipient once, and once more for each
\* run whose outcome nobody learned, and it is "completed" only when all its mails have
\* ended, but for those sent again after such a run.  It holds from the start, through
\* losses of Redis, and again after a report repaired lost logs; for any number of stalls,
\* as long as no lock expires under a run and the database answers.
THEOREM RepairedAlwaysCounts ==
  ASSUME Faults \subseteq {"api", "crash"}
  PROVE  RecoverySpec => []RepairedCounts
<1>1. "db" \notin Faults
  BY Faults \subseteq {"api", "crash"}
<1> DEFINE I == StackInv /\ AgreeInv /\ MailInv /\ CountsInv
<1>2. RecoveryInit => I
  <2> SUFFICES ASSUME RecoveryInit PROVE I
    OBVIOUS
  <2>1. StackInv /\ MailInv
    BY InitStack, InitMail
  <2>2. AgreeInv
    BY DEF RecoveryInit, Init, AgreeInv, SoleInv, StageInv, QueueAndLogAgree
  <2>3. /\ Counting = {} /\ Reruns = {} /\ job.completed = 0 /\ job.failed = 0
        /\ job.status = "none" /\ ~poll
    BY DEF RecoveryInit, Init, NoJob, Counting, Reruns, Started
  <2>4. Cardinality(Started) \in Nat /\ Cardinality(Doubts) \in Nat
    BY <2>1, CountSizes DEF StackInv
  <2>5. TallyInv
    BY <2>3, <2>4, FS_EmptySet DEF TallyInv
  <2>6. RerunInv /\ SendInv
    BY DEF RecoveryInit, Init, RerunInv, SendInv
  <2>7. EndInv
    BY <2>3 DEF EndInv
  <2> QED
    BY <2>1, <2>2, <2>3, <2>5, <2>6, <2>7 DEF CountsInv
<1>3. I /\ [RecoveryNext]_recoveryVars => I'
  <2> SUFFICES ASSUME I, [RecoveryNext]_recoveryVars PROVE I'
    OBVIOUS
  <2>1. StackInv'
    BY StepStack
  <2>2. AgreeInv' /\ MailInv'
    BY <1>1, <2>1, StepAgreement, StepMail, Faults \subseteq {"api", "crash"}
  <2>3. CountsInv'
    BY <2>1, StepCounts, Faults \subseteq {"api", "crash"} DEF AgreeInv, MailInv
  <2> QED
    BY <2>1, <2>2, <2>3
<1>4. I => RepairedCounts
  <2> SUFFICES ASSUME I, ~damaged
               PROVE  /\ job.completed + job.failed <= Cardinality(Logged) + Cardinality(Doubts)
                      /\ job.status = "completed" => Cardinality(Settled) >= job.valid
    BY DEF RepairedCounts
  <2> DEFINE n == job.completed + job.failed
  <2>1. /\ Cardinality(Counting) \in Nat /\ Cardinality(Reruns) \in Nat
        /\ Cardinality(Started) \in Nat /\ Cardinality(Doubts) \in Nat /\ n \in Nat
    BY CountSizes DEF StackInv
  <2>2. n + Cardinality(Counting) + Cardinality(Reruns)
          <= Cardinality(Started) + Cardinality(Doubts)
    BY DEF CountsInv, TallyInv
  <2>3. Cardinality(Started) <= Cardinality(Logged) /\ Cardinality(Logged) \in Nat
    <3>1. /\ Started \in SUBSET Recipient /\ Logged \in SUBSET Recipient
          /\ Started \subseteq Logged
      BY DEF Started, Logged
    <3> QED
      BY <3>1, SetCount, SetsAssumption
  <2>4. job.status = "completed" => Cardinality(Settled) >= job.valid
    BY DEF CountsInv, EndInv
  <2> HIDE DEF n
  <2>5. n <= Cardinality(Logged) + Cardinality(Doubts)
    BY <2>1, <2>2, <2>3
  <2> QED
    BY <2>4, <2>5 DEF n
<1> HIDE DEF I
<1> QED
  BY <1>2, <1>3, <1>4, PTL DEF RecoverySpec

=============================================================================
