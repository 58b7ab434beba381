------------------------------ MODULE Recovery ------------------------------
(***************************************************************************)
(* A campaign that loses a part of its state, and the operator who repairs *)
(* it with `npm run reconcile:email-jobs`.  Following docs/production.md,   *)
(* the operator stops the frontend and the worker, reads the report of the *)
(* dry run, may apply it, enqueue the missing jobs or retry the failed     *)
(* ones, and starts the stack again.                                       *)
(*                                                                         *)
(* While the stack is stopped nobody else touches the campaign, so a       *)
(* command reads its snapshot of the queue, its report and what its        *)
(* transaction writes in one step; the calls that follow the transaction   *)
(* are steps of their own, and the command may die between them.           *)
(***************************************************************************)
EXTENDS Campaign

CONSTANTS
  Disasters,    \* what may be lost: "redis" "logs" "dump"
  MaxStrikes,   \* disasters, bounded
  MaxCommands   \* commands that write, bounded

ASSUME RecoveryAssumption ==
  /\ Disasters \subseteq {"redis", "logs", "dump"}
  /\ MaxStrikes \in Nat /\ MaxCommands \in Nat

VARIABLES
  stopped,      \* frontend and worker are scaled to zero
  command,      \* what the running command does after its transaction
  todo,         \* the Bull jobs it has yet to add or to retry
  commands,     \* commands run so far
  strikes,      \* disasters so far
  damaged       \* log rows are lost and no report was applied since

operatorVars == <<stopped, command, todo, commands, strikes, damaged>>
recoveryVars == <<vars, operatorVars>>

Command == {"none", "enqueue", "retry"}

RecoveryInit ==
  /\ Init
  /\ stopped = FALSE
  /\ command = "none"
  /\ todo = {}
  /\ commands = 0
  /\ strikes = 0
  /\ damaged = FALSE

-----------------------------------------------------------------------------
(***************************************************************************)
(* The stack around the commands.                                          *)
(***************************************************************************)
Running ==
  /\ ~stopped
  /\ Next
  /\ UNCHANGED operatorVars

\* docker service scale: requests, runs and polls die where they are.
Stop ==
  /\ ~stopped
  /\ commands < MaxCommands
  /\ stopped' = TRUE
  /\ rpc' = [q \in Request |-> "idle"]
  /\ rlist' = [q \in Request |-> {}]
  /\ rpayload' = [q \in Request |-> None]
  /\ toSend' = [q \in Request |-> {}]
  /\ missing' = [q \in Request |-> {}]
  /\ blocked' = [q \in Request |-> FALSE]
  /\ wpc' = [w \in Worker |-> "idle"]
  /\ wjob' = [w \in Worker |-> None]
  /\ wok' = [w \in Worker |-> FALSE]
  /\ lock' = [r \in Recipient |-> None]
  /\ poll' = FALSE
  /\ UNCHANGED <<dbVars, bull, data, returned, attemptsMade, stalled, history,
                 command, todo, commands, strikes, damaged>>

Resume ==
  /\ stopped
  /\ command = "none"
  /\ stopped' = FALSE
  /\ UNCHANGED <<vars, command, todo, commands, strikes, damaged>>

Strike(disaster) ==
  /\ stopped
  /\ command = "none"
  /\ disaster \in Disasters
  /\ strikes < MaxStrikes
  /\ strikes' = strikes + 1

\* Nobody knows any more how the mails of these recipients ended.
Forget(R) == doubt' = [r \in Recipient |-> IF r \in R THEN doubt[r] + 1 ELSE doubt[r]]

Ended(r) == log[r] \in {"sent", "failed"}

\* The Redis volume is lost, and with it how the started mails end; once rows were
\* lost, a row that has not ended does not say whether its mail was started.
LoseRedis ==
  /\ Strike("redis")
  /\ bull' = [r \in Recipient |-> "absent"]
  /\ data' = [r \in Recipient |-> None]
  /\ returned' = [r \in Recipient |-> "none"]
  /\ attemptsMade' = [r \in Recipient |-> 0]
  /\ stalled' = [r \in Recipient |-> 0]
  /\ Forget({r \in Recipient : /\ bull[r] # "absent"
                               /\ log[r] = "processing" \/ (damaged /\ ~Ended(r))})
  /\ UNCHANGED <<dbVars, lock, requestVars, workerVars, poll, promised, accepted,
                 stopped, command, todo, commands, damaged>>

\* Mails whose row alone says how they ended, for Redis was lost since.
OnlyLogged == {r \in Recipient : bull[r] = "absent" /\ Ended(r)}

\* Log rows are missing: what the incident of story 3.3 left behind, Bull jobs
\* without a row.
LoseLogs ==
  /\ Strike("logs")
  /\ \E lost \in SUBSET {r \in Recipient : log[r] # "absent"} :
       /\ lost # {}
       /\ log' = [r \in Recipient |-> IF r \in lost THEN "absent" ELSE log[r]]
       /\ Forget(lost \cap OnlyLogged)
  /\ damaged' = TRUE
  /\ UNCHANGED <<job, bullVars, requestVars, workerVars, poll, promised, accepted,
                 stopped, command, todo, commands>>

\* restore.sh: the database is the dump of a day before the campaign, Redis is
\* as it was.
RestoreDump ==
  /\ Strike("dump")
  /\ job' = NoJob
  /\ log' = [r \in Recipient |-> "absent"]
  /\ Forget(OnlyLogged)
  /\ damaged' = TRUE
  /\ UNCHANGED <<bullVars, requestVars, workerVars, poll, promised, accepted,
                 stopped, command, todo, commands>>

-----------------------------------------------------------------------------
(***************************************************************************)
(* The report: what a snapshot of the queue says of each recipient, and    *)
(* what stands in the way of writing it down.                              *)
(***************************************************************************)
Queued == {r \in Recipient : bull[r] # "absent"}
Logged == {r \in Recipient : log[r] # "absent"}

Mut_CompletedIsSent(r) ==
  CASE bull[r] = "active"    -> "uncertain"
    [] bull[r] = "completed" -> "sent"
    [] bull[r] = "failed"    -> "failed"
    [] OTHER                 -> "pending"
ClassifySnapshot(r) ==
  CASE bull[r] = "active"    -> "uncertain"
    [] bull[r] = "completed" -> IF returned[r] = "success" THEN "sent" ELSE "failed"
    [] bull[r] = "failed"    -> "failed"
    [] OTHER                 -> "pending"

\* An existing log that another end of the Bull job contradicts.
Conflicts(r) ==
  /\ ClassifySnapshot(r) \in {"sent", "failed"}
  /\ log[r] \notin {"absent", ClassifySnapshot(r)}

\* campaignMatchesQueueData.
MatchesQueueData(r) == data[r] = job.payload

\* The dry run finds no blocker, for a campaign with Bull jobs.
NoBlockers ==
  /\ Queued # {}
  /\ job.status # "none"
  /\ \A r \in Queued : /\ MatchesQueueData(r)
                       /\ ClassifySnapshot(r) # "uncertain"
                       /\ ~Conflicts(r)
  /\ Cardinality(Queued \cup Logged) = job.valid

\* Its only blocker is "Persisted pending campaign has no Bull jobs".
OnlyDatabase == Queued = {} /\ job.status \in {"pending", "processing"}

-----------------------------------------------------------------------------
(***************************************************************************)
(* The commands.                                                           *)
(***************************************************************************)
Count(logs, status) == Cardinality({r \in Recipient : logs[r] = status})

\* The counters of the jobs row, from the logs as they will be.
Mut_KeepCounters(logs) == job
Mut_AdjustCounters(logs) == [job EXCEPT !.failed = @ - Count(logs, "pending")]
Recounted(logs) ==
  [job EXCEPT !.completed = Count(logs, "sent"), !.failed = Count(logs, "failed")]

Begin(cmd, rs) ==
  /\ stopped
  /\ command = "none"
  /\ commands < MaxCommands
  /\ commands' = commands + 1
  /\ command' = cmd
  /\ todo' = rs

\* --apply: inserts the missing logs with the status of their Bull job, and
\* recounts the campaign.
Rated(row) ==
  [row EXCEPT !.status = IF row.completed + row.failed = row.valid
                           THEN "completed" ELSE "processing"]

Apply ==
  /\ Begin("none", {})
  /\ NoBlockers
  /\ log' = [r \in Recipient |->
               IF r \in Queued \ Logged THEN ClassifySnapshot(r) ELSE log[r]]
  /\ job' = Rated(Recounted(log'))
  /\ damaged' = FALSE
  /\ UNCHANGED <<bullVars, requestVars, workerVars, poll, history, stopped, strikes>>

\* --enqueue-missing: the operator has confirmed that the provider never
\* accepted the pending mails; a mail in "processing" refuses the command.
MissingJobs == {r \in Recipient : log[r] = "pending"}

EnqueueMissing ==
  /\ Begin("enqueue", MissingJobs)
  /\ OnlyDatabase
  /\ \A r \in Recipient : log[r] # "processing"
  /\ \A r \in Recipient : log[r] = "pending" => accepted[r] = 0
  /\ MissingJobs # {}
  /\ UNCHANGED <<vars, stopped, strikes, damaged>>

\* addBulkEmailJobs with verifiedMissingJobIds: no lookup, one chunk at a time.
EnqueueChunk ==
  /\ command = "enqueue"
  /\ \E chunk \in SUBSET todo :
       /\ chunk # {}
       /\ Cardinality(chunk) = ChunkSize \/ (chunk = todo /\ Cardinality(chunk) <= ChunkSize)
       /\ BullAdd(chunk, job.payload)
       /\ todo' = todo \ chunk
  /\ UNCHANGED <<dbVars, returned, attemptsMade, stalled, lock, requestVars,
                 workerVars, poll, history, stopped, command, commands, strikes, damaged>>

\* updateStatus(job.id, "processing") ends the command.
EnqueueDone ==
  /\ command = "enqueue"
  /\ todo = {}
  /\ job' = [job EXCEPT !.status = "processing"]
  /\ command' = "none"
  /\ UNCHANGED <<log, bullVars, requestVars, workerVars, poll, history,
                 stopped, todo, commands, strikes, damaged>>

\* --retry-failed: the failed Bull jobs, all of them with a failed log, that the
\* operator has confirmed as not delivered.  The transaction sets the rows back
\* to pending and recounts.
FailedJobs == {r \in Recipient : bull[r] = "failed"}

RetryFailed ==
  /\ Begin("retry", FailedJobs)
  /\ NoBlockers
  /\ FailedJobs # {}
  /\ \A r \in FailedJobs : log[r] = "failed" /\ accepted[r] = 0
  /\ log' = [r \in Recipient |-> IF r \in FailedJobs THEN "pending" ELSE log[r]]
  /\ job' = [Recounted(log') EXCEPT !.status = "processing"]
  /\ UNCHANGED <<bullVars, requestVars, workerVars, poll, history, stopped, strikes, damaged>>

\* job.retry() of one failed job: back to waiting, its attempts as they were.
RetryOne(r) ==
  /\ command = "retry"
  /\ r \in todo
  /\ bull' = [bull EXCEPT ![r] = "waiting"]
  /\ todo' = todo \ {r}
  /\ command' = IF todo' = {} THEN "none" ELSE "retry"
  /\ UNCHANGED <<dbVars, data, returned, attemptsMade, stalled, lock, requestVars,
                 workerVars, poll, history, stopped, commands, strikes, damaged>>

\* Redis refuses a call, or the command is killed.
CommandDies ==
  /\ command # "none"
  /\ command' = "none"
  /\ todo' = {}
  /\ UNCHANGED <<vars, stopped, commands, strikes, damaged>>

RecoveryNext ==
  \/ Running
  \/ Stop \/ Resume
  \/ LoseRedis \/ LoseLogs \/ RestoreDump
  \/ Apply
  \/ EnqueueMissing \/ EnqueueChunk \/ EnqueueDone
  \/ RetryFailed \/ (\E r \in Recipient : RetryOne(r))
  \/ CommandDies

RecoverySpec == RecoveryInit /\ [][RecoveryNext]_recoveryVars

-----------------------------------------------------------------------------
(***************************************************************************)
(* Properties.                                                             *)
(***************************************************************************)

\* The types of what the commands write; a retried job may pass the limit of
\* attempts, for job.retry() does not reset them.
RecoveryTypeOK ==
  /\ job \in JobRow
  /\ log \in [Recipient -> LogStatus]
  /\ bull \in [Recipient -> BullState]
  /\ attemptsMade \in [Recipient -> Nat]
  /\ stopped \in BOOLEAN
  /\ command \in Command
  /\ todo \subseteq Recipient
  /\ commands \in 0 .. MaxCommands
  /\ strikes \in 0 .. MaxStrikes
  /\ damaged \in BOOLEAN
  /\ command # "none" => stopped

\* Once a report was applied after log rows were lost, the queue and the
\* database agree again and go on agreeing, whatever the clients, the worker and
\* later commands do: every Bull job is persisted with its payload, and every
\* completed one has the log its result says.
RepairedAgrees == ~damaged => QueuedIsPersisted /\ QueueAndLogAgree

\* The runs whose outcome the system could not learn, one by one.
Doubts == UNION {{r} \X (1 .. doubt[r]) : r \in Recipient}

\* The emails that have ended, or that Bull sends once more after such a run.
Settled == {r \in Recipient : \/ log[r] \in {"sent", "failed"}
                              \/ log[r] = "processing" /\ doubt[r] > 0}

\* The same for the row of the campaign.  Its counters, which --apply and
\* --retry-failed recompute and the runs go on incrementing, count a recipient
\* once, and once more for each run whose outcome nobody learned; and it is
\* "completed" only when all its emails have ended, but for those Bull sends
\* again after such a run.
RepairedCounts == ~damaged =>
  /\ job.completed + job.failed <= Cardinality(Logged) + Cardinality(Doubts)
  /\ job.status = "completed" => Cardinality(Settled) >= job.valid

\* docs/production.md: Bull jobs that ended as failed can be retried with
\* --retry-failed once Mailgrid confirms that nothing was delivered; the command
\* refuses only other payloads, bad hashes, active jobs and uncertain states.
\* Jobs that used up their attempts are the ones it is for.  TLC refutes this of
\* reconcileEmailJobs, see "Findings" in README.md.
FailedCanBeRetried ==
  (/\ stopped /\ command = "none" /\ strikes = 0
   /\ FailedJobs # {}
   /\ \A r \in FailedJobs : accepted[r] = 0 /\ attemptsMade[r] = MaxAttempts
   /\ \A r \in Recipient : bull[r] # "active")
  => NoBlockers /\ \A r \in FailedJobs : log[r] = "failed"

\* docs/production.md: the dry run ends with code 2 when recipients are missing.
\* A report without blockers leaves no pending mail outside the queue.  TLC
\* refutes this of reconcileEmailJobs, see "Findings" in README.md.
CleanReportIsComplete ==
  (stopped /\ command = "none" /\ NoBlockers)
  => \A r \in Recipient : log[r] = "pending" => bull[r] \in InQueue
=============================================================================
