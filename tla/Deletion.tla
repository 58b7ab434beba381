------------------------------ MODULE Deletion ------------------------------
(***************************************************************************)
(* DELETE /api/jobs/:jobId on a campaign that clients post and the worker  *)
(* sends.  The row and, by cascade, its logs go; the Bull jobs stay.  A    *)
(* campaign posted again gets a new row, so every statement of Campaign    *)
(* that writes by id is refined here: it remembers the row it has read, and *)
(* writes nothing when that row is gone.                                   *)
(***************************************************************************)
EXTENDS Campaign

CONSTANT MaxDeletes     \* rows deleted, bounded

ASSUME DeletionAssumption == MaxDeletes \in Nat

VARIABLES
  row,        \* id of the current row of the campaign, or of its next one
  requestRow, \* the row each request persisted
  runRow,     \* the row whose log each run last looked up
  found,      \* runs that looked their log up to record their result
  pollRow,    \* the row a poll found to be complete
  deleting    \* the row a delete request has checked, 0 when there is none

rowVars == <<row, requestRow, runRow, found, pollRow, deleting>>
deletionVars == <<vars, rowVars>>

Ids == 0 .. MaxDeletes + 1

DeletionInit ==
  /\ Init
  /\ row = 1
  /\ requestRow = [q \in Request |-> 0]
  /\ runRow = [w \in Worker |-> 0]
  /\ found = {}
  /\ pollRow = 0
  /\ deleting = 0

-----------------------------------------------------------------------------
\* What neither reads a row id nor writes by one.
Unrelated ==
  /\ \/ \E q \in Request :
          \/ \E list \in Lists, p \in Payload : Post(q, list, p)
          \/ LookupChunk(q) \/ AddBulk(q) \/ AbortRequest(q)
     \/ \E w \in Worker :
          \/ \E r \in Recipient : Take(w, r)
          \/ SendAccepted(w) \/ SendRejected(w) \/ SendUnreadable(w)
          \/ SendThrows(w) \/ SendLost(w)
          \/ MoveToCompleted(w) \/ MoveToFailed(w)
          \/ DatabaseError(w) \/ CrashRun(w) \/ LoseLock(w)
     \/ \E r \in Recipient : Promote(r) \/ RequeueStalled(r)
  /\ found' = {w \in found : wpc'[w] = "record"}
  /\ UNCHANGED <<row, requestRow, runRow, pollRow, deleting>>

\* The transaction of POST /api/send, which finds the row or makes one.
PersistRow(q) ==
  /\ Persist(q)
  /\ requestRow' = [requestRow EXCEPT ![q] = row]
  /\ UNCHANGED <<row, runRow, found, pollRow, deleting>>

\* WHERE id = ...: the row that was read, which may be gone by now.
Mut_ByCampaign(id) == job.status # "none"
Same(id) == id = row

\* UPDATE jobs ... WHERE id = job.id.
StartRow(q) ==
  /\ \/ /\ Same(requestRow[q])
        /\ StartProcessing(q)
     \/ /\ ~Same(requestRow[q])
        /\ rpc[q] = "status"
        /\ AnswerAccepted(q)
        /\ UNCHANGED <<dbVars, bullVars, workerVars, poll, accepted, doubt>>
  /\ UNCHANGED rowVars

\* findByUniqueHash and update(existing.id, processing).
CheckRow(w) ==
  /\ CheckIdempotency(w)
  /\ runRow' = [runRow EXCEPT ![w] = row]
  /\ UNCHANGED <<row, requestRow, found, pollRow, deleting>>

MarkRow(w) ==
  /\ \/ /\ Same(runRow[w])
        /\ MarkProcessing(w)
     \/ /\ ~Same(runRow[w])
        /\ wpc[w] = "mark"
        /\ Goto(w, "send")
        /\ UNCHANGED <<dbVars, bullVars, requestVars, wjob, wok, poll, history>>
  /\ UNCHANGED rowVars

\* findByUniqueHash again, after the mail; without a row the run is done.
FindRow(w) ==
  /\ wpc[w] = "record"
  /\ w \notin found
  /\ \/ /\ log[Run(w)] # "absent"
        /\ found' = found \cup {w}
        /\ runRow' = [runRow EXCEPT ![w] = row]
        /\ UNCHANGED vars
     \/ /\ log[Run(w)] = "absent"
        /\ RecordResult(w)
        /\ UNCHANGED <<found, runRow>>
  /\ UNCHANGED <<row, requestRow, pollRow, deleting>>

\* markAsSent(existing.id) or markAsFailed(existing.id).
RecordRow(w) ==
  /\ w \in found
  /\ \/ /\ Same(runRow[w])
        /\ RecordResult(w)
     \/ /\ ~Same(runRow[w])
        /\ Goto(w, "count")
        /\ UNCHANGED <<dbVars, bullVars, requestVars, wjob, wok, poll, history>>
  /\ found' = found \ {w}
  /\ UNCHANGED <<row, requestRow, runRow, pollRow, deleting>>

\* findAll({campaign_id}) and the increment of the row it finds, if any.
CountRow(w) ==
  /\ \/ /\ job.status # "none"
        /\ CountResult(w)
     \/ /\ job.status = "none"
        /\ wpc[w] = "count"
        /\ Goto(w, "ack")
        /\ UNCHANGED <<dbVars, bullVars, requestVars, wjob, wok, poll, history>>
  /\ UNCHANGED rowVars

PollReadRow ==
  /\ PollRead
  /\ pollRow' = row
  /\ UNCHANGED <<row, requestRow, runRow, found, deleting>>

PollSyncRow ==
  /\ \/ /\ Same(pollRow)
        /\ PollSync
     \/ /\ poll
        /\ ~Same(pollRow)
        /\ poll' = FALSE
        /\ UNCHANGED <<dbVars, bullVars, requestVars, workerVars, history>>
  /\ UNCHANGED rowVars

-----------------------------------------------------------------------------
(***************************************************************************)
(* deleteJob.                                                              *)
(***************************************************************************)

Deletable(status) == status \notin {"none", "pending", "processing"}

\* findById and the check of the status; 404 or 400 end the request here.
DeleteRead ==
  /\ deleting = 0
  /\ row <= MaxDeletes
  /\ Deletable(job.status)
  /\ deleting' = row
  /\ UNCHANGED <<vars, row, requestRow, runRow, found, pollRow>>

\* The request is answered once.
Mut_Retried == deleting
Done == 0

\* hardDelete: the logs go with the row, whatever its status is by now.
DeleteRow ==
  /\ deleting # 0
  /\ deleting' = Done
  /\ row' = row + 1
  /\ job' = NoJob
  /\ log' = [r \in Recipient |-> "absent"]
  /\ UNCHANGED <<bullVars, requestVars, workerVars, poll, history,
                 requestRow, runRow, found, pollRow>>

DeletionNext ==
  \/ Unrelated
  \/ \E q \in Request : PersistRow(q) \/ StartRow(q)
  \/ \E w \in Worker :
       CheckRow(w) \/ MarkRow(w) \/ FindRow(w) \/ RecordRow(w) \/ CountRow(w)
  \/ PollReadRow \/ PollSyncRow
  \/ DeleteRead \/ DeleteRow

DeletionSpec == DeletionInit /\ [][DeletionNext]_deletionVars

-----------------------------------------------------------------------------
\* The types of the row ids.
DeletionTypeOK ==
  /\ TypeOK
  /\ row \in Ids \ {0}
  /\ requestRow \in [Request -> Ids]
  /\ runRow \in [Worker -> Ids]
  /\ found \subseteq Worker
  /\ pollRow \in Ids
  /\ deleting \in Ids

\* A deleted campaign that is posted again reaches nobody twice: its finished
\* Bull jobs are still there when its logs are not.  (AtMostOnceButDoubt of
\* Campaign, here with rows that go and come back.)
DeletedIsNotResent == AtMostOnceButDoubt

\* Polls, requests and runs that have read the deleted row never touch the
\* campaign that is posted again: its row says "completed" only when its own
\* logs do, and its logs never exist without it.
NewRowIsItsOwn ==
  /\ CompletedIsTruthful
  /\ \A r \in Recipient : log[r] # "absent" => job.status # "none"

\* jobController.ts:95, "Cannot delete a job that is pending or processing".  TLC
\* refutes this of the DELETE, which goes by id alone, see "Findings" in README.md.
RunningIsKept ==
  [][job'.status = "none" => job.status \notin {"pending", "processing"}]_deletionVars
=============================================================================
