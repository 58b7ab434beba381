--------------------------- MODULE DeliveryStatus ---------------------------
(***************************************************************************)
(* The delivery status of the rows of email_logs: worker runs that store   *)
(* the provider's message id, webhooks that report events of a message,    *)
(* and imports of the provider's report, all of them transactions on the   *)
(* same rows (models/EmailLog.ts, repositories/emailLogRepository.ts,      *)
(* controllers/webhookController.ts, services/emailStatusImportService.ts, *)
(* queue/processors.ts).  PostgreSQL runs them READ COMMITTED: a statement *)
(* that waited for a row sees the row as the other transaction left it.    *)
(***************************************************************************)
EXTENDS Integers, FiniteSets

CONSTANTS Rows,       \* rows of email_logs, by id
          Jobs,       \* campaigns
          JobOf,      \* the campaign and recipient a row belongs to
          Messages,   \* ids the provider gives
          Runs,       \* runs of the processor
          Hooks,      \* webhook requests in flight
          Imports,    \* import requests in flight
          Reported,   \* the delivery statuses the instance tells apart
          MaxTime,    \* bound: event times are 1..MaxTime, 0 an unreadable date
          MaxEvents,  \* bound: events the provider reports
          Lag,        \* how much later a report's time reads than a webhook's
          Overlap,    \* whether Bull may hand out a job that is still running
          DBFaults,   \* whether database calls may fail
          None

Event == [msg : Messages, at : 0..MaxTime, status : Reported]

ASSUME RowsAssumption == Rows \subseteq Nat /\ IsFiniteSet(Rows)
ASSUME JobAssumption == JobOf \in [Rows -> Jobs]
ASSUME BoundAssumption == MaxTime \in Nat /\ MaxEvents \in Nat /\ Lag \in Nat
ASSUME FlagAssumption == Overlap \in BOOLEAN /\ DBFaults \in BOOLEAN
ASSUME ActorAssumption ==
  /\ Hooks \intersect Imports = {}
  /\ None \notin Rows \union Messages \union Hooks \union Imports
ASSUME EventAssumption == None \notin Event
ASSUME StatusAssumption ==
  Reported \subseteq {"delivered", "soft_bounce", "hard_bounce"}

VARIABLES row,      \* [status, msg, at] of each row
          lock,     \* the transaction that holds a row, or None
          run,      \* [pc, row, msg] of each run
          done,     \* rows whose Bull job is finished
          mailed,   \* the row a message was accepted for, or None
          exposed,  \* history: rows mailed unchecked, or by two runs at once
          emitted,  \* events of the provider
          unanswered, \* events whose webhook was not acknowledged
          hook,     \* [pc, event, row, seen] of each webhook request
          imp,      \* [pc, job, file, updates, want, seen] of each import
          shown     \* history: the event a row took its status from, or None

vars == <<row, lock, run, done, mailed, exposed, emitted, unanswered, hook, imp,
          shown>>
worker == <<run, done, mailed, exposed>>
provider == <<emitted, unanswered>>

Status == {"pending", "processing", "sent", "failed"} \union Reported
Row == [status : Status, msg : Messages \union {None}, at : 0..MaxTime + Lag]

\* The rows an import has read (and holds), each as it was read.
NothingRead == [r \in {} |-> None]
RowsRead == UNION {[R -> Row] : R \in SUBSET Rows}

IdleRun == [pc |-> "idle", row |-> None, msg |-> None]
IdleHook == [pc |-> "idle", event |-> None, row |-> None, seen |-> 0]
IdleImport == [pc |-> "idle", job |-> None, file |-> {}, updates |-> {},
               want |-> {}, seen |-> NothingRead]

Init ==
  /\ row = [r \in Rows |-> [status |-> "pending", msg |-> None, at |-> 0]]
  /\ lock = [r \in Rows |-> None]
  /\ run = [w \in Runs |-> IdleRun]
  /\ done = {}
  /\ mailed = [m \in Messages |-> None]
  /\ exposed = {}
  /\ emitted = {}
  /\ unanswered = {}
  /\ hook = [h \in Hooks |-> IdleHook]
  /\ imp = [i \in Imports |-> IdleImport]
  /\ shown = [r \in Rows |-> None]

At(e) == IF e = None THEN 0 ELSE e.at

-----------------------------------------------------------------------------
(* One run of the processor, reduced to what it does to the row.           *)

\* A mutant of WasEmailSent: a mail whose delivery was reported was not sent.
Mut_OnlySent(s) == s = "sent"

WasEmailSent(s) == s \in {"sent"} \union Reported

\* Bull holds a job for one run unless its lock expired.
MayRun(r) == r \notin done /\ (Overlap \/ \A w \in Runs : run[w].row # r)

\* Row r, if a run that Bull has given up is still at it.
Beside(r) == {q \in {r} : \E v \in Runs : run[v].row = q}

\* The look-up of the idempotency check; who was mailed is skipped.
RunCheck(w, r) ==
  LET Start(pc) == run' = [run EXCEPT ![w] = [pc |-> pc, row |-> r, msg |-> None]] IN
  /\ run[w].pc = "idle"
  /\ MayRun(r)
  /\ \/ /\ Start(IF WasEmailSent(row[r].status) THEN "complete" ELSE "mark")
        /\ exposed' = exposed \union Beside(r)
     \/ /\ DBFaults   \* a failed look-up is logged and the mail sent
        /\ Start("send")
        /\ exposed' = exposed \union {r}
  /\ UNCHANGED <<row, lock, done, mailed, provider, hook, imp, shown>>

\* status = 'processing'; the UPDATE waits for the row's lock.
RunMark(w) ==
  LET r == run[w].row IN
  /\ run[w].pc = "mark"
  /\ \/ lock[r] = None /\ row' = [row EXCEPT ![r].status = "processing"]
     \/ DBFaults /\ UNCHANGED row
  /\ run' = [run EXCEPT ![w].pc = "send"]
  /\ UNCHANGED <<lock, done, mailed, exposed, provider, hook, imp, shown>>

\* The provider accepts the mail (but its answer may be lost, or bring no id),
\* refuses it for good, or fails for now; what throws leaves the job to a later
\* run.  Without an id no mail counts as sent.
RunSend(w) ==
  /\ run[w].pc = "send"
  /\ \/ \E m \in Messages :
          /\ mailed[m] = None
          /\ mailed' = [mailed EXCEPT ![m] = run[w].row]
          /\ run' = [run EXCEPT ![w].pc = "record", ![w].msg = m]
     \/ /\ mailed' \in {mailed} \union
             {[mailed EXCEPT ![m] = run[w].row] : m \in {n \in Messages : mailed[n] = None}}
        /\ run' \in {[run EXCEPT ![w].pc = "fail"], [run EXCEPT ![w] = IdleRun]}
  /\ UNCHANGED <<row, lock, done, exposed, provider, hook, imp, shown>>

\* The processor goes on to its return value.
Recorded(w) == run' = [run EXCEPT ![w].pc = "complete", ![w].msg = None]

\* markAsSent, of a mail that has an id; a database error is swallowed.
RunRecord(w) ==
  LET r == run[w].row IN
  /\ run[w].pc = "record"
  /\ \/ /\ lock[r] = None
        /\ row' = [row EXCEPT ![r].status = "sent", ![r].msg = run[w].msg]
     \/ DBFaults /\ UNCHANGED row
  /\ Recorded(w)
  /\ UNCHANGED <<lock, done, mailed, exposed, provider, hook, imp, shown>>

\* markAsFailed
RunFail(w) ==
  LET r == run[w].row IN
  /\ run[w].pc = "fail"
  /\ \/ lock[r] = None /\ row' = [row EXCEPT ![r].status = "failed"]
     \/ DBFaults /\ UNCHANGED row
  /\ Recorded(w)
  /\ UNCHANGED <<lock, done, mailed, exposed, provider, hook, imp, shown>>

\* Bull takes the result and completes the job.
RunComplete(w) ==
  /\ run[w].pc = "complete"
  /\ done' = done \union {run[w].row}
  /\ run' = [run EXCEPT ![w] = IdleRun]
  /\ UNCHANGED <<row, lock, mailed, exposed, provider, hook, imp, shown>>

\* The worker dies, wherever the run is; Bull starts the stalled job again.
RunCrash(w) ==
  /\ run[w].pc # "idle"
  /\ run' = [run EXCEPT ![w] = IdleRun]
  /\ UNCHANGED <<row, lock, done, mailed, exposed, provider, hook, imp, shown>>

-----------------------------------------------------------------------------
(* Webhooks.                                                               *)

\* The provider reports an event of a mail it accepted.
Emit(e) ==
  /\ mailed[e.msg] # None
  /\ e \notin emitted
  /\ Cardinality(emitted) < MaxEvents
  /\ emitted' = emitted \union {e}
  /\ unanswered' = unanswered \union {e}
  /\ UNCHANGED <<row, lock, worker, hook, imp, shown>>

\* shouldApplyMailgridWebhookEvent, 0 for a date that is not there
ShouldApply(current, incoming) ==
  \/ current = 0
  \/ incoming # 0 /\ incoming >= current

\* A mutant of Acknowledged: an unknown message is answered 200.
Mut_AcknowledgeAll(result, e) == {e}

\* The events an answer settles: the provider repeats a webhook unless it
\* is answered 200, and an unknown message is answered 404.
Acknowledged(result, e) == IF result = "not_found" THEN {} ELSE {e}

\* WHERE mailgrid_message_id = m
RowsOf(m) == {r \in Rows : row[r].msg = m}

HookMiss(h, e) ==
  /\ hook[h].pc = "idle"
  /\ e \in unanswered
  /\ RowsOf(e.msg) = {}
  /\ unanswered' = unanswered \ Acknowledged("not_found", e)
  /\ UNCHANGED <<row, lock, worker, emitted, hook, imp, shown>>

\* A mutant of HookFind: the row is read without FOR UPDATE.
Mut_FindWithoutLock(h, e) ==
  /\ hook[h].pc = "idle"
  /\ e \in unanswered
  /\ \E r \in RowsOf(e.msg) :
       hook' = [hook EXCEPT ![h] = [pc |-> "apply", event |-> e, row |-> r,
                                    seen |-> row[r].at]]
  /\ UNCHANGED <<row, lock, worker, provider, imp, shown>>

\* SELECT ... WHERE mailgrid_message_id = ? FOR UPDATE
HookFind(h, e) ==
  /\ hook[h].pc = "idle"
  /\ e \in unanswered
  /\ \E r \in RowsOf(e.msg) :
       /\ lock[r] = None
       /\ lock' = [lock EXCEPT ![r] = h]
       /\ hook' = [hook EXCEPT ![h] = [pc |-> "apply", event |-> e, row |-> r,
                                       seen |-> row[r].at]]
  /\ UNCHANGED <<row, worker, provider, imp, shown>>

\* The locks left when transaction t ends.
Released(t) == [r \in Rows |-> IF lock[r] = t THEN None ELSE lock[r]]

\* mailgrid_event_at: input.eventAt || existing.mailgrid_event_at
Stamped(old, at) == IF at = 0 THEN old ELSE at

\* Writes and commits, or ignores; the answer may be lost on the way.
HookApply(h) ==
  LET e == hook[h].event
      r == hook[h].row
  IN
  /\ hook[h].pc = "apply"
  /\ \/ /\ ShouldApply(hook[h].seen, e.at)
        /\ row' = [row EXCEPT ![r].status = e.status,
                              ![r].at = Stamped(hook[h].seen, e.at)]
        /\ shown' = [shown EXCEPT ![r] = e]
     \/ /\ ~ShouldApply(hook[h].seen, e.at)
        /\ UNCHANGED <<row, shown>>
  /\ unanswered' \in {unanswered, unanswered \ Acknowledged("updated", e)}
  /\ lock' = Released(h)
  /\ hook' = [hook EXCEPT ![h] = IdleHook]
  /\ UNCHANGED <<worker, emitted, imp>>

\* The transaction fails and is rolled back; the answer is a 500.
HookFail(h) ==
  /\ DBFaults
  /\ hook[h].pc = "apply"
  /\ lock' = Released(h)
  /\ hook' = [hook EXCEPT ![h] = IdleHook]
  /\ UNCHANGED <<row, worker, provider, imp, shown>>

-----------------------------------------------------------------------------
(* Imports of the provider's report.                                       *)

\* A mutant of Parsed: the first row of a message wins.
Mut_AnyDuplicate(file) ==
  {U \in SUBSET file : /\ \A e \in file : \E u \in U : u.msg = e.msg
                       /\ \A u, v \in U : u.msg = v.msg => u = v}

\* The updates a file may parse to: of the rows of a message the newest, of
\* equally new ones the last, and the order of the file is not known.
Parsed(file) ==
  {U \in SUBSET file :
     /\ \A e \in file : \E u \in U : u.msg = e.msg /\ u.at >= e.at
     /\ \A u, v \in U : u.msg = v.msg => u = v}

\* The file lists any of the events reported before, with readable dates: it
\* may be old.  The join finds the rows that have one of its messages now.
ImportStart(i, j, file) ==
  /\ imp[i].pc = "idle"
  /\ file # {} /\ \A e \in file : e.at # 0
  /\ \E U \in Parsed(file) :
       imp' = [imp EXCEPT ![i] =
                 [pc |-> "lock", job |-> j, file |-> file, updates |-> U,
                  want |-> UNION {RowsOf(u.msg) : u \in U}, seen |-> NothingRead]]
  /\ UNCHANGED <<row, lock, worker, provider, hook, shown>>

\* A mutant of NextRow: the query does not order its rows.
Mut_Unordered(i) == imp[i].want

\* ORDER BY email.id FOR UPDATE
NextRow(i) == {r \in imp[i].want : \A q \in imp[i].want : r <= q}

Extend(f, x, y) == [z \in DOMAIN f \union {x} |-> IF z = x THEN y ELSE f[z]]

\* A row whose message id changed meanwhile no longer joins.
ImportLock(i) ==
  /\ imp[i].pc = "lock"
  /\ \E r \in NextRow(i) :
       /\ lock[r] = None
       /\ \/ /\ \E u \in imp[i].updates : u.msg = row[r].msg
             /\ lock' = [lock EXCEPT ![r] = i]
             /\ imp' = [imp EXCEPT ![i].want = @ \ {r},
                                   ![i].seen = Extend(@, r, row[r])]
          \/ /\ \A u \in imp[i].updates : u.msg # row[r].msg
             /\ imp' = [imp EXCEPT ![i].want = @ \ {r}]
             /\ UNCHANGED lock
  /\ UNCHANGED <<row, worker, provider, hook, shown>>

UpdateOf(i, r) == CHOOSE u \in imp[i].updates : u.msg = imp[i].seen[r].msg

\* importedStatusIsUnchanged, as far as the model tells updates apart
IsUnchanged(old, u) == old.status = u.status /\ old.at = u.at + Lag

\* A file row that names another campaign or recipient is skipped.
Applicable(i) ==
  {r \in DOMAIN imp[i].seen :
     LET u == UpdateOf(i, r) IN
     /\ JobOf[r] = imp[i].job
     /\ ShouldApply(imp[i].seen[r].at, u.at + Lag)
     /\ ~IsUnchanged(imp[i].seen[r], u)}

\* One UPDATE for every applicable row, and COMMIT.  It meets each of them
\* (rowCount = applicable.length) because they are locked.
ImportApply(i) ==
  /\ imp[i].pc = "lock"
  /\ imp[i].want = {}
  /\ row' = [r \in Rows |->
               IF r \in Applicable(i)
               THEN [row[r] EXCEPT !.status = UpdateOf(i, r).status,
                                   !.at = UpdateOf(i, r).at + Lag]
               ELSE row[r]]
  /\ shown' = [r \in Rows |-> IF r \in Applicable(i) THEN UpdateOf(i, r)
                                                     ELSE shown[r]]
  /\ lock' = Released(i)
  /\ imp' = [imp EXCEPT ![i] = IdleImport]
  /\ UNCHANGED <<worker, provider, hook>>

\* The transaction fails and is rolled back.
ImportFail(i) ==
  /\ DBFaults
  /\ imp[i].pc = "lock"
  /\ lock' = Released(i)
  /\ imp' = [imp EXCEPT ![i] = IdleImport]
  /\ UNCHANGED <<row, worker, provider, hook, shown>>

-----------------------------------------------------------------------------
RunStep(w) ==
  \/ RunMark(w) \/ RunSend(w) \/ RunRecord(w) \/ RunFail(w)
  \/ RunComplete(w) \/ RunCrash(w)

Next ==
  \/ \E w \in Runs : RunStep(w) \/ \E r \in Rows : RunCheck(w, r)
  \/ \E e \in Event : Emit(e)
  \/ \E h \in Hooks :
       \/ HookApply(h) \/ HookFail(h)
       \/ \E e \in unanswered : HookMiss(h, e) \/ HookFind(h, e)
  \/ \E i \in Imports :
       \/ ImportLock(i) \/ ImportApply(i) \/ ImportFail(i)
       \/ \E j \in Jobs, file \in SUBSET emitted : ImportStart(i, j, file)

Spec == Init /\ [][Next]_vars

(* Live processes go on, PostgreSQL grants a free row to whoever waits for *)
(* it, and the provider repeats every webhook that was not acknowledged.   *)
Fairness ==
  /\ \A w \in Runs : WF_vars(RunMark(w) \/ RunSend(w)) /\ SF_vars(RunRecord(w))
  /\ \A h \in Hooks : WF_vars(HookApply(h))
  /\ \A i \in Imports : SF_vars(ImportLock(i)) /\ WF_vars(ImportApply(i))
  /\ \A e \in Event : SF_vars(\E h \in Hooks : HookFind(h, e))

FairSpec == Spec /\ Fairness

-----------------------------------------------------------------------------
RowTypes == /\ row \in [Rows -> Row]
            /\ lock \in [Rows -> Hooks \union Imports \union {None}]
            /\ done \subseteq Rows
EventTypes == /\ emitted \subseteq Event
              /\ unanswered \subseteq emitted
              /\ shown \in [Rows -> emitted \union {None}]
Run == [pc : {"idle", "mark", "send", "record", "fail", "complete"},
        row : Rows \union {None}, msg : Messages \union {None}]
RunTypes ==
  /\ mailed \in [Messages -> Rows \union {None}]
  /\ exposed \subseteq Rows
  /\ run \in [Runs -> Run]
  /\ \A w \in Runs : /\ run[w].pc # "idle" => run[w].row \in Rows
                     /\ run[w].pc = "record" => run[w].msg \in Messages
HookTypes ==
  /\ hook \in [Hooks -> [pc : {"idle", "apply"}, event : Event \union {None},
                         row : Rows \union {None}, seen : 0..MaxTime + Lag]]
  /\ \A h \in Hooks : hook[h].pc = "apply" => /\ hook[h].event \in emitted
                                              /\ hook[h].row \in Rows
ImportState == [pc : {"idle", "lock"}, job : Jobs \union {None},
                file : SUBSET Event, updates : SUBSET Event,
                want : SUBSET Rows, seen : RowsRead]
ImportTypes ==
  /\ imp \in [Imports -> ImportState]
  /\ \A i \in Imports : /\ imp[i].updates \subseteq imp[i].file
                        /\ imp[i].file \subseteq emitted
                        /\ \A r \in DOMAIN imp[i].seen :
                             \E u \in imp[i].updates : u.msg = imp[i].seen[r].msg

(* Types of the variables.  A run records a message id the provider gave,  *)
(* webhooks and files carry events that were reported, and a row an import *)
(* has read is named by one of its updates.                                *)
TypeOK == RowTypes /\ EventTypes /\ RunTypes /\ HookTypes /\ ImportTypes

(* An event reported late, twice or by both channels never replaces a      *)
(* newer one on the row (shouldApplyMailgridWebhookEvent under the row     *)
(* locks of applyMailgridWebhook and applyImportedStatuses), as long as    *)
(* both channels read the clock alike: with Lag > 0 TLC refutes it, see    *)
(* "Findings" in README.md.                                                *)
NewestWins == [][\A r \in Rows : At(shown[r]) <= At(shown'[r])]_vars

(* The row shows the event it was updated from: no worker write lands on   *)
(* a row that an event reached, not even that of a job run again because   *)
(* its worker died between markAsSent and Bull's completion.  Two kinds of *)
(* rows are exempt (exposed), and for each TLC refutes it: those mailed    *)
(* unchecked, for processors.ts swallows an error of the look-up, and      *)
(* those whose job Bull started again beside a run that goes on.           *)
RowShowsEvent ==
  \A r \in Rows \ exposed :
    shown[r] # None => row[r].status = shown[r].status /\ row[r].msg = shown[r].msg

(* After an import every row of the campaign that holds a message of the   *)
(* file is at least as new as every line of the file about that message:   *)
(* duplicates in the file, and what webhooks wrote while it ran, included. *)
ImportCoversFile ==
  [][\A i \in Imports : ImportApply(i) =>
       \A r \in DOMAIN imp[i].seen, e \in imp[i].file :
         JobOf[r] = imp[i].job /\ row[r].msg = e.msg
           => row'[r].at >= e.at + Lag]_vars

Waits(t, r) == t \in Imports /\ r \in NextRow(t)

(* Two imports, whatever rows they share, never wait for each other:       *)
(* PostgreSQL would abort one of them (ORDER BY email.id before FOR        *)
(* UPDATE).                                                                *)
NoLockCycle ==
  \A i, k \in Imports, r, q \in Rows :
    ~(Waits(i, r) /\ lock[r] = k /\ Waits(k, q) /\ lock[q] = i)

\* The message id is on a row or with a run that has yet to store it.
Traceable(m) == RowsOf(m) # {} \/ \E w \in Runs : run[w].msg = m

(* Every dated event of a mail whose id the system keeps is reflected on a *)
(* row in the end, even when the webhook overtakes the worker that stores  *)
(* the id: the 404 makes the provider come again.                          *)
EveryEventLands ==
  \A e \in Event :
    (e \in emitted /\ e.at # 0)
      ~> (\E r \in RowsOf(e.msg) : row[r].at >= e.at) \/ ~Traceable(e.msg)

(* The rows are registers of the newest event: NewestWins, and nothing but *)
(* reported events.  As long as both channels read the clock alike (Lag =  *)
(* 0), which is a fact about Mailgrid and the zone of the process that is  *)
(* not in the repository; with Lag > 0 it is false.                        *)
Register == INSTANCE NewestEvent WITH best <- shown, NoEvent <- None
NewestEventSpec == Register!Spec
=============================================================================
