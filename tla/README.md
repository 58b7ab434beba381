# BulkMail: a verification project

BulkMail sends e-mail campaigns: an operator uploads a list, posts a campaign,
and a worker hands one mail per recipient to the provider (Mailgrid). The
repository is an Express API (`src/backend/src`), a Bull worker built from the
same sources, and a React client (`src/frontend`). State lives in PostgreSQL
(`jobs`, `email_logs`, `local_users`, `users`, `configurations`) and in Redis
(Bull's queue, sessions, login limits). Paths below are relative to
`src/backend/src` unless they start with `src/`.

The promise the system makes is story 3.3 (`src/docs/stories`): no recipient is
lost and no recipient gets a mail twice, although the two stores share no
transaction, requests repeat, workers die and the provider may answer late.
The project models that promise first, then what operators do to a campaign
(repair it, delete it), then who may log in and who may change what.

## 1. Inventory

| Part | State | Operations | Hard behaviour | What makes it correct |
|---|---|---|---|---|
| Send endpoint (`controllers/sendController.ts`) | one request at a time: list, hashes, `toSend` | read log states, persist in a transaction, enqueue in chunks, write `processing`, answer | races of two requests, abort between any two awaits, partial enqueue | what is queued is persisted; a 202 covers queued recipients only |
| Email queue (`queue/emailQueue.ts`, Bull) | one Bull job per recipient, keyed by the hash | look up, add in bulk, retry failed | look-up and add are separate calls; job ids deduplicate | no job is revived or duplicated |
| Worker (`queue/emailWorker.ts`, `queue/processors.ts`, `services/mailgridService.ts`) | up to `WORKER_CONCURRENCY` runs | check idempotency, mark, send, record, count | crash, lost lock, retry with backoff, swallowed database errors, a timeout after the provider accepted | at most one mail unless an outcome is unknown; every job ends |
| Persistence (`repositories/jobRepository.ts`, `repositories/emailLogRepository.ts`) | `jobs` row, `email_logs` rows | create, batch create, unconditional updates, counters | last writer wins | a sent row stays sent; counters stay bounded |
| Status (`services/jobStatusService.ts`, `controllers/statusController.ts`, `controllers/jobController.ts`) | none of its own | compute, write `completed` | stale read before write | `completed` is truthful and is reached |
| Reconciliation CLI (`scripts/reconcileEmailJobs.ts`, `services/emailJobReconciliationService.ts`) | the report, its list of jobs | dry run, apply, enqueue missing, retry failed | a crash between PostgreSQL and Redis, lost queues, logs and dumps | never mails twice; queue, logs and counters agree again |
| Delivery events (`services/mailgridWebhookService.ts`, `services/emailStatusImportService.ts`) | event time per row | apply webhook, import report | reordered, duplicated, early events | the newest event wins |
| Job deletion (`controllers/jobController.ts`) | – | check, delete | check-then-delete, a campaign posted again | nobody is mailed twice; nobody writes into the wrong row |
| Sessions and OIDC (`services/authSessionService.ts`, `services/oidcService.ts`, `middlewares/authentication.ts`) | login transactions, sessions, index per user | begin, consume, create, renew, revoke, log out | concurrent renewal and revocation, settings that change meanwhile | tokens stay with their issuer; disabled and stale sessions pass no check |
| Accounts (`repositories/userRepository.ts`, `services/userAdminService.ts`, `services/localAuthService.ts`) | users, their sessions | log in, change password, change access, reset, revoke | two administrators at once, a login around a reset | an active administrator remains; a reset ends old sessions |
| Login limiter (`services/loginAttemptLimiter.ts`) | failure counters with a TTL | read, count, clear | guesses at once, windows that end | a full counter blocks; an old failure does not count |
| Settings (`services/configService.ts`, `repositories/systemConfigRepository.ts`, `controllers/configController.ts`) | `configurations` | import from the environment, merge, save, test | lost updates, two imports | stored settings win; a secret stays with its account |
| Upload, templates, wiring, migrations, frontend, deployment | – | – | sequential or formatting | not modelled, see section 7 |

How they interact. The endpoint writes PostgreSQL in one transaction and then
calls Redis; Bull calls the processor in the worker process, which reads and
writes the same rows without locks; the status endpoints read rows and write
the `jobs` row back; the CLI reads Bull lists and rows and writes both;
webhooks find a row by the message id the worker stored. Nothing but the
unique hash (row key and Bull job id) ties the two stores together.

The hazards that follow are listed with their lines in `PROJECT.json`.

## 2. Modules

| Module | Role |
|---|---|
| `Campaign` | one campaign end to end: send requests, PostgreSQL rows, Bull, worker runs, polls; its properties |
| `MCCampaign` | constants and symmetry for TLC |
| `MailPromise` | what a campaign promises each recipient: a job, one mail and one more per unknown outcome, a true report |
| `CampaignProofs` | the inductive invariant and the theorems, what holds as long as a Bull job has one run at a time, why the work of the queue runs out, and the refinement of `MailPromise` |
| `DeliveryStatus` | the rows under the worker, webhooks and report imports, as PostgreSQL transactions |
| `NewestEvent` | what a row promises: a register of the newest event |
| `MCDeliveryStatus` | constants and symmetry for TLC |
| `DeliveryStatusProofs` | locks, lock order, the refinement of `NewestEvent`, imports, what a row shows |
| `Recovery`, `MCRecovery` | `Campaign` with disasters and the reconciliation CLI |
| `RecoveryProofs` | types, agreement, counters and at-most-once through disasters and repairs |
| `Deletion`, `MCDeletion` | `Campaign` with `deleteJob` and the ids of the rows it removes |
| `DeletionProofs` | types, that a campaign posted again mails nobody twice and keeps its promise, and that its rows are its own |
| `Accounts`, `MCAccounts` | local users, their sessions and their index, administrators, browsers |
| `AccountsProofs` | types, the last administrator, resets, the index, revocation |
| `OidcSessions`, `MCOidcSessions` | intranet logins, sessions with refresh tokens, settings and accounts that change |
| `OidcSessionsProofs` | types, where tokens go, who is refused, when sessions and logins end |
| `LoginLimiter`, `MCLoginLimiter` | the counters of failed passwords and their windows |
| `LoginLimiterProofs` | types, who is refused, what a login forgives, how far a limit is exceeded, what counts over any 15 minutes |
| `Settings`, `MCSettings` | imports, saves and tests of the stored settings |
| `SettingsProofs` | types, secrets, imports, the binding |

The parts of a campaign meet in shared state (the row of a recipient and its Bull job), so
one module composes them; each has a section and one action per awaited call.

State of `Campaign` against the code:

- `job` is the `jobs` row: status, payload (all fields `campaignPayloadMatches`
  compares, as one value), `valid_recipients` and the two counters.
- `log[r]` is the status of the `email_logs` row of `r`. `sent` stands for the
  four statuses of `wasEmailSent`, `failed` for `failed` and `bounced`.
- `bull`, `data`, `returned`, `attemptsMade`, `stalled`, `lock` are the Bull job
  of `r`: Bull (external, `^4.12`) is modelled by what the code uses of it, with
  its documented defaults: a job id is added once, a run holds a lock, a job
  found active without a lock is requeued at most `maxStalledCount` times, an
  exception charges an attempt.
- `rpc` and the other request variables are the local variables of `sendEmails`
  that live across an await; `wpc`, `wjob`, `wok` those of `processEmailJob`.
- `poll` is a status request between its read and its write.
- `promised`, `accepted`, `doubt` are history: what clients were told, what the
  provider took, and the runs whose outcome the system could not learn (an
  answer lost after acceptance, or a run that stalled and was started again).

Actions: `Post`, `Persist`, `LookupChunk`, `AddBulk`, `StartProcessing` and
`AbortRequest` are `sendEmails` and `enqueueEmailJobs`; `Take` to `MoveToFailed`
are one run of the processor and Bull around it; `DatabaseError`, `CrashRun`,
`LoseLock`, `Promote`, `RequeueStalled` are failures and timers; `PollRead` and
`PollSync` are both status endpoints. The look-ups of one chunk are one step;
what a job may do between `getJob` and `getState` is the `unsure` outcome.

`DeliveryStatus` looks at the same rows from the other side. `Campaign` folds
the four statuses of `wasEmailSent` into `sent`; here they are apart, and a row is
its status, `mailgrid_message_id` and `mailgrid_event_at` (`msg`, `at`; 0 for
NULL). `lock` is the row lock of `FOR UPDATE`; `hook` and `imp` are what
`applyMailgridWebhook` and `applyImportedStatuses` keep between their `SELECT` and
their `COMMIT`; `run` is a run of the processor: the look-up of the idempotency check
(`RunCheck`), `processing` (`RunMark`), the send (`RunSend`), `markAsSent` or
`markAsFailed` (`RunRecord`, `RunFail`) and, later, Bull's completion of the job
(`RunComplete`). The worker may die before any of them (`RunCrash`), after
`markAsSent` too, and Bull starts the job again. The increment of a counter that follows
`markAsSent` touches the `jobs` row alone and has no step here (`Campaign` has it).
`sendViaMailgrid` throws when an answer has no id, so that `markAsSent` always has one.
`exposed` is history: the rows that were mailed although their look-up failed, and
those that two runs worked on at once. `emitted`
and `unanswered` are Mailgrid: the events it reported and those it still repeats
(external, from the 404 of `webhookController.ts:59-62` and its test "returns 404 so
Mailgrid retries an unknown message"). `shown` is history: the event a row got its
status from. A statement that waited for a row lock sees the row as it then is
(READ COMMITTED), so reading and locking are one step and writing another; the
import locks row by row in the order of `email.id`. An import file is any set of
events reported before it: that it is old, and that other messages appear
between the upload and the query, needs no step of its own.

`Recovery` and `Deletion` extend `Campaign` and take its actions as they are.
`Recovery` adds the runbook `src/docs/production.md`: `Stop` scales the stack to
zero (requests, runs and polls die where they are), `Strike` loses the Redis
volume, some log rows, or everything back to a dump, up to `MaxStrikes` times. `Forget`
charges `doubt` where a loss takes the last thing anybody knew of a mail: Redis while a
row is `processing`, Redis or the row of an ended mail while the other one is lost. `Apply`, `EnqueueMissing`
and `RetryFailed` are `reconcileEmailJobs --apply`, `--enqueue-missing` and
`--retry-failed`: what they read and their transaction in one step, for nobody
else runs, and the calls to Bull that follow one by one (`EnqueueChunk`,
`RetryOne`), with `CommandDies` between any two. `Deletion` gives the `jobs` row
an id. A statement of `Campaign` that writes by id is there twice: with the row
it has read, and with a row that is gone, which changes nothing. `DeleteRead` and
`DeleteRow` are the two statements of `deleteJob`.

`Accounts` has a step per statement and per Redis command. `table` is
`local_users` joined with `users`; `hash` numbers the passwords of a user, `version` is
`credential_version`; `locker` is the advisory lock 420002. `op` is an operation of an
administrator between two awaits (`updateAccess`, `resetPassword` and the
`revokeLocalUserSessions` that follows), through the API or the command line;
`client` is the request of a browser: a login (`LoginVerified` to `LoginIndex`), an
authenticated request (`RequestSession` to `RequestServed`), or a password
change (`ChangeVerified`, `ChangeSwap`). `resets` and `offs` are history: how often a
password was reset and an account disabled.

`OidcSessions` has one user with an account per issuer. A configuration is the
pair of issuer and fingerprint; a session is its binding and its refresh token.
`LoginStart` to `Create` are `/oidc/login` and `/oidc/callback`; `Arrive` to
`Served` are `requireAuthentication` with `refreshSessionIfNeeded`; `Logout...` are
`/logout`; the provider (`issuer`, `valid`, `open`) is external: it takes a code once,
and a refresh token once if `SingleUse`. `raced` is history: the sessions and
logins that two requests worked on at once. `banned` and `stale` say that the
account was disabled, or the settings were others, since before the request
arrived.

`LoginLimiter` counts in ticks, `Window` of them to 15 minutes; `recent` is history,
of each counter the failures registered within the last 0, 1, 2 and more ticks. An attempt is `authenticate` or
`POST /password`, whose order of reads and writes is the same. `Settings` has a
row per section, its account and its secret; `tx` is `importFromEnvironment` in
its transaction (`put` is what it has inserted and nobody sees before `Commit`), `adm`
is an update or a test of an administrator: it reads the current row, decides what to
keep, and writes the whole row later. `given` and `sent` are history: the secrets
that were given for an account, and the passwords that went to one.

`Outcomes` and `Faults` switch what the provider may answer and what may fail,
so that a property that needs the absence of a fault says so in its run.

`MailPromise` is `Campaign` seen by a recipient: who was told that it is taken on,
what is reported of it (nothing, an open job, `success`, `failure`, given up), its
mails, and the runs nobody learned the outcome of. `PromiseKept` maps the report to
where the Bull job is and what it returned (`Outcome`). Requests, log rows, chunks,
locks, attempts and runs have no counterpart: `AddBulk` is `TakeOn`, a 202 is
`Answer`, an accepted mail is `Mail`, a stalled job that runs again is `LoseTrack`,
the end of a Bull job is `Report`, and every other step stutters. `Readable` says
that the provider never accepts a mail with an answer the worker takes for a refusal
(the outcome `unreadable`, `mailgridService.ts`); without it a `failure` says nothing about
the mail, and the promise claims nothing of it.

## 3. Runs

| Run | Instance | Shows |
|---|---|---|
| `campaign_api` | 2 recipients, 2 payloads, 2 requests with any list, 1 worker run, chunks of 1, outcomes accept and unreadable, aborts | `QueuedIsPersisted`, `AcceptedIsQueued`, `CompletedIsTruthful` |
| `campaign_faults` | 1 recipient, 3 worker runs, every outcome but unreadable, database errors, crashes, lost locks, 3 attempts, 1 stall | `TypeOK`, `PromiseKept`, `CountersBounded`, `TerminalBullFinal` |
| `campaign_live` | 2 recipients, 1 worker run, crashes, retries, 2 attempts, 1 stall, `FairSpec` | `QueueAndLogAgree`, `NoResendAfterSent`, `SentIsFinal`, `JobsSettle`, `CompletionSynced` |
| `campaign_extend` | 2 recipients, no fault; violation | `CompletedCoversEveryLog` |
| `delivery_race` | 2 rows of 2 campaigns, 2 messages, 1 worker run, 2 webhooks, 2 imports, 2 events at 2 times or undated, crashes, failing look-ups and transactions | `RowShowsEvent`, `NoLockCycle`, `NewestEventSpec`, `ImportCoversFile` |
| `delivery_live` | 1 row, 2 messages, 2 overlapping runs, crashes, 2 webhooks, 1 import, 1 event, dated or not, `FairSpec` | `EveryEventLands` |
| `accounts` | 2 users, 2 sessions, 1 browser, 2 operations, 1 reset, 1 deactivation, aborts | `LiveIsIndexed`, `LastAdminStays`, `RevocationComplete`, `ResetEndsSessions`, `ResetIsNotUndone` |
| `oidc` | 2 configurations, 3 tokens, 3 sessions, 1 login, 2 codes, 2 requests, an old session, tokens used once, every fault | `TokensStayHome`, `DisabledIsShutOut`, `LogoutEnds`, `StateUsedOnce`, `UserStaysIn` |
| `limiter` | 2 attempts, 2 names, 1 address, limits 2 and 3, 2 ticks | `OvershootBounded`, `OnlyRecentFailuresCount`, `OnlySuccessForgives` |
| `settings` | 2 backends, 2 administrators, 2 accounts, 2 secrets | `BindingIsOfStored`, `SecretStaysWithAccount`, `StoredWins` |
| `recovery` | 2 recipients in one chunk, 1 attempt, 1 stall, outcomes accept and reject, no fault, 2 disasters of any kind, 1 command | `RecoveryTypeOK`, `RepairedAgrees`, `RepairedCounts`, `AtMostOnceButDoubt` |
| `deletion_resend` | 2 recipients, any list, 1 deletion, crashes | `DeletionTypeOK`, `DeletedIsNotResent`, `NewRowIsItsOwn` |

The type invariants of the modules with a proof module, but for `Campaign`, `Deletion` and
`Recovery`, and `StaleIsRefused`, `NewAttemptRefused`, `TwiceTheLimitAtMost`,
`NeverStranded` and `WorkRunsOut`, are in no run: section 5 proves them for every value of
the constants.

Bounds. Two recipients with chunks of one are the least that separate "some
chunk" from "every chunk"; two requests and two payloads the least that race.
Three runs are `WORKER_CONCURRENCY`, three attempts `MAX_RETRY_ATTEMPTS`, one
stall Bull's default: on one recipient this is the configuration of the code.
`campaign_live` takes two attempts, enough for a retry and a last attempt.
Requests repeat without bound; attempts and stalls are bounded by Bull itself,
so every state space of `Campaign` is finite without further constraint.
Deadlock is not checked where the system may rest: a campaign that is finished,
an account with no reset left. The limiter always ticks, and settings can always
be saved.

For `DeliveryStatus`, events at two times and without one are the least that
hold a newer event, an older one and one that must be ignored; two webhooks, two
imports and two rows are the least that can wait for each other. Attempts are not
counted (`Campaign` counts them): messages run out instead (`Messages`), and
events by `MaxEvents`. Two messages are the least with which a row can be mailed
again after an event of its first mail. `delivery_live` has one event, for events share
nothing but their row, whose newest one wins, and two webhooks of it.

`RowShowsEvent` covers the crash between `markAsSent` and Bull's completion: the next run
finds the row `sent`, or whatever an event made of it, and skips the mail (the mutant of
this property is a check that knows only `sent`). It exempts the rows in `exposed`, and
needs to: section 4 gives a trace for either kind. `delivery_race` has one worker run and
so exercises the exemption of failed look-ups only; the theorem takes any number of runs,
overlapping or not.

`campaign_live` excludes lost locks and database errors on purpose. With them
two runs hold the same job, or a result is not recorded, and its three safety
properties fail; `PromiseKept` and `CountersBounded` are what remains. `PromiseKept` says
more than `AtMostOnceButDoubt`, which `recovery` checks and section 5 proves of
both modules: a campaign that a disaster takes its queue from breaks the promise of a
standing report, but not the bound on mails.

Five instances hold more than can be explored at once. Their MC module
names the part that is (`Scenario`, a state constraint), which leaves room for
each race the properties are about:
- `accounts`: two accounts and two operations while nobody is logged in (the
  race for the last administrator), or one account with a browser and one
  operation at a time (a revocation or a reset around a login, a request or a
  password change). The theorems of section 5 need no such split.
- `oidc`: two requests at once on the old session (renewals, logouts, changing
  settings), or, after its end, logins with one request at a time, or several
  callbacks at once as long as nothing failed or changed. Again the theorems
  cover all of it for the properties they state.
- `settings`: two administrators in one section while no backend starts, or two
  backends that start while one administrator saves.
- `delivery_race`: runs of both rows that lose nothing (no look-up fails, and every
  mail accepted is on a row or with the run that will store its id) while all webhooks
  and imports race; or runs of one row that do lose something and mail it again, while
  one import and the webhooks race. The theorems need no such split.
- `recovery`: a job that stalls, or a second disaster after the command. The
  theorems take any number of stalls, disasters and commands.

The constraints cut whole successors off, never the properties of the states
that remain. In `limiter` two attempts are the least that read a counter before
either has written; the limits are small and different, so that each counter can
block alone. In `recovery` one disaster happens at any point, and one command follows it,
which may die at any step; a job may stall once, for the code leaves `maxStalledCount` at
Bull's default. Where no job stalled a second disaster of any kind strikes
after that command. More disasters with repairs between them, and more recipients, commands,
chunks, runs and faults, are what the theorems of section 5 add.

`RepairedCounts` compares the counters with the doubts, not with the recipients alone:
a job that stalls after its run has counted is run again and counts again, and one that
stalls before its row has ended takes a terminal row back to `processing`. `Settled` is
who has ended but for that. Without the doubts the property is false as soon as a job
may stall, repaired or not.

`UserStaysIn`, `LogoutEnds` and `StateUsedOnce` exempt what overlapping requests
do to one session or login (`raced`): section 4 says what happens there. The mutants
show that what is left is not empty: a renewal that keeps the old refresh token, a
logout that only revokes, and a state that lives until its TTL are all found.

Fairness (`FairSpec` of `Campaign`): each run goes on with weak fairness (Node
runs the pending callbacks of a live process), Bull hands out waiting jobs,
promotes delayed ones and checks for stalled ones periodically, and somebody
polls (the dashboard does, every few seconds). Nothing is assumed of clients, of
the provider or of faults. `JobsSettle` holds because attempts and stalls are
charged, not because failures stop; section 5 proves that part of it (`WorkAlwaysRunsOut`). `RetrySpec` adds, with strong fairness, a
client that repeats its request whenever it is not refused and stores that
answer again and again; it serves the first refuted statement of section 4.

`FairSpec` of `DeliveryStatus`: a live run goes on until it has stored the message id
(nothing is assumed of Bull's completion, nor of crashes), transactions go on, PostgreSQL
grants a row that becomes free again and again to whoever waits for it, and Mailgrid
repeats every webhook that was not answered 200. Uploads and database faults are not
assumed either way; the run has no database fault, since a message id that was never
stored cannot be found. An id that was lost otherwise, with a worker that died before
`markAsSent` or under the id of a later mail, is not `Traceable`, and nothing is promised
of its events.

## 4. Findings

One finding is kept as a run:

- **A campaign is completed with a recipient pending** (`campaign_extend`). A
  second request with the same payload and one more recipient adds its log row
  and Bull job but not to `valid_recipients`; a poll then finds "all" terminal,
  and `completed` is sticky.

The following statements of the documentation are stated in the modules too, and
TLC refutes each of them on a small instance. They have no run of their own; the
instance is given so that the trace can be had again. Other constants are as in the
run of the module.

| Statement | Instance | What the trace shows |
|---|---|---|
| `Campaign!RetryRecovers` under `RetrySpec` (`src/docs/stories/3.3/plan/self-critique-3.3.json:7`, an interrupted `addBulk` is safe to retry) | as `campaign_live`, chunks of 1, outcomes accept and reject, faults api, 1 attempt, no stall | The queue fails after the first chunk and the queued recipient fails for good: every repetition ends in 409 at `sendController.ts:226` before the queue is reached. The recipients of the later chunks stay `pending`, and `enqueueMissingPendingCampaign` refuses as well, for the campaign has Bull jobs. |
| `DeliveryStatus!NewestWins` with `Lag = 1` (`src/docs/stories/3.4.feat-import-status-csv.story.md:30`, old events overwrite nothing) | 1 row, 1 webhook, 1 import, statuses delivered and soft_bounce, 2 times | A webhook's date is read in the zone of the process (UTC: no image sets `TZ`), a report's at `-03:00`. As far as Mailgrid writes the same wall clock in both (what it means is not in the repository), report events are stored three hours late: an import replaces newer webhook events. `Lag` is that difference; every run and theorem takes 0. |
| `DeliveryStatus!RowShowsEvent` without the exemption of `exposed` (`queue/processors.ts:189`, "Check idempotency - skip if already sent") | 1 row, 2 messages, 1 run, 1 webhook, no import, 1 event, `DBFaults` | The worker dies after `markAsSent`; Bull starts the stalled job again, and its look-up fails. The error is swallowed (`processors.ts:215`) and the mail goes out a second time; meanwhile, or before that run, a webhook finds the row by the first id and makes it `delivered`; `markAsSent` then puts `sent` and another message id over it. |
| the same | 1 row, 2 messages, 2 runs, 1 webhook, no import, 1 event, `Overlap`, no `DBFaults` | Bull starts a job again whose first run lives on, and both find the row not sent: the slower one writes `processing`, and then `sent` and another message id, over the delivered row. Events of that mail older than `mailgrid_event_at` are ignored. |
| `Accounts!DeactivationEndsSessions` (`src/docs/stories/4.1.feat-login-local-e-oidc.story.md:55`, `disable` ends the sessions at once) | 2 users, 1 session, no reset, no fault | A deactivation does not raise `credential_version`. A login that read the account before it stores its session after the revocation; the session is refused while the account is disabled and served again once it is enabled. |
| `OidcSessions!UserStaysIn` without the exemption of `raced` (`src/docs/oidc-testing.md:46`, the user stays signed in) | 1 configuration, 2 tokens, 1 old session, 2 requests, no fault, `SingleUse` | Two requests renew one session at once; the provider refuses the second use of the refresh token, and its error path deletes the session the first has renewed. |
| `OidcSessions!LogoutEnds` without the exemption (`src/docs/oidc-testing.md:47`, the session is removed) | the same, without `SingleUse` | A renewal that is under way during a logout stores the session again with a plain `SET`. |
| `OidcSessions!StateUsedOnce` without the exemption (`src/docs/oidc-testing.md:43`, a used state creates no session) | 1 configuration, no old session, 1 login, 2 codes, 2 requests, no fault | Two callbacks `GET` the transaction before either has deleted it, and each redeems its own code. |
| `LoginLimiter!FailuresBlock` (`src/docs/stories/4.1.feat-login-local-e-oidc.story.md:39`, 5 failures in 15 minutes block) | 1 attempt, 1 name | `EXPIRE ... NX` fixes the window at the first failure: failures late in one window and early in the next are counted apart. How far this goes is proved: `TwiceTheLimitAtMost`, section 5. |
| `Settings!EmptyKeepsCurrent` (`src/docs/stories/4.2.feat-settings-admin.story.md:46`, `configController.ts:99`, an empty field keeps the current value) | no environment, forms of one account with either secret or none | A save with an empty field writes back the secret it read, over the one another administrator stored meanwhile. |
| `Recovery!FailedCanBeRetried` (`src/docs/production.md:85-96`, failed jobs can be retried) | outcomes accept and throw, no fault, no disaster, 1 command | A temporary error leaves `processEmailJob` before `markAsFailed`: a job that used up its attempts is `failed` in Bull and `processing` in `email_logs`. The report calls that a conflict and `--retry-failed` refuses the campaign, although nothing was delivered. |
| `Recovery!CleanReportIsComplete` (`src/docs/production.md:55-56`, exit code 2 when recipients are missing) | outcome accept, faults api, chunks of 1, no disaster, 1 command | The report counts a recipient that has a log or a Bull job, and looks for logs without jobs only in campaigns without any job: of a campaign queued in part, the pending rest is reported nowhere, and `--enqueue-missing` refuses it. |
| `Deletion!RunningIsKept` (`jobController.ts:95`, a job that is processing cannot be deleted) | as `deletion_resend`, no fault | A request sets a completed campaign back to `processing` between the check and the `DELETE`, which goes by id alone. |

## 5. Proofs

`CampaignProofs` proves, for every set of recipients, payloads, requests and
runs, every chunk size and every combination of outcomes and faults:

| Theorem | States |
|---|---|
| `TypeCorrect` | `Spec => []TypeOK` |
| `QueuedIsAlwaysPersisted` | `Spec => []QueuedIsPersisted` |
| `AcceptedIsAlwaysQueued` | `Spec => []AcceptedIsQueued` |
| `AlwaysAtMostOnceButDoubt` | `Spec => []AtMostOnceButDoubt` |
| `FinishedJobsStay` | `Spec => TerminalBullFinal` |
| `CountersStayBounded` | `Spec => []CountersBounded` |
| `KeepsPromise` | `Spec => PromiseKept` |
| `NeverLost` | `Spec => []NeverStranded` |
| `WorkAlwaysRunsOut` | `Spec => WorkRunsOut` |

All follow from `Invariance`, `Spec => []IInv`. None of the properties is
inductive. `IInv` adds `QueueInv` (a job in the queue has an attempt and a stall
left, and only an active job is locked: without it `attemptsMade` could leave its
type and a late run could revive a job), `RunInv` (a run's job exists), `LogInv`
(only a queued recipient is past `pending`, which is why skipping a sent
recipient keeps a 202 truthful), `RequestInv` (what a handler persisted, and
which recipients it still owes to the queue) and `BudgetInv`: mails given, plus
runs that may still give one or give the job back, plus one if the queue will
start a run, never exceed one plus the unknown outcomes. The last is the argument
for at-most-once delivery. `CountersStayBounded` adds `CounterInv`: what was counted,
plus the runs that may still count, never exceed the jobs given to the queue plus
their stalls; a run counts once, and only a stall gives a job a second run that
counts. Assumptions: `SetsAssumption` (recipients and runs are finite sets, `None` is
none of them) and `BoundsAssumption`. TLC agreed with `IInv` on the instances of
`campaign_api` and `campaign_faults` before it was proved. The lemmas `BullSteps`,
`LogSteps`, `RunSteps`, `JobStays`, `LogStays` and `BullStays` say which steps change
what; one `Step...` lemma per conjunct of `IInv` has one case per action that can
disturb it.

`KeepsPromise` is the refinement. A step of `Campaign` maps to a step of `MailPromise` or to
a stutter (`StepContract`, with a lemma `...Keeps` per kind of step). Its guards need
three invariants more than `IInv`. `SuccessInv`: what a run, a log or a Bull job says
was sent was mailed. `RefusalInv`: a run that was refused, and a job that ended so, have
spent their part of the budget without a mail, so that even runs that lost their lock mail
this recipient only against an unknown outcome; this is the one place where `Readable`
enters. `ReturnInv`: a completed job has returned something.

`NeverLost` and `WorkAlwaysRunsOut` are the safety half of `JobsSettle`, for every number of
jobs, attempts, stalls and runs and every fault. A job that is not finished is waiting,
delayed, active in the hands of a run at work on it, or active without a lock
(`HeldInv`: whichever way a run ends, it gives up the lock), so that one of the steps the
fairness is about is due. And each of them uses something up: `Moves`, what the attempts
and stalls of a job leave of it, falls with every move of Bull and rises with none, and a
run never returns to an earlier step. What is left to TLC is the step from this variant to
`~>`, which needs `ENABLED`.

The same module proves what needs some faults to be absent, for every set of
recipients, payloads, requests and runs and every answer of the provider:

| Theorem | Under | States |
|---|---|---|
| `NeverResent` | `Faults` within api, crash | `Spec => NoResendAfterSent` |
| `SentStays` | the same | `Spec => SentIsFinal` |
| `QueueAlwaysAgrees` | the same | `Spec => []QueueAndLogAgree` |
| `CompletedIsAlwaysTruthful` | `Faults` within api | `Spec => []CompletedIsTruthful` |

`SoleInv` says that a run under way holds its lock, so that a log row has one writer
once it is there; `StageInv` says what that row may be at each stage of the run. For
the last theorem `FreshInv` says that a job goes back to the queue only with a row
that has not ended: a crash between the record of a failure and the end of its Bull
job would give a terminal row back to `processing`, and a completed campaign with it.

`DeletionProofs` proves, for every set of recipients, requests and runs, every
outcome and fault and every number of deletions, `DeletionTypeCorrect`
(`DeletionSpec => []DeletionTypeOK`), `DeletedStaysSent`
(`DeletionSpec => []DeletedIsNotResent`) and `DeletedKeepsPromise`
(`DeletionSpec => PromiseKept`); and, as long as no lock expires under a run and
the provider neither refuses a mail nor seems to, `NewRowStaysItsOwn`
(`DeletionSpec => []NewRowIsItsOwn`). The budget of `CampaignProofs` is kept by
Bull and its runs, and `deleteJob` leaves both alone: `QueueSide` is the part of `IInv`
that no row of PostgreSQL enters, and a statement that finds its row gone moves a run
only to where it gives no more mails. `DeletedKeepsPromise` needs of `RequestInv` only
`OwedInv`, which no row enters either: what a 202 covers is in Bull, and the report of a
job is Bull's. The steps without a row (`Rowless`) are answers to clients or stutters.
`NewRowStaysItsOwn` rests on `SoleInv` (a run under way holds its lock), `ReadInv` (no log
has failed, and a run that read a row which is still there finds the log it read not
ended) and `CompleteInv` (a poll of the present row, or a row that says completed,
counts only mails that have ended). Both hypotheses are needed, and TLC shows why: after a
refusal and a crash the job stalls and its next run takes a failed row up again, and two
runs of one job (a lost lock) let the later one write what the new row has already
passed. Assumptions: those of `Campaign`, and `DeletionAssumption` (`MaxDeletes` is a
natural).

`RecoveryProofs` proves, for every set of recipients, requests and runs, and any number of
disasters of every kind and of commands, in any order, each of which may die at any step:

| Theorem | Under | States |
|---|---|---|
| `RecoveryTypeCorrect` | – | `RecoverySpec => []RecoveryTypeOK` |
| `RepairedAlwaysAgrees` | `Faults` within api, crash | `RecoverySpec => []RepairedAgrees` |
| `RepairedAtMostOnceButDoubt` | no `db` fault if Redis may be lost | `RecoverySpec => []AtMostOnceButDoubt` |
| `RepairedAlwaysCounts` | `Faults` within api, crash | `RecoverySpec => []RepairedCounts` |

While the stack runs a step is one of `Campaign`, whose step lemmas ask only for `Types`
(`job.retry()` takes a job past `MaxAttempts`, so its limits are not part of them).
`StackInv` is what nothing breaks: a stopped stack has no request and no run, and what a
command has yet to do is as it found it. `AgreeInv` adds, unless rows were lost, one run
per job and a log that says what the run has reached; a report without blockers lets
`--apply` restore it. `MailInv` is the budget in which only a recipient whose log has not
ended is owed a mail, and a retry is only for mails the provider never got. What a loss
of Redis makes sendable again was either in doubt (`processing`, or any row without an end
while rows are lost) or never sent, for its row still says `pending`: that is `MarkedInv`,
a pending row stands for no mail but those in doubt. It cannot hold while rows are lost,
and so a second disaster needs it back from the repair: `AppliedAreOwed` derives it from
the budget itself, since `--apply` leaves as pending only what the queue still owes.
`CountsInv` adds up what was counted, what runs
under way will count and what may be counted once more, against the logs taken up and
the doubts (`TallyInv`), and says that a completed campaign stays so (`EndInv`). TLC
refutes `RepairedAgrees` and, when Redis is lost, `AtMostOnceButDoubt` with failures of the
database: a run whose database fails leaves no mark of the mail it sent, so its row
never agrees with its completed job, and once the queue is lost it is sent again.

`DeliveryStatusProofs` proves, for every set of rows, campaigns, messages, runs,
webhooks and imports, with `Overlap` and `DBFaults` either way:

| Theorem | States |
|---|---|
| `DeliveryTypeCorrect` | `Spec => []TypeOK` |
| `LocksHold` | `Spec => [](TypeOK /\ LockInv)` |
| `NeverALockCycle` | `Spec => []NoLockCycle` |
| `NewestAlwaysWins` | `Lag = 0` implies `Spec => NewestWins` |
| `RowsAreRegisters` | `Lag = 0` implies `Spec => NewestEventSpec` |
| `ImportsCover` | `Spec => ImportCoversFile` |
| `RowsShowTheirEvent` | `Spec => []RowShowsEvent` |

`LockInv` says that what a transaction read of a row it holds is still so (without
it the decision of `shouldApplyMailgridWebhookEvent` is about a stale row), and
that an import holds only rows smaller than those it wants: two imports in a cycle
would give r < q and q < r. For the refinement `ShownInv` adds that `at` is the time
of the event shown; a step then maps to `Advance`, to `Report` or to a stutter.
`FileInv` says that the updates of an import cover its file, one per message.
That `Lag` is 0 is a fact about Mailgrid and the zone of the process that is not in the
repository (section 4). `RowsShowTheirEvent` takes no hypothesis: the rows it leaves out are
those in `exposed`. It rests on `OneRun` (on the other rows there is at most one run, and once
the row has a message id its status says that the mail was sent, and the run has nothing
left to write), on `NoIdNoEvent` (a row without an id shows no event) and on `HookMsg` (the
row a webhook has locked keeps the id it was found by).
Assumptions: the rows are naturals (any total order of ids), webhooks and imports
are different actors, `None` is none of them.

`AccountsProofs` proves, for every set of users, sessions, browsers and
operations, every bound, and with or without aborts:

| Theorem | States |
|---|---|
| `TypeCorrect` | `Spec => []TypeOK` |
| `LastAdmin` | `Spec => LastAdminStays` |
| `ResetEnds` | `Spec => ResetEndsSessions` |
| `ResetStays` | `Spec => ResetIsNotUndone` |
| `IndexComplete` | `Spec => []LiveIsIndexed` |
| `RevokesAll` | `Spec => RevocationComplete` |

`LastAdmin` rests on `Serial`: whoever has decided still holds the advisory lock,
and what it counted is still so when it writes, for creations only add
administrators. The two facts about resets rest on `Counted`: `credential_version` and
the history `resets` of a session, a login or a change never run ahead of the user's, and two
that have the same version have seen the same resets. `IndexInv` adds to
`LiveIsIndexed` what a step needs to keep it: ids that were not drawn appear
nowhere (so a new session meets no pending revocation), a login about to index is
still its own, and an operation takes out of the index only what it has deleted.
`TargetsFound` says where the targets of a revocation are at each of its three
steps. Assumption: `AccountsAssumption` (`None` is no user, session or operation; the
bounds are naturals).

`OidcSessionsProofs` proves, for every set of configurations, tokens, sessions,
logins, codes and requests, either kind of provider and every combination of
faults:

| Theorem | States |
|---|---|
| `TypeCorrect` | `Spec => []TypeOK` |
| `TokensHome` | `Spec => []TokensStayHome` |
| `DisabledOut` | `Spec => []DisabledIsShutOut` |
| `StaleOut` | `Spec => []StaleIsRefused` |
| `LogoutHolds` | `Spec => []LogoutEnds` |
| `StateHolds` | `Spec => []StateUsedOnce` |
| `StaysIn` | `Spec => UserStaysIn` |

The first four follow from one invariant, `Inv`: what Redis stores under a session was issued
by the configuration it is bound to (an unbound one by `Legacy`), a request holds a
record that was stored, or one it got from the provider of its context, and
past each of its checks the account and the settings it was checked against are
those of its session at that moment; `banned` and `stale` are false as soon as an
account is enabled or the settings change, so nothing need be known of later
ones. Assumption: `OidcAssumption`; of old sessions it says that they were issued
by the configuration that was imported, which is what the import derives the
binding from.

`LogoutHolds` adds `Over`: a session that no two requests worked on at once has at most one
that does, and once it was logged out none that could store it again. `StateHolds` adds
`Once`: a login that no two callbacks worked on at once has at most one, and none once
it has led to its session. `StaysIn` adds `OneOwner` (a token belongs to one session, or to
one callback) and `Quiet`: in calm times everything is of the imported configuration,
and the provider takes a token until its session is spent or renewed.

`LoginLimiterProofs` proves, for every set of names and addresses, every finite set of
attempts, and every limit and window:

| Theorem | States |
|---|---|
| `TypeCorrect` | `Spec => []TypeOK` |
| `NewRefused` | `Spec => []NewAttemptRefused` |
| `OnlyOwnPair` | `Spec => OnlySuccessForgives` |
| `Overshoot` | `Spec => []OvershootBounded` |
| `OnlyRecent` | `Spec => []OnlyRecentFailuresCount` |
| `TwiceTheLimit` | `Spec => []TwiceTheLimitAtMost` |

`NewRefused` rests on `FullInv`: as long as an attempt has read nothing full, the
counters that were full when it arrived are still to be read, and they stay full
unless they are emptied. `OvershootBounded` is inductive as it stands (`Bounded` for each
counter): an attempt gets past a counter only when it reads it below its limit,
at which moment everybody may be past it, and whoever adds to it leaves. This is
where the finiteness of the attempts is used. The last two rest on `WindowInv`, which ties
the counter to the history of failures: an open window has counted exactly the failures
registered since it opened (`SinceStart`), and those of the last 15 minutes that are older
fell into the window before it, so that they are no more than one counter can reach
(`Before`, by `OvershootBounded` when that window ended). `TwiceTheLimit` adds the two up: it
is the bound that holds where the document's five in fifteen minutes does not (section 4).
Of a pair it counts the failures since its last successful login, which forgives the
earlier ones and with them zeroes `recent`; of an address it counts all.
`recent` is kept as running totals, so that no sum over a window appears in a proof.
Assumption: `LimiterAssumption`; a pair
is no address, limits and window are positive.

`SettingsProofs` proves, for every set of backends, administrators, sections,
accounts, secrets and environments:

| Theorem | States |
|---|---|
| `TypeCorrect` | `Spec => []TypeOK` |
| `SecretsStay` | `Spec => []SecretStaysWithAccount` |
| `StoredAlwaysWins` | `Spec => StoredWins` |
| `BindingStays` | `Spec => []BindingIsOfStored` |

`SecretInv` says that every secret an import is about to commit, or an administrator read,
decided to keep or is testing, was given for the account it is with; `HoldInv` that a
transaction which inserted a row holds its key and nobody has committed that row
(the unique key makes the second import wait); `BindInv` that an import inserts the
binding and the settings it is of in one transaction. Assumption: the one of
`Settings` on its constants.

Only model-checked: liveness (`JobsSettle`, `CompletionSynced`, `EveryEventLands`), which is
beyond the prover; of the first the safety half is proved. Every other property of a passing run is a theorem.

## 6. What may follow

What is left of the promise after a disaster: a report that a restored dump or a lost
queue takes back, and the repair that restores it.

## 7. Not modelled

- Upload, extraction, validation, templates: sequential text processing of one
  file, whose only product here is the list of a request.
- The rate limiter of the worker: it only delays `Take`.
- A worker without its repositories (`processEmailJob` "without persistence"):
  in production the worker stops when PostgreSQL is not there at start-up.
- Bull's cleaning of old jobs: the code keeps completed and failed jobs.
- Pages, filters, statistics and exports of campaigns: they only read.
- The listing of Bull jobs by the CLI in five calls: the runbook keeps the stack
  at zero meanwhile, so that the lists are one snapshot.
- The test of an OIDC configuration, metadata, signatures and URLs: what they
  decide is an answer of the provider or a refusal.
- Hashing, encryption and masking: a password is right or wrong, a secret is a
  value.
- Repository methods that nothing in the program calls.
- Application wiring, migrations, the React client, deployment scripts.
- The development tooling in the dot directories (`src/.aiox-core` and its like).
  It is vendored: by far the most of the repository's lines and no part of the
  program, nothing in `src/backend` or `src/frontend` loads it. The lines the modules
  stand for are therefore a small share of the repository's, and most of the
  stateful lines of its backend.
