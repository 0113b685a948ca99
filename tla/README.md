# A verification of FindMeGamer

FindMeGamer finds creators for a game: it analyses games and creators with a
language model, matches a game against its creators, and sends and tracks
outreach mail. This directory models the workflows of its backend in TLA+,
checks them with TLC on small instances and proves the most important results
with TLAPS for every value of the constants. Paths below are under `src/`;
`backend/app` is shortened to `app`.

## 1. The system

| Component | State it keeps | Operations | Interacts with | What is hard | What makes it correct |
|---|---|---|---|---|---|
| **Match task store** (`app/repositories/match.py`, `app/matching/*.py`, `app/db/models/match.py`) | one `match_tasks` row, its screening, candidate, pairwise and result rows, its campaign | create, load and apply screening, prepare, claim, apply success, fail, mark / compensate ranking, publish, purge | worker graph, API, retention task | read and write in different transactions, two copies of one step | published whole or not at all; ranking over complete briefs; progress exact |
| **Match worker graph** (`app/workers/match_tasks.py`) | Celery messages, the retry count of each | start, pairwise, advance, finalize_ranking | store, model provider, broker | late acknowledgement, redelivery, retries, lost workers, refused sends | duplicates harmless; every Match ends |
| **Match API** (`app/api/routes/match.py`) | idempotency records | create, retry, list, get | store, broker | commit, then send; stale retry offers | an offered retry is honoured; resumes from a valid checkpoint |
| **Analysis jobs** (`app/api/routes/jobs.py`, `app/repositories/jobs.py`, `app/workers/analysis_tasks.py`, `app/analysis/service.py`) | `analysis_jobs` rows, profiles | create or reuse, dispatch, claim, advance, finalize, fail, retry | API, scheduler, workers, pipelines | one active job per target, late finalization, dispatch after commit | at most one active job; success carries a profile; monotone progress |
| **Analysis pipelines** (`app/analysis`) | creator map/reduce checkpoints | game, creator and map-reduce runs | model, YouTube, Steam, S3 | resumption from checkpoints | a checkpoint is reused only for the same source |
| **Scheduled re-analysis** (`app/workers/schedules.py`) | none of its own | scan every 15 minutes | jobs, profiles | crash between creation and dispatch | every due profile gets a job |
| **Job change feed** (`app/api/routes/jobs.py`, `app/db/models/jobs.py`) | change watermark | timestamping, cursor pages | API clients | commit order and timestamp order | no change is skipped |
| **Idempotency records** (`app/repositories/jobs.py`) | key, request hash, response | replay, store, delete | API | concurrent requests with one key | one effect per key |
| **Outreach sending** (`app/outreach/batches.py`, `app/api/routes/outreach.py`, `app/workers/outreach_tasks.py`) | batches, deliveries, idempotency records | create, dispatch, claim, send, release, mark, resend | SMTP, broker | a mail cannot be unsent; commit, then send; a retry after an acceptance nobody heard of | one current delivery and one sender per creator; an acceptance that was heard of is never repeated; nothing stranded |
| **Responses and metrics** (`app/outreach/responses.py`, `metrics.py`) | responses of a campaign | confirm, view, count | deliveries | several links, concurrent confirmation, resends | the first confirmed response is final, and nothing is sent after it |
| **SMTP rate limiter** (`app/outreach/rate_limit.py`) | token bucket in Redis | acquire | workers | clock, refill at the limit | never more than the rate |
| **API rate limiter** (`app/core/rate_limit.py`) | window counter | hit | API | expiry of the window | never more than the limit per window |
| **Seed CLI** (`app/cli/seed_creators.py`) | report on disk | resumable import | profiles, jobs, broker | interruption between any two steps of a row | a finished report means every channel was taken in |
| **SMTP settings and connection tests** (`app/repositories/settings.py`, `app/api/routes/outreach.py`) | connections, their last verdicts | update, test | SMTP server | a test talks to the server between two transactions | a verdict is of the stored configuration |
| **macOS JobPoller** (`macos/Sources/FindMeGamerCore/Services/JobPoller.swift`) | cursor, generation, tasks | start, stop, refreshNow, sync | change feed | answers of a retired loop | one loop; the cursor passes no change; active jobs are followed |
| **macOS composer** (`.../Features/OutreachComposerModel.swift`) | draft, previews, send attempt | load, edit, preview, confirm | Outreach API | late answers, lost confirmations | what is shown is what is sent; a repeat keeps its key |
| **macOS Outreach management** (`.../Features/OutreachManagementModel.swift`) | templates and a draft; campaigns, timers | edit, save, load, open, poll | Outreach API | answers in any order, cancelled timers | what was typed is kept; what is being sent is polled |
| **macOS library** (`.../Features/LibraryModel.swift`) | lists, filters, favourites | search, filter, page, toggle, reload | profiles API | optimistic marks against late pages | marks are true; criteria are applied |
| **macOS Match history** (`.../Features/MatchModel.swift`) | rows, retry keys, suppressed retries | list, retry, consume a change | Match API, feed | old answers after a retry | a failure is offered for a retry once |
| **Migration of analysis jobs** (`backend/migrations/versions/20260902_0004_...py`) | the constraints of `analysis_jobs`, the revision | upgrade, downgrade | transactions of the released and the present program | gates that do not wait; repair of whatever rows there are | no repair is refused; nothing is written around it |
| **Other** | external integrations, prompts, auth, other macOS models and views, ops and release scripts, other migrations | | | I/O, text or layout | out of scope, see section 8 |

How a Match runs: the API creates the task and its locked input snapshots in
one transaction, commits, and sends `start`. `start` asks the model to screen
the creators, applies the selection, inserts one pairwise row per selected
creator and sends one message for each. Each pairwise job claims its row,
calls the model outside any transaction, checkpoints the brief and sends
`advance`. `advance` does nothing until every pair has succeeded; then it moves
the task to stage RANKING, commits, and sends `finalize_ranking`, which calls
the model and publishes results and campaign in one transaction. A failed
task keeps its checkpoints and may be retried by the user.

How an analysis runs: the API (or Beat's scan for profiles that are due) finds
the target's active job or inserts one, commits it together with the response
stored under the client's Idempotency-Key, locks the job again and sends it if
it is still queued. A worker claims it, fetches its sources, reports progress
at two boundaries, and finalizes: one transaction writes the profile and ends
the job. A later request for the target then finds no active job.

How mail is sent: the client's composer previews a draft and confirms it under
an Idempotency-Key. The API inserts a batch with one delivery per creator, and
the record of the key, in one transaction, commits, reads which deliveries of
the batch are queued and sends a message for each; a repeated key does the last
two again. A worker claims a delivery, waits for the rate limiter and the mail
server, and marks the outcome in a transaction of its own; after a transient
error it releases the delivery and lets Celery publish the message again. A
creator answers by the link in the mail; a resend supersedes an ended delivery
by a new one.

How the client follows all this: every transaction that touches a job stamps it
with the next change timestamp under one advisory lock. The JobPoller reads the
rows stamped after its cursor, page by page, applies them when it has them all,
and sleeps while a job is active.

The hazards of this code, each at its line with the properties that would
notice it, are listed in `PROJECT.json`.

## 2. The modules

| Module | Models |
|---|---|
| `MatchStore` | the PostgreSQL rows of one Match Task and, as operators, every transaction on them; each operator is one method of `app/repositories/match.py`, `app/matching/` or `MatchTaskStore`, with its guard, effects and refusals |
| `MatchWorkers` | (extends `MatchStore`) messages, workers, the API, the provider, Celery retries, faults; the specification, its fairness and the properties |
| `MatchLifecycle` | the abstract specification: what a client is promised about a Match |
| `MCMatch` | symmetry for TLC |
| `MatchProofs` | the inductive invariant and the theorems |
| `AnalysisStore` | the rows of one analysis target, its jobs, profile and idempotency records, and the transactions on them (`app/repositories/jobs.py`, `app/analysis/service.py`, `app/workers/analysis_tasks.py`) |
| `AnalysisJobs` | (extends `AnalysisStore`) the API's handlers, the scheduler, messages and workers, faults; the specification, its fairness and the properties |
| `AnalysisTarget` | the abstract specification: what a watcher of a target's jobs is promised |
| `MCAnalysis` | symmetry for TLC |
| `AnalysisProofs` | the inductive invariants and the theorems about rows, answers and the abstract target, and that no active job is forgotten |
| `CreatorPipeline` | the map-reduce analysis of a channel by all workers that hold a copy of its job's message (`app/analysis/creator_map_reduce_pipeline.py`, `creator_checkpoints.py`) |
| `PipelineProofs` | its inductive invariant and theorems |
| `OutreachStore` | deliveries, batches, responses and records of one campaign, and the transactions on them (`app/outreach`, `DeliveryTaskStore`) |
| `Outreach` | (extends `OutreachStore`) clients, the API's handlers, messages, workers, the mail server, creators who answer, faults |
| `CreatorMail` | the abstract specification: what a creator is promised |
| `OutreachComposer` | (extends `Outreach`) the macOS composer as the client of `Outreach` |
| `ComposerProofs` | the composer's inductive invariant and theorems |
| `MCOutreach` | symmetry for TLC |
| `OutreachProofs` | the inductive invariants and theorems of `Outreach`, and the refinement of `CreatorMail` |
| `JobFeed` | the change feed: lock, timestamps, pages and cursors |
| `JobPoller` | (extends `JobFeed`) the macOS JobPoller reading it |
| `PollerProofs` | the inductive invariants and theorems of both |
| `SmtpLimiter` | the token bucket |
| `SmtpSettings` | connections, their updates and tests |
| `SeedCreators` | the seed command, against the API and the workers |
| `AnalysisUpgrade` | the migration that puts analysis jobs under constraints, against the sessions of the program |
| `ServiceProofs` | the inductive invariants and theorems of these four |
| `OutreachTemplates` | the templates of the workspace and the client's editor |
| `CampaignPolling` | lists, open campaign and timers of the client |
| `LibraryModel` | the client's library and the lists of profiles |
| `MatchHistory` | a Match in the client's history, its retry, and the API's replay |
| `ClientProofs` | the inductive invariants and theorems of the last four |
| `MCParts` | the nine parts without shared state, one scene each, in one run |

### Matches

**State and code.** `task` is the `match_tasks` row: `status`, `stage`,
`retryable`, `units`/`total` (`completed_units`/`total_units`), `ranked`
(`ranking_enqueued_at` is set), `live` (snapshots not purged), `expired`
(`input_expires_at` has passed) and `cause`, which stands for `error_code`:
the broker's refusal written by the API, an error of `fail_task`, or one
copied from the pairs by `recompute_pair_failure_task`. `screened`, `selected`
and `candidates` are the screening rows, those with `selected`, and the
candidate snapshots. `pair` is the state of every pairwise row, with the
`retryable` flag folded into the failed state. `results` and `campaigns` are
the publication. A checkpointed brief is the state "succeeded". `SummaryIsValid`
and `DetailIsValid` are what `project_match_summary` and `project_match_detail`
demand of a stored Match before they show it, and `ResultState` is what they call
its result.

`work` is the set of messages. A message in the broker has phase "queued"; a
worker that holds it is the same record in another phase, named for what it
does next: "called" (the provider is answering, no transaction is open),
"prepare" (screening is applied, `prepare` is next), "undo" (a send raised and
will be compensated), "retryable" / "permanent" (`_handle_failure` is about to
record this failure). `tries` is Celery's retry count.

**Actions.** Every handler is split exactly where another transaction may run in
between: before a provider call, after it, and before the compensation or the
failure is written. `StartLoads`, `StartScreens`, `StartPrepares` are
`start_match_task`; `PairClaims`, `PairApplies` are `run_pairwise_match`;
`AdvanceMarks`, `AdvanceCompensates` are `advance_match_task`; `RankLoads`,
`RankPublishes` are `finalize_match_ranking`; `RecordFailure` ends
`_handle_failure`. Within an action the disjuncts are the outcomes in the order
the code tests them. A send that follows a commit is in the action that
commits; that it can fail, or be lost with its worker, is a disjunct of its own.

**Choices worth knowing.**
- Two identical messages (same job, same retry count) in the broker are one
  record, and of one message at most two copies exist (`copy`), so that
  deliveries can overlap; a third overlapping copy meets the same states.
- A message sent before its sender is lost is the normal send followed by a
  redelivery; the fault disjuncts therefore need only the case of nothing sent,
  except for `start`, which sends several and may be stopped between any two.
- `DatabaseFails` stands for `SQLAlchemyError` in any transaction of a worker;
  the transaction has rolled back, so the store is unchanged.
- A replay of a stored idempotency record reads only and is a stutter.
- `Supersede` ends this task; the successor is a new Match Task with its own
  rows and shares no state with this one, so it is not modelled a second time.
- The advisory and row locks are what makes an operator of `MatchStore` one
  step; they are not modelled themselves.
- Celery rejects a message whose retry it cannot publish (`RetryLost`, fault
  "retry broker").

### Analysis jobs

**State and code.** `job` holds the `analysis_jobs` rows of one target (status
"none": no such row yet), `profile` whether the target has a profile, `due`
whether its `next_analysis_at` has passed, `published` how often an analysis
has written it, and `answer` the idempotency records: the request a key stands
for (the request hash), the job or profile of its response, and the status the
response reports. Targets share nothing but the change lock, so one target is
the whole model. The mode of a job is dropped: no transaction reads it after
the job has been created. `ValidJobState` and `ResultIsValid` are the contract of
`app/core/analysis_job_contract.py` that every writer and `project_analysis_job`
apply; `Projectable` is what the last asks of a job before it answers.

`request` is the API's handling of each request. Its phases are the points
between two transactions of `create_analysis_job` and `retry_analysis_job`:
"read" and "commit" are an attempt of `_execute_idempotent`, whose reads
overlap other transactions until the commit, where the unique index and the
unique key decide; "lock", "send", "undo" and "project" are
`_dispatch_committed_job`; "lost" is a request whose handler died; its client
may repeat it with the same key (`macos/.../Features/ClientCoordinator.swift:232`
keeps the key of a profile's re-analysis in case the user clicks again) or leave it
at that (`AnalyzeRequestModel.swift` takes a fresh key for each call). `scan` is the job the scheduler has created and not yet sent. `work`
is as above: "claimed", "fetching", "analyzing" and "finalizing" lead to
`start`, `advance(2)`, `advance(4)` and `finalize` of the pipelines; "retryable"
and "permanent" are a worker about to record that failure.

**Choices worth knowing.**
- The reads of one attempt (stored response, profile, active job, the job to
  retry) are one step, although READ COMMITTED would let another commit come
  between them; the step from these reads to the commit is where they grow old.
- A job has at most two messages at a time (`Copies`): what a third does, a
  second has done.
- `BecomeDue` is the clock. `Clock` is guarded by the bound on scans only to
  keep the model finite: a profile that becomes due after the last scan is
  not looked at again.
- A scan takes up to 20 due targets (`DEFAULT_BATCH_SIZE`), the longest due first;
  what it does with one of them is modelled, not that others may fill the batch.
- A scan that loses its process and one whose failure transaction fails leave
  the same state, a committed job without a message: "scheduler lost".

### The creator pipeline

`CreatorPipeline` opens the phase of `AnalysisJobs` between the two progress
boundaries. A *node* is one model call (the source, the map wave, the
reductions, the brief); `stored` is the `creator_analysis_nodes` row of each,
`used` what each worker's run goes on with, `pending` and `errors` the calls of
its wave. `SaveSource` and `ReturnCall` insert a node or find the one another
worker has stored; `EndWave` raises the error of a failed wave; `AdvanceRun`
and `Publish` are the transactions on the job and the profile; `LoseWorker` has
the message handed out again. An output is abstracted to who asked and what
it was given, so a digest of one fetch of the channel differs from a digest of
another. The two attempts of a call are one; the loads that begin a wave are
one step; a stored node that was made from other inputs may be refused when it
is loaded.

### Outreach

**State and code.** `delivery` holds the deliveries, named by creator and
number: a resend replaces number n by n + 1. `batch` is the state of the send
batch of each key, `response` the `campaign_creator_responses`, `record` the
request each key stands for. `handler` is, for each key, the client's request
and the API's handling of it, with the deliveries it has left to send; `work`
is the messages, each with the phase of the worker that holds it ("claimed":
talking to the mail server; "accepted", "refused", "transient": about to mark
that outcome). `mailbox` is what the mail server has accepted, `told` how often
a worker was told so. `CampaignSummary` and `DeliveryDetail` are the projections
of `app/api/routes/outreach.py`, and `CampaignIsValid` what `get_campaign` demands
of the rows.

**Actions.** `Execute` is the transaction of `create_batch` or `resend` with
its idempotency record and the reading of what is queued; `Send` sends one
message. `Claims`, `Sends`, `MarksOutcome` and `Releases` are `send_delivery`,
split before and after the mail server. `Answer` is the confirmation of a link.
A worker that loses its connection late leaves a mail accepted and itself with
a transient error (a disjunct of `Sends`): such a mail may be sent twice, and
what is checked is that only such a mail is.

**Choices worth knowing.**
- What makes a composition invalid (SMTP settings, template, Match result,
  addresses) is one refusal, `Refuse`. It leaves the request "failed", as every
  error does for the client: composer and resend keep their key after it.
- A delivery has at most `Copies` messages; one more beside a full set is not
  put in the broker, as it would meet the same states. Copies have names, which
  are symmetric.
- A client that gives up on a handler which is still running is modelled only
  when that handler dies (`Crash`): two handlers of one key never overlap. The
  lock of a key (`_lock_idempotency_key`) makes the second wait for the first to
  commit and then replay it; the second message of a delivery that both may send is
  what redelivery brings about, too.
- `Crash` and a broker error leave the request "failed" too; its client repeats
  it under its key (`Repeat`) or forgets it (`Abandon`). Forgetting is a fault,
  "abandoned", when something of the request had been written (`GiveUp`).

`OutreachComposer` puts the macOS composer in front: its `ConfirmSend` is the
request, `Forget` the abandoning, and a failed confirmation of an unchanged
draft repeats its key. Calls for templates and previews are answered late and
in any order; the generation a call compares is one flag of the call, `live`.
Resends are asked for elsewhere in the client.

### The change feed and its poller

`row` is, for each analysis job or Match task, the timestamp of its last
committed change and whether it is active; `txn` is the one transaction that
holds the advisory lock, with what it has written so far. `Change` stamps a row
with any later timestamp (the clock, or just after the watermark where the
clock lags); `Commit` and `Rollback` end the transaction; `List` is one page of
`GET /jobs`. `JobPoller` has one action for each call of the actor (`Start`,
`Stop`, `RefreshNow`), each page of a sync (`FetchPage`, `FetchFails`) and the
end of each task (`SyncExits`, `SleepExits`): calls may come between a task's
end and the actor's hearing of it. The generation is the flag `live` of a task.
The status filter, the signature of cursors and the contents of rows are left
out. `seen` and `owed` are histories.

### The small parts

`MCParts` plays one of nine scenes in a behaviour; in it one part takes all
the steps. The parts share nothing in the model.

- `SmtpLimiter`: time in ticks, tokens in parts of a minute, so that the refill
  is exact; each caller brings the rate it has read, so that two rates may be
  in use; a lost answer has taken its token. `granted` is a history. Redis'
  clock is taken never to step back, so the guard for that
  (`rate_limit.py:25`) is left out.
- `SmtpSettings`: an update works with the row it loaded before it locked the
  settings and answers with it; a test loads (SMTP's reads the settings and then the
  secret, and a save may come between the two, `LoadSmtpSettings` and
  `LoadSmtpSecret`), talks to the service, and records
  its verdict if the configuration is still the one it loaded, SMTP's by
  `record_smtp_test` and the other services' by `test_connection`. The sessions of
  the program keep loaded objects over a commit, so an update with a new
  password answers with the verdict of the old one. `test_smtp_settings_api.py:161`
  expects otherwise and is satisfied, as the tests' session expires its
  objects; the verdict decides nothing, and is a hazard without a property.
- `SeedCreators`: each step of a row (`TakeUp`, `Prepare`, `SendJob`,
  `MarkQueueFailure`, `WriteReport`) may be the last before an interruption; the
  API and the workers go on with the same channels. That a channel is taken in
  means that it has a profile or a job; a job committed and never sent counts.
  Two branches of `prepare` are left out: a profile that is neither analyzed nor a
  seed (`seed_creators.py:284`), which no code makes, and a job that appears between
  two reads under the change lock (`:323-333`). Both leave a channel that has a
  profile as it is.
- `OutreachTemplates`: the API's list and the editor's list, selection and
  draft; one load and one action under way while the user types; other clients
  change templates. Template text is its name, which is unique. The preview is
  left out.
- `CampaignPolling`: the user's opens and loads, the refresh after a send (with
  a campaign to track, or none where the batch needs no status refresh) and
  the timers are tasks; each is split where it awaits the API, which may answer
  anything. `stopCampaignPolling` cancels the task that calls it, so the answer
  of the open campaign may be dropped.
- `LibraryModel`: criteria, pages, optimistic favourites, debounced and
  scheduled reloads, in front of the stored favourites. A load whose generation
  has passed is dropped at once. A page's cursor is refused when it is of other
  criteria or its row is no longer among those they find. Two histories say when a list may be old: after
  a failed load, and for a favourite whose request failed.
- `MatchHistory`: one row of the history by version and status, the call of a
  retry, of the list and of a change, in front of the API's replay. A retry whose
  answer was lost keeps its key; once the Match has failed again the next
  retry repeats that key, is answered with the failed Match, and
  `MatchModel.swift:169` suppresses it for as long as the client runs. The
  design says that "Match History exposes Retry on a failed task"; `repeated`
  exempts exactly that failure from `OfferedOnce`. The result's pane is left out.
- `AnalysisUpgrade`: the rows are all that the first schema admits (its integers
  have no bounds, its columns no relation). `LockTables` and `TryAdvisory` are
  the migration's gates, which fail rather than wait; `Upgrade` is the repair, an
  operator for each UPDATE in its order, the new stamp, and the constraints, which
  may refuse. A session of the program takes the tables and the job-change lock in
  either order, as the released writers and the present ones do, then writes a job
  or a profile, or reads a page and with it a cursor; what it writes under the new
  revision is checked before it commits. An error's code is its class, as is what
  the row tells of it; a worker's clock and the stamp of its change are one.

## 3. The runs

| Run | Expectation | Instance | Shows |
|---|---|---|---|
| `match_safety` | pass | 2 creators (symmetric), 1 Celery retry, 1 user retry, 1 fault of any kind | all safety properties and the refinement of `MatchLifecycle` |
| `match_liveness` | pass | the same, faults of broker and worker, `FairSpec` | `PairsSettle` |
| `match_transient` | violation | 2 creators, transient model failures, no fault | a Match that only failed transiently becomes permanently failed |
| `match_worker_lost` | violation | 1 creator, one lost worker, `FairSpec` | a Match hangs in RANKING |
| `match_retry_stuck` | violation | 1 creator, one broker error seen by the API, one user retry, `FairSpec` | a retried Match hangs in PAIRWISE |
| `analysis_safety` | pass | 2 requests, 2 keys, 2 jobs, 2 messages a job (all symmetric), 2 attempts, 1 Celery retry, 1 fault of any kind | the safety properties of analysis jobs and the refinement of `AnalysisTarget` |
| `analysis_liveness` | pass | 1 request, 1 scan, 2 jobs, 1 fault (worker, redelivery, API's broker or process, scheduler's broker), `FairSpec` | `JobsSettle`, when a request, which need not be repeated after a crash, meets a scan |
| `analysis_scheduler` | violation | 3 jobs, 2 scans, a lost scheduler, `FairSpec` | a due profile that is never re-analysed |
| `outreach_safety` | pass | 2 creators, 2 keys, 2 deliveries a creator, 2 messages a delivery (creators and messages symmetric), 1 retry, 1 fault of any kind | the safety properties of Outreach and the refinement of `CreatorMail` |
| `outreach_composer` | pass | 1 creator, 2 keys, 2 deliveries, 2 drafts, 2 calls, 3 loads and edits, 1 retry, a fault of the API's broker or process, `ComposerFairSpec` | composer, API and workers together: previews, keys, and every delivery settles |
| `feed_poller` | pass | 2 jobs, 4 timestamps, pages of 1, 2 retries, `FairSpec` | the cursor is exact, the poller keeps going, and follows what is active |
| `parts_safety` | pass | nine scenes, see `Parts.cfg` | one or two properties of each small part |

The properties of Matches (their shapes, and that no message exceeds the retry
budget, are `WorkersTypeOK`, a theorem):
- `PublishedWhole`: results and one campaign exactly when the task succeeded,
  for exactly the selected creators, each with a brief.
- `RankingComplete`: whenever the task is in RANKING or a worker is ranking,
  every selected pair has succeeded and its snapshot is whole.
- `RetryNeverRefused`: a retry the API offers, on unexpired inputs, is honoured.
- `FailureAccounted`: the reported error is that of the pairs as they are now.
- `ProgressExact`: `completed_units` counts what is checkpointed, so that no read
  of a Match is ever refused as invalid, and only a screening that chose nobody is
  shown as "no suitable creators".
- `ImplementsLifecycle`: every step is a step of the abstract lifecycle or
  changes nothing a client sees. `Finish` of the lifecycle lets a failed Match
  run again when its only failed pair succeeds late, and lets a Match being
  retried fail again when a sibling reports: the code does both.
- `PairsSettle`: screening and the pairwise jobs always end.

And of analysis jobs:
- `JobsTypeOK`: shapes, and no message beyond the retry budget.
- `OneJobAtATime`: one active job for a target, and as many publications as
  jobs that succeeded, whoever creates, retries, repeats or finalizes.
- `NobodyForgotten`: every active job has a message, or the scheduler is about
  to send it, or nobody has been answered with it yet: each key that stands for
  it is that of a handler still to send it, or of a client whose answer a dying API
  lost (but for the faults of `Forgetting`, after which the code has nothing that
  takes a job further). So whoever is answered, be it to a repeated key or to a
  fresh one that finds a job another handler left unsent, has had the job sent.
- `AnswersAreTrue`, `AnswersOnlyMove`: the response a key replays is one the
  job has really had, and the job obeys the contract under which it is shown; it
  names one job for ever and only follows it forward.
- `ImplementsTarget`: the jobs of a target take turns, progress never falls,
  an ended job never changes.
- `JobsSettle`: every job ends, except that a job the API committed and died
  before sending may stay queued for ever if nobody asks for its target again
  (`Unheard`). No client has to: most calls of the macOS client take a fresh key
  and are not repeated, and `reanalyzeProfile` keeps a key only until the user
  clicks again. As soon as somebody asks, the job settles; that the fresh key of
  another client sends it too is the part of `NobodyForgotten`, which is checked with
  two requests and two keys and proved for any number. `DueIsNotBlocked`, which
  fails, is the same question asked for the profile.

Of Outreach:
- `OneCurrentDelivery`: the current delivery of a creator is the last, and there
  is always one: the partial unique index never refuses a commit.
- `OneSender`: one worker at most between the claim and the outcome of a
  delivery, however many copies of its message exist.
- `AcceptanceIsFinal`: an acceptance is heard of once; such a delivery never
  fails and is never sent again.
- `NothingStranded`: every open delivery has somebody who takes it further, but
  for the faults of `Stranding`, from which the code does not recover.
- `AnswerIsLast`: an answer belongs to the last delivery, nothing is sent after
  it, and at most one link offers a choice.
- `ReportsAreTrue`: batches, metrics and the state of the campaign agree with
  the rows they summarise; a delivery names its successor exactly when it has one,
  shows an error only if nobody heard of its acceptance, and offers a resend only
  when one would be taken and no worker is sending to its creator.
- `ImplementsMail`: all of it is the abstract correspondence of `CreatorMail`.
- `PreviewIsOfDraft`, `RetryKeepsKey`, `AcceptedIsTaken`: what is previewed is
  what is sent; a repeated confirmation writes once; an accepted batch has been
  handed to the broker.
- `DeliveriesSettle`: every delivery is sent or fails, unless its request has
  failed before the user's eyes.

Of the change feed and the poller:
- `CursorIsExact`: no change at or before the cursor is unknown to the poller,
  nor to a sync under way.
- `KeepsGoing`: a running poller with something left to do has a task whose end
  will be heard.
- `RefreshIsServed`: a sync begins after every start and refresh.
- `ActiveJobsAreFollowed`: once the network stops failing, what has become of an
  active job is learned, however many retries had been spent.

Of the small parts:
- `PublishedIsConsistent`, `OnlyErrorsFail` (`CreatorPipeline`): a profile is
  written from one chain of outputs; a job fails only after a call has failed.
- `AllTakenIn` (`SeedCreators`), `WithinRate` (`SmtpLimiter`),
  `VerdictsAreOfTheStored` (`SmtpSettings`), `DraftSurvives`
  (`OutreachTemplates`), `KeepsPollingCampaigns` (`CampaignPolling`),
  `FavoritesAreTrue` and `CriteriaAreApplied` (`LibraryModel`), `OfferedOnce`
  (`MatchHistory`), each stated with its definition.
- `UpgradeTakesAll` (`AnalysisUpgrade`): no constraint of the migration refuses
  what it has repaired; from then on every row obeys them, with a profile that
  stands for its success, and is shown again to whoever polled before.

Deadlock is not checked: a Match, an analysis job or a delivery that has ended,
one that waits for a user who does not retry, and a poller that was stopped and
a feed out of timestamps all stop.

**Bounds.** Two creators are the fewest for which one pair can disturb another
(a sibling's failure, a late success, the last pair advancing). One retry
distinguishes the first attempt, the retry and the exhausted budget. One user
retry is what it takes to meet messages of the attempt before. One fault of
each kind anywhere is what every hazard in `PROJECT.json` needs; no property
compares the number of faults. `MaxRetries`, `MaxResumes` and `MaxFaults` bound
the counters; the proofs hold for every value of them and every finite set of
creators.

For analysis jobs, two requests with two jobs are the fewest in which one
request's job ends while the other still holds what it read, and in which a
retried job and its successor exist together; two keys allow both a shared key
and two keys for one job. Two attempts of `_execute_idempotent` (three in the
code) include the second reading after a lost race; the liveness run needs
only one. A request and a scan race in the liveness run; a scan beside two
requests multiplies the states without a new pair of transactions, since a scan
inserts and sends as a create request does.

For Outreach, two creators are the fewest with which a batch can be partially
failed and a campaign mixed; two keys give a create and a resend, or two
requests that collide; two deliveries a resend and its predecessor; two
messages a redelivery, or a repeated dispatch, that overlaps the first. The
composer's run needs one creator, since it asks about drafts and keys; its
second key is a second attempt or a resend from elsewhere. The poller's run has
pages of one, so that two changes need two pages and a job may change again in
between; four timestamps let a job change, be overtaken, and change after a
restart. `RefreshIsServed` and `ActiveJobsAreFollowed` end where the timestamps
do, which is no escape: a feed at rest is the case they are about. The
limiter's minute of three ticks and nine ticks of clock are several windows,
with expiry between. Two workers, one loss and one retry let the creator
pipeline overlap, resume and retry; two runs, two troubles and three rows let the seed
command be interrupted, resumed and interrupted again. Two edits let the library
change its criteria under a page that is on its way, and back again. The repair of the migration
looks at one job at a time; of two sessions one may hold a lock while the other
writes; and with the rows' first stamp two more leave room for a write before the
repair, or after it.

**Fairness.** For Matches `FairSpec` assumes only that while a message or a running handler
exists some worker step is eventually taken: Celery's workers consume as long
as they run, late acknowledgement returns a lost message to the queue, and
every handler is straight-line code with timeouts on its I/O. No fairness is
assumed for the user, retention, the clock or any fault. One weak-fairness
condition on the disjunction is enough because retries are bounded and every
worker step makes the remaining work smaller. For analysis jobs it also says
that the API's handlers run to their end (`ApiStep`), that a scan under way ends
(`SchedulerStep`) and that Beat, which starts one every 15 minutes, starts another
(`Scan`). Each of these processes runs by itself, so each has its own condition.
No fairness is assumed for a client: it need neither ask nor repeat a request
whose answer was lost (`ClientStep`). Nor is any for the clock or for faults.

For Outreach, handlers run to their end and workers keep consuming, as above;
nobody has to ask again, and in the composer's run calls are answered or time
out (as `URLSession` does) while the user need do nothing. For the poller,
pages are answered or fail, sleeps pass, tasks' ends are heard, and a
transaction that holds the lock ends; no transaction has to be made, nobody has
to refresh, and calls may fail for ever, except where `ActiveJobsAreFollowed`
says that they stop failing.

## 4. Where the code does not do what its documents say

1. *A transient failure becomes permanent* (`match_transient`,
   `app/matching/pairwise.py:175`). Creator A's pair fails retryably, the task
   is FAILED. B's message, still queued, is delivered: `claim` raises
   `match_pair_not_runnable`, `_handle_failure` records it as a permanent
   failure of B, and the task is no longer retryable. The design promises
   "Failed tasks display a safe explanation and can retry from a sensible
   checkpoint."
2. *A lost worker leaves a Match in RANKING* (`match_worker_lost`,
   `app/workers/match_tasks.py:466`): the redelivered `advance` finds
   `ranking_enqueued_at` set and sends nothing.
3. *A retry with nothing left to run hangs* (`match_retry_stuck`,
   `app/workers/match_tasks.py:449`): `prepare` returns no pair, so no pairwise
   job and no `advance` is sent.
4. *A due profile is never re-analysed* (`analysis_scheduler`,
   `app/workers/schedules.py:92`): the scheduler dispatches only jobs it has
   just created. One it has committed before it was lost stays queued, and
   `list_due_profiles` passes over targets with an active job. The design
   promises "Automatic Creator and Game Re-analyze are mandatory and honor
   configured intervals."

The same half of the Match pipeline, from the last checkpointed pair to publication,
is left unfinished by more events, which the safety run includes and the
liveness run stops before: `advance` cannot be sent until the budget is
exhausted (`fail_pair` then finds a succeeded pair and does nothing); the
database fails while the last failure is recorded, or Celery cannot publish a
retry; the API dies between its commit and its send. `PairsSettle` is therefore stated up to the point where
every selected pair is checkpointed, under all faults but these of the
database, the retry and the API, which stop the first half as well.

## 5. What is proved

`MatchProofs`, from the assumptions `CreatorsAreFinite`, `JobsAreDistinct`,
`BoundsAreNat` and `KindsAreKnown`:

- `Invariance`: `Spec => []IndInv`.
- `TypesCorrect`, `PublicationIsWhole`, `RankingIsComplete`: `WorkersTypeOK`,
  `PublishedWhole` and `RankingComplete` are invariants.
- `LifecycleImplemented`: `Spec => ImplementsLifecycle`.

`PublishedWhole` and `RankingComplete` are not inductive. That a ranking worker
publishes the complete selection depends on what was true when it loaded its
input, and on nothing having undone it since. `IndInv` therefore adds:
`StagesSound` (a stage is entered only with what it needs and a screening task
has no pairs yet), `OfferSound` (a retry is offered only by a failed task),
`RankedWhole` (`ranked` is exactly stage RANKING, over complete pairs), and for
work in flight `Begun` and `ScreenedBegun` (a message exists only for a created
task, one past screening only with a selection). The key fact is
`CompleteIsFinal`: once every selected pair has succeeded no transaction makes
one fail, so a stale ranking worker, a compensation or a late failure finds the
same briefs.

The argument goes by transactions: `StoreStep` says what any transaction may do
to the store, each handler is shown to be a `StoreStep` with well-formed
messages (`SoundStep`), and each part of the invariant is preserved by each
kind of `StoreStep`. The refinement shows each kind of `StoreStep` to be a step
of the lifecycle or a stutter.

A second invariant, `Accounts`, rests on `IndInv`:

- `FailuresAccounted`, `RetryIsAccepted`, `ProgressIsExact`: `FailureAccounted`,
  `RetryNeverRefused` and `ProgressExact` are invariants.

`FailureAccounted` and `RetryNeverRefused` are about a failed task alone, and
not inductive: `fail_task` and the API write an error over whatever the pairs
say. `BlameSound` says of every task that whoever fails it for another reason
than its pairs finds no pair failed for good; `InputsKept` that snapshots are
purged only after they have expired. `ProgressExact` goes by what a
transaction does to the set of succeeded pairs, whose size grows by one with a
first success and is compared with the columns in each case (`UnitsCounted`);
that every stored Match can be projected follows from it and from `IndInv`, which
between them are all that the projections demand.

`AnalysisProofs`, from the assumptions `CountsAreNat`, `JobsAreFinite`,
`CopiesExist` and `IdsAreDistinct`:

- `Invariance`: `Spec => []IndInv`.
- `TypesCorrect`, `OneJob`, `AnswersTrue`: `JobsTypeOK`, `OneJobAtATime` and
  `AnswersAreTrue` are invariants.
- `AnswersForward`: `Spec => AnswersOnlyMove`.
- `TargetImplemented`: `Spec => ImplementsTarget`.

`AnswersAreTrue` is not inductive: a handler writes the response it read before
its commit, when the job may have moved. `Remembers` says what a handler still
knows then (an active job it has found has not gone back behind the status it
saw); `AnswersWhole` says that a used key names something, `UnitsSound` that
only a success completes the units, `ScanSound` that the scheduler holds a job
whenever it is not idle. The argument again goes by transactions: every step is
a `RowsStep` and an `AnswerStep` (`SoundStep`); a `RowsStep` comes to a
`Transition` of one row, from which types, `Forward`, the count of publications
and the step of `AnalysisTarget` all follow; and because rows only go `Forward`,
answers and what handlers remember stay true.

That a job can always be shown (`Projectable`, in `AnswersAreTrue`) needs the
contract of its status for every row at every moment, including the failures the
API writes, and that a success names the profile of its own target.

`NobodyIsForgotten`: `Spec => []NobodyForgotten`. The invariant `CareInv` adds who is responsible: a handler that dispatches a job
answers its key with that job (`Carries`), keys name jobs that exist
(`AnswersExist`), an idle scheduler holds nothing (`IdleScan`), and a claimed job
keeps a message (`RunningHasMessage`), which is why a handler may end when it
finds its job no longer queued. `CareStep` states what each step must do for
that: an active job keeps its message, is claimed through one, is created by
somebody who holds it, and is let go only to a message. A job is held (`Held`) as
long as every key that stands for it is waited for, so a handler that answers its
key must leave a message or a job that has ended, and one that records a key must
go on to send (`ApiCares`). A fault of `Forgetting` makes the obligation void.

`OutreachProofs`, for any finite set of creators, any keys, copies, retries and
faults:

- `TypesCorrect`, `OneCurrent`, `SenderIsAlone`, `AcceptedOnce`,
  `AnswersAreLast`, `NobodyIsStranded`, `ReportsTrue`: every invariant of the
  run `outreach_safety`.
- `MailImplemented`: `Spec => ImplementsMail`.

The invariant grows in three layers. `Base` is about rows and senders: a
delivery is replaced only after it has ended, so what is open is the last of its
creator (`RowsSound`), and its number is the count of letters written
(`Numbered`); only a claim makes a sender, and only its outcome or a loss ends
one (`SendersSound`), so what is told of a delivery is told while nobody else
sends it. `Care` adds that what a key stands for is what its client asks for
(`KeysSound`), without which a repeated request could not be trusted to send
what is left. `BatchesTrue` is the summary of batches; metrics, the campaign's
state and the details of deliveries follow from `Base` by counting. Steps that touch neither a sender nor an
outcome are one kind (`Quiet`), handlers' progress another (`Proceeds`). The
refinement maps a creator's deliveries to their number, and shows a step to write
a letter, end one, tell of one, put one in the mailbox, take an answer, or
stutter.

`ComposerProofs`, for any creators, drafts, keys and calls under way:
`PreviewsAreTrue` (`PreviewIsOfDraft`) and `RetriesKeepKeys` (`RetryKeepsKey`).
One call at most will still be heard, a preview of the draft as it is or the
templates while there is no draft (`CallsSound`), and none while a confirmation
is under way (`SendingSound`). Whoever changes the draft forgets the attempt, so
only its key is alive (`KeysKept`); of the server it is used only that a handler
goes on with its request or ends (`Moves`).

`AcceptedBatchesAreTaken` (`AcceptedIsTaken`) needs what the server does: of every
queued delivery of the attempt's key, and of the accepted one, somebody takes care
(`Cared`): a message, the handler that has it left to send, or an attempt that will
be repeated. It rests on rows with one owner and replaced rows that have ended
(`RowsKept`), so that nobody else turns a delivery of the batch back into a queued
one without a message, and on a record that is the request of its key
(`ConfirmedKept`). It holds, as the property says, until a fault loses a message.

`ComposerIsAClient`: `ComposerSpec => Spec`. What the theorems of `OutreachProofs`
say of one sender, one current delivery, answers and stranded mail holds with the
composer in front as well, and so does `ImplementsMail`. A confirmation is `Ask` or
`Repeat`, an edit `Abandon` or nothing. That a kept attempt can only be repeated
needs `HandlersEnd`: when no answer is awaited its request has failed, with nothing
left to send, since a handler that ends otherwise has a record, and the composer
then accepts the batch. `SomebodyIsWrittenTo` is the composer's own guard: it has no
draft without a recipient.

`PollerProofs`, for any finite set of jobs, any page size and any number of
timestamps and retries:

- `CursorExact`: `Spec => []CursorIsExact`; `PollerKeepsGoing`:
  `Spec => []KeepsGoing`.

What commits is stamped after the watermark, hence after every cursor ever
handed out (`FeedSound`); a page leaves out only rows that come after all of it,
and what a sync has fetched is of changes after the poller's cursor (`Fetched`).
So a row at or before the cursor has not changed since the poller learned it
(`Known`). `KeepsGoing` needs `Lives`: only `stop` takes a task's life, and only a
`start` that found a task leaves a restart behind.

`PipelineProofs`: `OneChain` (`PublishedIsConsistent`) and `FailuresHaveCause`
(`OnlyErrorsFail`) for any workers, batches, reductions, retries and losses.
What is stored is never replaced (`StoredGrows`), and every run works only with
what is stored (`AgreesAt`); whoever makes an output has its inputs, so each
stored output was given what is stored (`Chain`). `BlameAt` says that a run that
is about to fail has met a failed call.

`ServiceProofs`, each for any callers, bounds and order of steps:

- `RateIsKept` (`WithinRate`), for any rates, any length of a minute and any clock
  that does not step back: what was taken since a tick and what the bucket would
  now hold for the fastest caller (`Content`) are together within the bound.
- `VerdictsOfTheStored` (`VerdictsAreOfTheStored`): a test knows which service it
  asks, services other than SMTP have no public part (`SmtpInv`), and a verdict is
  written only in a step that compares what was tested with the row as it is.
- `SeedTakesAllIn` (`AllTakenIn`): a resolved row of a report is of a channel that
  has been taken in, or has an earlier row of its channel still to take up
  (`RowGood`); the same holds of the rows and the channels a run has seen (`RunGood`).
  With no row left to take up, the earliest row of each channel shows that it was
  taken in; what has been taken in stays so (`Grows`).
- `RepairsAreAccepted` (`UpgradeTakesAll`): `RepairAccepted` shows that a repaired
  row has the shape of its status, whatever integers, times and codes it held. The
  two gates leave no session with anything written (`LocksHeld`), so the repair
  sees all there is; a change under way is stamped after all that is committed
  (`StampsFresh`), and so is the repair, above every cursor (`CursorCovered`); and
  who has passed the checks commits what they saw, since only one session at a
  time holds the lock under the new revision (`ChecksHold`).

`ClientProofs`, for any campaigns, profiles, criteria, templates, versions and
calls:

- `CampaignsArePolled` (`KeepsPollingCampaigns`), which is inductive with the types
  of the tasks: every step that could leave a campaign without a timer decides
  about the timer, or leaves a load that will.
- `FavoritesShownTrue` (`FavoritesAreTrue`): a load remembers which favourites moved
  while it was under way, so what its page says of the others is so (`PageIsTrue`),
  and an overlay is what is being stored, or was (`UpdatesSound`).
- `CriteriaApplied` (`CriteriaAreApplied`): a list with more pages is of the present
  criteria, and a list of others has a reload pending or failed (`ReloadsSound`).
- `FailuresAreOfferedOnce` (`OfferedOnce`): nothing is known of the Match that it has
  not been (`KnownVersions`), a retry that was answered has moved the Match on or is
  the repeated key of section 2 (`RetrySound`), and what is suppressed is the failure
  last accepted, until something later is listed (`SuppressionSound`).
- `TypedTextSurvives` (`DraftSurvives`), an action property: a load that no action
  has overtaken knows whether the draft was dirty, and what is typed during an
  action is what it saves (`TypedSound`).

So every invariant and action property of a passing run, and the three
refinements, is a theorem; the runs show them on a small instance. Only
model-checked are the properties of liveness and those of behaviours, which are
out of the prover's reach: `PairsSettle`, `JobsSettle`, `DeliveriesSettle`,
`RefreshIsServed`, `ActiveJobsAreFollowed`, and the four findings of section 4.
The bounds of the counters are constants in the proofs as well, for any value.
No module uses a RECURSIVE operator.

## 6. Abstractions of the data

Briefs, prompts, scores, names, error texts and validation of model output are
left out; that an output was refused is a failure of the provider call.
Randomised order of creators, back-off delays and clock values are left out;
expiry is one flag the clock may set at any time. Idempotency records do not
expire within a behaviour (they live for days, a job for minutes). Sources,
model calls and the contents of a profile are left out of the analysis jobs;
whatever fails in them is a failure of the pipeline. The creator pipeline's
map-reduce between its two progress boundaries is one phase of `AnalysisJobs`
and the subject of `CreatorPipeline`. Rendered mail, tokens of links, names and
addresses are left out of Outreach; a template is its name, a connection's
secret the update that wrote it, a profile its place in the list.

## 7. Plan

Done, in the order in which it was built: Matches; analysis jobs; Outreach with
its abstract correspondence, and the composer as one of its clients; the change feed with
the JobPoller; the token bucket, the creator pipeline, the seed command, the
SMTP settings and the client's models; the migration of analysis jobs; the proofs
listed in section 5, which now cover every invariant and action property of the
runs.

Worth doing next: the migration `20260902_0005`, with the writers of both
releases; `OutreachTemplates` with the preview; the game pipeline, whose calls are sequential; the two disagreements
described with `SmtpSettings` and `MatchHistory`, which are stated there and
exempted from the properties, as properties of their own.

## 8. Not modelled

- Prompts, the schemas of requests and of model output, and the details and
  activity of profiles: functions of their input or reads. Of the projections,
  what they demand of the stored rows is modelled, their layout is not.
- The API rate limiter: two Redis commands in one script.
- Encryption, sessions, tokens, health: sequential code with unit tests.
- External integrations (DeepSeek, Gemini, YouTube, Steam, S3, pages): I/O whose
  outcomes are the inputs of the worker models.
- The inside of the game pipeline (its transactions are in `AnalysisJobs`), and
  `mark_stale_creators`, one statement.
- The client's analysis and settings models, the result's pane and the views.
  The pane has a known flaw: a change consumed while a result is loading
  retires that load, and if the reload fails the pane stays "loading"
  (`MatchModel.swift`).
- Migrations other than `20260902_0004` (they create tables and constraints, which
  are in the operators of the stores), operations and release scripts, the integration harness and the tests: outside the running
  program.
