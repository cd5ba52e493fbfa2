# EventForge dataset pipeline: TLA+ models, runs and proofs

EventForge turns the files of a project into a labelled dataset. A job moves
through five stages (intake, preprocessing, planning, annotation, export); each
is a worker that polls an SQS queue, does its work in one Postgres transaction,
and publishes the event the next stage waits for. This directory models that
pipeline: one hop in detail (delivery, idempotency claims, commits, publishes,
the dead-letter queue), the annotation stage in both of its orchestration modes,
the chain of hops with the statuses they share, what happens before it (the
submission of a project) and beside it (the event stream of the browser, the
calls to language models), and the data that travels through it. All
paths below are relative to `src/backend/src/eventforge/` unless they start
with `docs/` or `infra/`.

## 1. Inventory

| Component | State it keeps | Operations | Talks to |
|---|---|---|---|
| SQS consumer loop, `workers/base.py`, `workers/bootstrap.py` | queue URL; the batch being handled | `run_forever`, `poll_once`, `_delete_message` | SQS; calls the worker's `handle_message` |
| Stage worker, `workers/stage_worker.py`, `services/pipeline_failure.py` | none of its own | `handle_message`, terminal failures through `process_pipeline_failure` | stage functions, Postgres, event bus |
| DLQ worker, `workers/dlq.py`, `events/stage_mapping.py` | none; the detail-type table | `process_message` | `process_pipeline_failure` |
| Stage runtime, `stages/_runtime.py`, `db/repositories/processed_event.py` | `processed_events` rows (claims) | `begin`, `wrap_claimed`, `complete_stage`, `publish`, `publish_many`, `defer` | Postgres, event publisher |
| Stages, `stages/*.py` | segments, tasks, batches, exports; `job_stages.status`; `jobs.status` | `run_intake`, `run_preprocessing`, `run_planning`, `run_annotation_fanout`, `run_annotation_task`, `run_export` | runtime, repositories, pure services, LLM and ASR |
| Event publisher, `events/publisher.py` | none | `publish` | EventBridge, whose rules fill the queues |
| Submission and API, `services/project.py`, `api/routes/` | projects, jobs, assets, files | submit, list, delete | storage, Postgres, event bus |
| Job stream, `services/stage_stream.py`, frontend `useJobStream.ts` | last snapshot per connection | poll, snapshot, update, end | Postgres, SSE client |
| Resilience, `services/resilience/` | breaker state per provider; cost per project | retry, breaker, cost cap | wraps LLM calls |
| Step Functions fan-out, `services/step_functions.py`, `cli/` | executions, task tokens | start, answer a token | Step Functions, annotation worker |
| Pure algorithms, `services/preprocessing/`, `planning/`, `annotation/`, `export/` | none | segmentation, audio chunking, task building, labelling, merge, QC | called by the stages |
| Intake validation, storage, LLM and ASR clients, configuration, logging, migrations, frontend, infrastructure | files, settings, schema | I/O | third parties |

How they interact. The bus copies an event to the queue of every stage that
subscribes to it. A consumer hands the messages of one receive to its handler
one after the other, all against the visibility timeout that started at the
receive. `StageRun.begin` inserts `(event_id, worker_name)` into
`processed_events`; a conflict means "duplicate" and the message is
acknowledged. The work, the stage status and the claim are committed together,
and only then is the completion event published; if that fails, the claim is
deleted again and the exception leaves the message to SQS. A `ValueError` or
`RuntimeError` is terminal: it is recorded from a fresh session and the message
acknowledged. Every other exception leaves the message, and after
`maxReceiveCount` receives SQS moves it to the dead-letter queue, where the DLQ
worker records the same failure under its own claim name.

What is hard, and what correctness means there:

| Behaviour | What has to hold |
|---|---|
| two copies of one event at two workers | one of them works, the other waits for the outcome of the first |
| commit, then publish, then delete, each of which may fail | nothing is announced that is not stored; nothing is given up before it was announced |
| visibility timeouts, crashes, redelivery at any step | the claim stays a lock; a retry is a retry and not a duplicate |
| receive counts that reach their limit for good or bad reasons | what reaches the dead-letter queue ends in a failed job; what was completed is not failed afterwards |
| poison messages | discarded in the end, without holding up the others |
| tasks of one job finishing together | the fan-in fires, once every batch is committed and not before |
| a fan-out that fails half way and is repeated | no task is forgotten, none is undone |
| handlers of different hops, and their failure records, that write one job | an event implies the output before it; the statuses agree at rest; only intake can deadlock |
| publish before commit, deletion, two first requests | no event is swallowed for want of its job; every committed project is taken up; no request hangs |
| a stream that polls a changing job with two reads | its last view is consistent, and final for an undisturbed job; it ends with the job |
| concurrent paid calls under one cap, retries, breakers | the overshoot is bounded, the ledger exact, the job never just stops |
| task tokens of a state machine without timeouts | one Map for a job; what it announces is done or failed; it ends unless a token was lost |
| tasks of one job that finish, fail, are retried and redriven beside each other | the job's status, the stage's and the batches agree; a failed job stays failed |
| cutting, sharing out, labelling and merging data | nothing lost, misplaced, mislabelled or passed off as certain |

`PROJECT.json` lists every hazard found at its line with the properties that
cover it.

## 2. Modules

| Module | What it is |
|---|---|
| `StageRun` | one hop: the copies of one inbound event, the stage's workers, the queue, the dead-letter queue and its workers, the rows they share |
| `StageContract` | the abstract hop: rows, then a verdict, then the event is given up |
| `AnnotationStage` | the annotation stage in local mode: fan-out, task handlers, fan-in |
| `Pipeline` | all hops of one job, with the row locks and statuses they share |
| `JobStream` | extends `Pipeline` with the event stream and the browser's hook |
| `ProjectSubmission` | requests that create and delete projects, against the intake and DLQ workers |
| `LlmCalls` | the cost cap, the breaker, the retries and the usage rows around model calls |
| `StepFunctionsFanout` | the annotation stage orchestrated by Step Functions |
| `Segmentation`, `Labelling`, `Dataset` | the data algorithms as operators, and the data of one project from upload to export |
| `MC...` | instances for TLC: kinds of faults, fault budgets, symmetry, uploads and replies |
| `StageRunProofs` | type correctness, the claim as a lock, delivery without loss, recorded failures, deferral, rows before verdicts; `StageRun` implements `StageContract` |
| `AnnotationStageProofs` | type correctness, soundness of the fan-in, completeness of the fan-out |
| `PipelineProofs` | every safety property of `Pipeline` |
| `JobStreamProofs` | the pipeline beside a stream, how a stream ends |
| `StepFunctionsFanoutProofs` | one Map for a job, soundness of what it announces |
| `LlmCallsProofs` | the breaker, the ledger step by step and as a sum, the overshoot of the cap |
| `ProjectSubmissionProofs` | claims and the jobs they are for, causes of failures |
| `DatasetProofs` | every invariant of `Dataset`, and what the operators of `Segmentation` and `Labelling` compute for any argument |

### StageRun

State and code:

| Variable | Code |
|---|---|
| `where`, `visible`, `receives` | the message in SQS: which queue, its visibility timeout, `ApproximateReceiveCount` (external) |
| `inbox` | the list `poll_once` iterates over |
| `current`, `pc` | the message in `handle_message` and how far the call has come |
| `loaded` | `jobs.status` and `job_stages.status` as the session read them, for the ORM's dirty tracking |
| `claims` | committed `processed_events` rows of this event, by `worker_name` |
| `rows` | the stage's own rows: segments, tasks or the export |
| `stage`, `job` | committed `job_stages.status` and `jobs.status` |
| `published` | "completed" or "failed" once that event reached the bus |
| `faults` | the budget, not code: how often each kind of fault may still happen |

Actions: `Receive` is the receive of `poll_once`; `Begin` is `StageRun.begin`
(claim and load); `CommitStage`, `Defer`, `FailTerminally`, `FailTransiently`
are the ways a stage function leaves its transaction; `Announce`,
`AnnounceFails`, `ReleaseClaim`, `ReleaseFails` are `StageRun.publish` and the
failure publish of `process_pipeline_failure`; `BeginDlq`, `BeginRecord`,
`RecordUnmapped`, `CommitFailure`, `RecordFails` are the DLQ worker and the
terminal branch of the stage worker; `RejectMalformed` and `DiscardMalformed`
are the poison-pill branches of the two workers; `Ack` and `AckFails` are
`_delete_message`. `Reappear`, `Expire` and `Redrive` are SQS, `Crash` is a
process that dies and is started again. Each may happen between any two steps
of any process.

Transactions. What an open transaction has written is invisible to the others,
except for its claim row, on which a second `INSERT ... ON CONFLICT` waits. So a
transaction's writes are applied by the action that commits it, and the claim
lock is held exactly while `pc` is in `InTx`. The ORM issues an `UPDATE` only
for an attribute that differs from what the session loaded: `Assign(old, new,
db)` keeps the database's value when the handler assigns what it had read. This
matters: a handler that "sets" a status it read already does not overwrite what
was committed meanwhile.

`Stage` selects the hop. The hops differ in what they do to `jobs.status`, in
whether `mark_running` comes first, in export's deferral, and in whether the
detail type they consume has an entry in `DETAIL_TYPE_TO_FAILED_STAGE`.

### AnnotationStage

`queue` counts the copies of each event on the annotation queue: the one
`planning.completed` and one `annotation.task.dispatched` per task. `batches`
are the committed batches. `last` is the local `is_last` of
`run_annotation_task`: it counts what its READ COMMITTED transaction sees, the
committed batches and its own. `PrepareFanout`, `WrapClaimed`, `Dispatch`,
`DispatchFails` are `run_annotation_fanout`; `LabelAndCount`, `CommitTask`,
`AnnounceTask`, `AnnounceAll`, `AnnounceFails` are `run_annotation_task`.
Delivery is reduced to "taken, and put back when the handler raises"; receipts,
timeouts and the dead-letter queue are `StageRun`'s subject.

### StageContract

What the rest of the pipeline relies on: `open` (the event may still be worked
on), `rows`, `published`. `StageRun` maps `open` to "a copy is in a queue".

### Pipeline

| Variable | Code |
|---|---|
| `queue`, `dead` | copies of each event in the queues of the stages and in the dead-letter queue (external) |
| `pc`, `dlqItem` | how far the worker of each hop has come, and what the DLQ worker handles |
| `loaded` | the statuses the open transaction has read, for the ORM's dirty tracking |
| `locked` | how many of its two rows, of `jobs` and `job_stages`, the transaction has locked |
| `lastTasks` | the tasks whose handler found `batch_count >= expected_tasks` |
| `claims`, `rows`, `stage`, `job` | committed `processed_events`, stage outputs, `job_stages.status`, `jobs.status` |
| `spent`, `left` | not code: the kinds of faults that have happened, and how many more may |

An event is named after the hop it wakes. The annotation stage is the hop
`fanout` and one hop for each task in `TaskIds`, so that handlers of several
tasks run beside each other. Each task also publishes its
`annotation.task.completed` (`Completion`), which the bus copies to the export
queue (`infra/docker/localstack/init/01-eventforge.sh:126-130`): the export
worker skips it (`Skip`, `workers/export.py:37-45`), but once redriven it is
export's failure to the DLQ worker (`StageOf`, `events/stage_mapping.py:17`).

`Take` is receive, claim and load; `Count` the labelling of a task and its count
of the batches that are committed; `Lock` the next row lock in `LockOrder`;
`Commit`, `Publish`, `PublishFails`, `FailTransiently`, `FailTerminally`,
`Record` and `RecordFails` are the rest of a handler; `TakeDead` the DLQ worker.
`Outbox` lists what a handler publishes, one after the other; a publish may fail
at any of them with the ones before it out. A raised message goes back to its
queue or to the dead-letter queue, as it was received often enough; `Redrive` is
the redrive of a message that was handled but not deleted. A hop is `StageRun`
seen from a distance: acknowledgement and release are part of the steps before
them. What this module adds is what hops do to one another: the order in which
handlers lock the job's row and the stage's (`Waits`, `DeadlockAbort`), tasks
that count one another's batches, and the statuses one handler writes after
another has read them.

### JobStream

`conn`, `readJob`, `last` and `shown` are the locals of `iter_job_stream_events`
and the state of `useJobStream`. A poll is two actions, `ReadJob` and
`ReadStages`, because it is two statements under READ COMMITTED; any step of the
pipeline may fall between them. `Connect` opens one, whose first poll is the snapshot,
`Disconnect` a broken one that the hook opens again. The broker adds nothing a
poll does not: the workers emit in other processes than the API.

### ProjectSubmission

`Authenticate`, `Save`, `Reject`, `Flush`, `Publish`, `PublishFails`, `Commit`
and `CommitFails` follow one request through `create_project`: the one mock user
is inserted in the request's transaction, the files are written one by one, and
the event is published before the commit. `Delete` is `delete_project`.
`Take`, `Touch`, `CommitIntake`, `NoFiles`, `Failing`, `Record` and `TakeDead`
are the intake and DLQ workers as far as they depend on the job being there;
`LoseFile` takes a file from the disk. Two steps that matter: an insert of the
user row waits for the transaction that has already inserted it, and
`process_pipeline_failure` opens a transaction of its own, so it may find a job
that its handler has not found.

### LlmCalls

A delivery of a message goes through `Check` (the cap, then the breaker),
`Answer`, `Retry`, `CallFails` or `CallIsRefused` (the call), `Log` or
`LogFails` (the usage row and the check after it), and ends in `Commit`,
`Capped`, `CappedUnannounced`, `Doomed` or `RolesUnreadable`. `usage` are the
rows of the open transaction, `ledger` the sum of the committed ones: a process
sees `ledger` and its own `usage`. `paid` and `accounted` are history: what the
provider was paid for in this delivery and in the completed one. `breaker`,
`failures` and `halfOpen` are per process, as `get_circuit_breaker` keeps them
in a module variable; `streak` is history.

### StepFunctionsFanout

`phase` is the state an execution is in (`research_fanout.asl.json.tpl`),
`prepare` its Fargate container (`cli/annotation_fanout.py`), whose exits
`PrepareFails` retries. `Dispatch` is an iteration of the Map, `Announce` its
PutEvents. `Take`, `CountBatches`, `CommitTask`, `Publish`, `Answer`,
`FailTerminally` and `CapBreached` are `AnnotationWorker`: the token is answered
after the handler, "skipped" when it returned nothing, and `SendTaskSuccess`
raises for a token that nothing waits for any more (`TokenOpen`). Only
`PrepareFanout` has a `Retry`: a message or an announcement that cannot be sent
fails the execution (`DispatchFails`, `AnnounceFails`;
`research_fanout.asl.json.tpl:60-83, 100-114`). `Start` is a second execution for
the same `planning.completed` (an at-least-once target). Each way to lose a token
is a fault kind of its own.

That `planning.completed` starts an execution is the intended wiring
(`docs/ARCHITECTURE.md:164`; the prepare container parses that event). The rule of
`infra/terraform/modules/step-functions/main.tf:121-127` matches
`eventforge.knowledge.mined`, an event of the system this one grew out of, which
nothing in the repository publishes: as provisioned, no execution starts at all.

### Segmentation, Labelling, Dataset

`Segmentation` has `segment_text` (blocks, token windows, offsets) and
`build_speaker_turns` (merging, cutting) as operators; `Labelling` the
templates, the acceptance of an upload, `build_tasks`, `parse` of a labeller's
reply, the merge and the quality report. Texts are sequences of symbols:
letters, line breaks, a heading marker. A symbol in the domain of the constant
`Wide` takes as many tokens as that says (cl100k_base gives many an emoji
three), every other one takes one; where a window cuts a symbol, what it has of
it decodes to `BROKEN`. `Dataset` takes a submission through `Submit`,
`Preprocess`, `Plan`, `Label` and `Export`; each stage reads what the one before
stored, as the repositories return it, or fails the project. `Uploads` and
`Items` are the types of what comes in: an upload with the text or the
utterances found in it, an item of a reply. The loops of the code are recursive
functions or folds of the community modules, so that the module can be proved
about.

## 3. Runs

Passing runs:

| Run | Instance | What it shows |
|---|---|---|
| `stage_live` | preprocessing; a good and a poison message, 2 workers, 1 DLQ worker, 2 receives, one fault of each of the six kinds, fairness | `TypeOK`; `ClaimExclusive`; `OutputAfterCommit`; `Drains`; `DlqRecords` |
| `stage_benign` | preprocessing; 2 copies, 2 workers, 1 DLQ worker, 2 receives, 2 publish errors, a failed delete, a failed record, no lossy fault | `NoEventLost`; `FailureRecorded`; `ContractKept` (refinement of `StageContract`) |
| `stage_deferred` | export whose batches are missing; 2 copies, 2 workers, every fault kind | `DeferredUntouched` |
| `annotation_safety` | 3 tasks, 2 workers, one publish error, crash, failed reload and duplicate | `TypeOK`; `AllCompletedSound`; `EveryTaskLabelled` |
| `annotation_fan_in` | 3 tasks, 1 worker, 2 publish errors, a transient error, a duplicate, fairness | `FanInHappens` |
| `pipeline` | all hops, 2 annotation tasks and the DLQ worker; any 2 faults of 8 kinds (all but ambiguous publishes), the same kind also twice, fairness | `TypeOK`; `ChainSound`; `CompletedSound`; `OnlyIntakeDeadlocks`; `StatusesAgree`; `FailureFinal`; `Settles` |
| `job_stream` | the pipeline with 2 tasks and a fault (terminal exception, publish error, duplicate or redrive), a stream that breaks once, fairness | `EndConsistent`; `EndFinal`; `StreamEnds` |
| `project_submission` | 2 requests with one or two files, valid or not, of equal names or not; 2 receives, one fault of any kind, fairness | `FailureCause`; `ClaimsHaveJobs`; `RequestsEnd`; `SubmittedIsSeen` |
| `llm_calls` | 2 processes, 2 tasks and 2 recordings, a cap of 3 calls, threshold 2, 1 retry, 3 receives, 6 errors, fairness | `OvershootBounded`; `LedgerExact`; `BreakerTrips`; `Settles` |
| `step_functions` | 2 executions, 3 tasks, 2 workers, concurrency 2, 2 retries, any 3 faults of 14 kinds, the same kind also repeatedly, fairness | `AnnouncedSound`; `OneMap`; `ExecutionEnds`; `FanOutDelivered` |
| `dataset` | 16 lists of uploads, 4 schemas, every template, 5 kinds of replies, symbols of 1, 2 and 3 tokens in windows of 4 that overlap by 2, turns of 10 | `NothingLost`; `OffsetsFaithful`; `TranscriptKept`; `ExportComplete`; `SuspectsFlagged` |

One run is violated, on a statement of the repository:

| Run | Property | Statement | What happens |
|---|---|---|---|
| `fan_in_lost` | `FanInAnnounced` | `stages/annotation.py:7-8, 218-219`: when every task finishes, `annotation.all_completed` is published; last tasks may finish concurrently | two open transactions each miss the other's batch; every batch is stored and nobody announces |

### Met on the way

Behaviours the models contain and that the properties above exempt or work
around; no run is spent on each.

Delivery and claims:

- A crash between commit and publish, or a database that refuses the release
  after a failed publish, loses the event: the redelivered copy finds the claim.
  The backlog names the usual answer, an outbox (`docs/LINEAR.md:105`).
- A handler that outlives its visibility timeout: the redelivered copy is
  acknowledged against the first worker's committed claim; that worker's publish
  then fails, and it releases the claim for a retry no message is left for
  (`workers/base.py:21-24` relies on the claims here).
- `run_export` returns normally after `defer`, so its message is deleted and
  nothing retries, though `stages/_runtime.py:145` releases the claim "so the
  event can be retried later".
- `annotation.all_completed` has no entry in `DETAIL_TYPE_TO_FAILED_STAGE`;
  once it is in the dead-letter queue `process_pipeline_failure` raises for ever
  and the job stays running. `annotation.task.completed`, which no handler needs,
  does have one: a redriven copy fails the export stage and the job, also of a job
  that is completed.
- `maxReceiveCount` failed deletes redrive a handled message; the DLQ worker has
  another claim name and fails the completed stage.
- The event of a project that was deleted, or whose submission never committed,
  circulates in the dead-letter queue: its handler and the DLQ worker both raise.

Statuses across hops:

- A fan-out retried after its tasks were done marks the completed stage running;
  `run_intake` guards itself against the same case (`stages/intake.py:62`).
- Failed publishes alone set a failed job to completed, or a completed one to
  failed, when there are several tasks. A task commits its batch, its publishes
  fail and release its claim, and it is redriven. The DLQ worker then fails
  annotation and the job (`services/pipeline_failure.py:77-79`). Another task
  counts all batches, completes annotation and announces
  (`stages/annotation.py:216-222`), and `run_export` sets the job to completed
  (`stages/export.py:129`). Either may come first, so a finished job may be failed
  as well. `Undisturbed` exempts failed publishes of the annotation stage for this
  reason.
- A fan-out whose publishes fail part of the way leaves its tasks at work. Once it
  is redriven the DLQ worker fails the job while they complete the stage.
- A second copy of an event, a publish of `pipeline.failed` that fails after the
  failure was committed, and a crash there all let a handler run for a job that
  is already failed, and set it to running or completed.
- An intake that runs again after the chain completed leaves the job running for
  ever. If it fails later, its failure may be skipped as a duplicate of the one
  the DLQ worker has recorded for the first copy.
- Only intake locks `jobs` before `job_stages`; every other handler locks them in
  the other order.

Submission and stream:

- `project.submitted` is published before the commit. Intake may find no job and
  fail; the failure record opens a transaction of its own, may find the job that
  was committed meanwhile, and mark a sound project as failed.
- Two uploads whose names sanitise to one file name overwrite each other.
- `schema_json` without a template is not validated at submission
  (`services/intake/templates.py:41`, against
  `services/planning/schema_templates.py:39`).
- The hook does not reconnect after a stream that ended in order without
  `job_complete` (`useJobStream.ts:129` and `147-151`).

Model calls:

- Preprocessing does not handle a breach of the cap: it is retried to the DLQ,
  and each time its usage rows are rolled back. The annotation worker handles it.
- A usage row that cannot be flushed is logged and swallowed, but its session is
  unusable from then on, and the labels it paid for are rolled back.
- An open breaker answers at once, so a message spends its receives while the
  recovery time runs. The half-open branch changes nothing a closed breaker with
  a count at the threshold would not do. The settings allow a threshold of 0;
  the module assumes at least 1.

Step Functions:

- The prepare task commits its claim and then loses its answer: the retry finds
  the event claimed, answers "skipped", and the execution succeeds with no task
  dispatched.
- A terminal failure, a redrive, a failed `SendTaskSuccess` and a prepare
  container that dies leave a token unanswered, and there is no timeout.
- A breach of the cap is answered "skipped".
- A prepare that fails three times, a message that cannot be sent and an
  announcement that cannot be published end the execution, and nothing marks the
  job: it is left running. `FanOutDelivered` counts a failed execution as an end
  that can be seen.
- The rule that starts an execution matches an event nobody publishes (section 2).
- `annotation.all_completed` has a random `event_id`, so export's claim could not
  recognise a second one; `OneMap` is what keeps it from happening.
- As in local mode, concurrent last tasks may leave the stage not completed.

Data:

- `_reconstruct_paragraphs` cannot be reached, though `segmentation.py:79` and
  `test_preprocessing_segmentation.py:44` describe its effect.
- A block that repeats gets the offsets of its first occurrence: the same text,
  another place (`OffsetsFaithful` does not tell the two apart).
- The overlap must be at least the tokens of a symbol less one for a cut symbol to
  survive in the next window (`OverlapSuffices`). The default settings are windows
  of 512 that overlap by 50 (`core/config.py:46-47`), which is enough for any
  symbol; the code refuses no smaller overlap, and with none a character that a
  window cuts is lost.
- A turn may span more than `max_turn_ms`, which `docs/TECH_DECISIONS.md:518` calls
  a soft maximum: an utterance of one word, a chunk of one (two words over more than
  two limits get half each), and the last chunk, which takes the words the division
  leaves over (`audio_segments.py:177-183`: of five words over 150 s it gets three,
  and 90 s). The test of a cut utterance has words that divide evenly
  (`backend/tests/test_audio_segments.py:96-110`). `TranscriptKept` bounds the turns
  that join several parts.
- A `.wav` job with a schema of its own gets document records in its export,
  without the audio fields.
- `coverage_pct` is rounded: one missing segment in more than 20000 shows as 100.
- A confidence of NaN is compared outside the `try` (`labeler.py:87`): the reply is
  not replaced by the fallback but retried to the DLQ.

Documents: `docs/ARCHITECTURE.md:163` names a mode `sequential` for
`ANNOTATION_ORCHESTRATION_MODE`, where `core/config.py:69` accepts `local` and
`step_functions`; the same document gives `processed_events` the key `event_id`,
the table has `(event_id, worker_name)`.

### Bounds

Two copies and two workers are the least that gives every race on a claim: one
holder and one waiter. A third copy would only queue behind the second. One DLQ
worker is enough because a second one meets the first only at the same
`try_claim`. One receive (`stage_deferred`) makes every raised handler a redrive,
two adds a retry. Each fault kind of `StageRun` happens once, publish errors twice
in `stage_benign` so that a completion and a failure publish can both fail. Three
tasks are the least with a first, a middle and a last dispatch and with a count
that can be wrong without being trivial.

`Pipeline` has two annotation tasks, the least with a task that finishes beside
another, counts its batch, fails after it or is failed with it. A fault may
repeat, and two are enough for each story of two hops above: a publish that fails
and is redriven beside a task that is not, a second copy and its failure, a
redrive and the record of it. One worker for each hop and each task: the races of
two workers on one claim are `StageRun`'s, and with a worker for each task all
tasks may be in their transactions at once. The runs leave out ambiguous
publishes, those that fail although the event got through: they combine a failed
publish with a second copy, both of which are in the runs, and triple the states,
because all that follows is repeated. The proofs include them, as they include any
number of tasks and faults (section 5). `JobStream` has one fault: a redrive or a
failure is enough for a terminal status that is undone, or not, while a stream is
open. `ProjectSubmission` has two requests because the race on the user row needs
two; projects meet nowhere else. In `LlmCalls` the cap is three calls of four, so
that it is breached with and without a concurrent call, and six errors are enough
to trip a breaker, to fail its probe and to spend the receives of a message. In
`StepFunctionsFanout` three tasks at concurrency two leave one task waiting for a
token, the second execution competes for the claim, and three faults use up the
retries of the prepare task. `Dataset` uses small windows and turns so that each
of its texts and recordings is cut (also inside a symbol of two and of three
tokens), and has one upload for each branch of the code (each reason to refuse,
blank, repeated, wide, silent and oversized content).

Symmetry is used in safety runs only; no property names a particular copy or
worker. `CHECK_DEADLOCK FALSE` stands in the configurations of
`project_submission`, `llm_calls`, `step_functions` and `dataset`, whose systems
do end; `StageRun`, `AnnotationStage` and `Pipeline` have a `Terminated`
step instead, so that a state that is stuck elsewhere is reported.

The domains of the variables are stated by one `TypeOK` in each of `StageRun`,
`AnnotationStage`, `Pipeline`, `ProjectSubmission`, `LlmCalls` and
`StepFunctionsFanout`. The first three have it checked by a run; for all six it is
proved.

## 4. Fairness

`FairSpec` of `StageRun` assumes weak fairness of `Receive(p)` and `Handle(p)`
for each process, because `run_forever` polls and handles in a loop and a
process that dies is started again, and of `Reappear(m)` and `Redrive(m)` for
each message, because visibility timeouts and redrive are timers of SQS. Nothing
is assumed about which disjunct of `Handle` is taken: a handler may fail
transiently each time, and then it is the receive count that makes the message
leave. No fault is ever obliged to happen, and budgets make them finitely many:
a publish that fails for ever cannot be distinguished from a broken bus.
`FailTransiently` is not budgeted in `StageRun`, the receive count bounds it; in
`AnnotationStage`, which has no receive count, it is. `AnnotationStage.FairSpec`
assumes weak fairness of `Handle(w)` only.

`Pipeline` assumes weak fairness of `Work(h)` for each hop, of `WorkDlq`, and of
the deadlock detector of Postgres; `JobStream` adds the poll loop and the hook's
timer (`Stream`). `ProjectSubmission` assumes weak fairness of a request's steps
and of the intake worker, and strong fairness of the DLQ worker for each
project: an event that can never be recorded is redelivered again and again, and
SQS, which hands out messages at random, does not hold up another one behind it
for ever. `LlmCalls` assumes weak fairness of each process and of the DLQ record;
neither `Elapse` nor a successful answer is ever obliged, so `Settles` holds for a
breaker that never recovers. `StepFunctionsFanout` assumes weak fairness of each
execution (a managed service) and of each worker. `Dataset` has safety only.

## 5. Proofs

Each theorem holds for every value of the constants of its module, under the
assumptions the module declares. Those that are more than the types of the
constants:

| Assumption | Why the code justifies it |
|---|---|
| `Stage` is intake, preprocessing, planning or export (`StageAssumption`) | the hops with one event in and one out; annotation has a module of its own |
| at least one message of `StageRun` parses (`MessagesAssumption`) | the hop's inbound event; without it there is no hop to speak of |
| `TaskCount \in Nat \ {0}`, `Tasks # {}` (`TaskCountAssumption`, `FanoutAssumption`) | planning raises when there is no segment (`services/planning/task_builder.py`), and `planning.completed` is refused without a task (`events/schemas/planning_completed.py:19`) |
| `Processes` and `Tasks` finite, `Processes` not empty; cap, price, threshold, receives at least 1 (`LlmAssumption`) | a cap must be positive (`core/config.py:111-117`); the threshold of 0 that the settings allow is excluded, see "Met on the way" |
| tasks have distinct completions, and the names of tasks, completions and hops differ (`TasksAssumption`) | events have ids of their own (`events/deterministic.py`); the names stand for ids and detail types |
| a symbol takes at least one token (`WideTakeSome`) | so do the encodings of `tiktoken`; how many is left open |
| uploads are lists of files with a size, a text and utterances; replies are lists of items (`UploadsAreLists`, `RepliesAreLists`) | the types of `services/intake/validation.py` and of what `labeler.py` parses; nothing is assumed of the texts, the times or the items themselves |
| `Overlap < ChunkSize`, `MaxTurn > 0`, `TaskSizes` naturals (`WindowsAdvance`, `TurnsLast`, `TaskSizesFit`) | the windows would not advance otherwise (`segmentation.py` refuses it); lengths and counts of the settings |
| a form is a non-empty sequence of files (`SubmissionAssumption`) | `files` is a required list (`api/routes/projects.py:36`), which `submit_project` goes through in order |

`StageRun` and `AnnotationStage`, one hop and the fan-out:

| Theorem | Statement | Argument |
|---|---|---|
| `StageRunProofs!TypeCorrect` | `Spec => []TypeOK` | inductive; the receive count stays within `MaxReceive` because `Deliverable` asks for less |
| `StageRunProofs!ClaimIsLock` | `Spec => []ClaimExclusive` | not inductive alone. `LockInv` adds that a process past its commit has its row in `claims`, and one inside its transaction does not: the winner of `try_claim` then sees no other owner, and only the owner deletes the row |
| `StageRunProofs!NoLoss` | `Spec => []NoEventLost` | `DeliveryInv`, as long as no lossy fault was spent: whoever handles a message holds it, a held message is invisible, a committed claim without a verdict belongs to a process that has yet to publish or release, and while no verdict is out some good copy is left undeleted. That no one else may hold a copy of the same message is what expiry breaks |
| `StageRunProofs!FailureStays` | `ASSUME Stage # "intake" PROVE Spec => []FailureRecorded` | `FailureInv`: either the job is failed, which preprocessing and planning never take back, or nobody has published or is about to publish a failure and no open transaction has read the job as failed, so that the first one to record a failure does write it; export publishes no failure at all |
| `StageRunProofs!DeferLeavesNothing` | `Spec => []DeferredUntouched` | `DeferredInv`: with the batches missing nobody gets past the claim, so there is no commit, and the DLQ worker has no stage to fail |
| `StageRunProofs!RowsFirst` | `Spec => []OutputAfterCommit` | `OutputInv`: a process about to announce completion has committed the rows; no step takes rows back |
| `StageRunProofs!KeepsContract` | `ASSUME Reliable, ~Defers PROVE Spec => ContractKept` | `Reliable` gives the lossy faults no budget. Initial states map to initial states; each step is `Store`, `Announce`, `Close` or a stutter, by `DeliveryInv` (an event worked on is open) and `OutputInv` |
| `AnnotationStageProofs!TypeCorrect` | `Spec => [](TypeOK /\ Working)` | `Working`: a handler past the claim works on an item, and the task handlers on a task |
| `AnnotationStageProofs!FanInSound` | `Spec => []AllCompletedSound` | `Counted`: a handler whose count reached `TaskCount` sees all tasks in the committed batches and its own, because a subset of `1..TaskCount` of that cardinality is all of it; batches are never deleted |
| `AnnotationStageProofs!NoTaskForgotten` | `Spec => []EveryTaskLabelled` | `FanOutInv`: until a crash or a failed reload, every task of an unfailed job is `UnderWay` (its batch or its event is there, or a fan-out that can be claimed, or a worker that carries it). It needs the claim as a lock, a message that goes back must find its claim free, and that a claimed task of an unfailed job has its batch |

`Pipeline` and `JobStream`, the chain and its reader:

| Theorem | Statement | Argument |
|---|---|---|
| `PipelineProofs!TypeCorrect` | `Spec => []TypeOK` | with `LocksBounded`: a transaction takes the locks of its `LockOrder` one after the other and no more |
| `PipelineProofs!DeadlocksAreIntakes` | `Spec => []OnlyIntakeDeadlocks` | from the types: two transactions that wait for each other hold one lock each and wait for a second; all but intake's take the job's row second and another row first |
| `PipelineProofs!ChainIsSound`, `CompletedIsSound` | `Spec => []ChainSound`, `Spec => []CompletedSound` | `ChainInv`: a handler about to publish has its rows (`Announced`), a task that saw itself last sees every other batch committed (`LastCounted`), rows are never taken back, and the last one to write "completed" is export |
| `PipelineProofs!StatusesAlwaysAgree` | `Spec => []StatusesAgree` | `SingleInv`: without the exempted faults the job is in one of three forms (`OneMessage`): at rest; with one message of the line of hops, which is queued, buried, worked on, announced or recorded, each of which says what every status is; or `Annotating`, where each task has its message in one place (`TaskPlace`), at most one has counted every batch, and the stage's status follows from whether that one has committed and from whether any has failed |
| `PipelineProofs!FailureIsFinal` | `Spec => FailureFinal` | from `SingleInv`: no hop of the line is at work on a failed job, and of its tasks one has no batch (`Failed`), so that no other can be the last and wake export |
| `JobStreamProofs!EndIsConsistent` | `StreamSpec => []EndConsistent` | `ExportInv`: export completes its stage together with the job, the stage is pending until then, and only a redriven `annotation.task.completed` fails it. So a "completed" read first is borne out by the stages read later, but for that redrive. `PipelineUndisturbed` carries the pipeline's theorems over |
| `JobStreamProofs!EndIsFinal` | `StreamSpec => []EndFinal` | the statuses of an undisturbed job do not change once it is completed or failed (`TerminalFrozen`, from `SingleInv`), neither between the two reads nor afterwards |

Beside the chain:

| Theorem | Statement | Argument |
|---|---|---|
| `StepFunctionsFanoutProofs!AtMostOneMap` | `Spec => []OneMap` | `ClaimInv`: one prepare transaction is open at a time and has found no claim, and whoever is past it (`Past`) has committed the claim, which is never released |
| `StepFunctionsFanoutProofs!AnnouncedIsSound` | `Spec => []AnnouncedSound` | `AnnouncedInv`: a task is claimed, passed over or answered only with its batch committed or the job failed (`Done`), and `Done` is for good; what a worker has counted is committed but for its own batch |
| `StepFunctionsFanoutProofs!TypeCorrect` | `Spec => []TypeOK` | with `SentFirst` (tokens in hand are of tasks sent) and `Waited` (finitely many are open, so that a dispatch adds one) |
| `LlmCallsProofs!AThresholdTrips` | `Spec => BreakerTrips` | `BreakerInv`: a closed breaker has counted at least as many failures as there were in a row, and a call is made only past a closed breaker or as a probe |
| `LlmCallsProofs!OvershootIsBounded` | `Spec => []OvershootBounded` | `Headroom`: of the processes that passed their last look at the cap and have yet to commit (`Committing`), one may bring its whole transaction and each of the others one call, and with these the ledger stays below the bound |
| `LlmCallsProofs!LedgerFollowsPayment` | `Spec => LedgerFollows` | `CallInv` (the open rows are what was paid) and `Unpaid` (a message that is not done has nothing accounted) |
| `LlmCallsProofs!TheLedgerIsExact` | `Spec => []LedgerExact` | the sum over the messages grows with each of these steps by what one message adds (`SumInv`); a sum over a finite set does not depend on the order in which the library's recursion takes its elements (`SumRule`) |
| `LlmCallsProofs!TypeCorrect` | `Spec => []TypeOK` | part of `CallInv` |
| `ProjectSubmissionProofs!ClaimsOfJobs` | `Spec => ClaimsHaveJobs` | `HandlerInv`: a handler that has locked its job's row has a job, because a delete waits for that lock; a failure is recorded only of a job that was found |
| `ProjectSubmissionProofs!FailuresHaveCauses` | `Spec => []FailureCause` | `CauseInv`, without faults: only an event that was taken early, or whose job will never be there, comes to be recorded; and `FilesKept`, the files a request saved are there for intake |
| `ProjectSubmissionProofs!TypeCorrect` | `Spec => []TypeOK` | `Submission`: the files are saved in order, and one transaction at a time inserts the user |

`Dataset`, the data from upload to export:

| Theorem | Statement | Argument |
|---|---|---|
| `DatasetProofs!DatasetInvariant` | `Spec => []IInv` | `IInv` says for each phase what the data are: accepted uploads (`Accepted`), rows that are those of each asset (`Segmented`), no labels yet (`Unlabelled`), tasks that share the rows out and batches that are what their reply made them (`Planned`), an export that is their merge (`Exported`). The stages keep what earlier ones stored, so the rest is about the operators |
| `DatasetProofs!NothingIsLost` | `Spec => []NothingLost` | with `OverlapSuffices`, the premise of the property: an embedding of the text's symbols into those of the segments, block by block. A window that ends inside a symbol leaves it to the next window, which starts at or before the symbol's first token, because it goes back by all of its tokens but one (`WindowsKeep`). The greedy match of the property finds an embedding whenever there is one (`WithinMatched`) |
| `DatasetProofs!OffsetsAreFaithful` | `Spec => []OffsetsFaithful` | `Find` returns a place where the content stands, and what stands in a block stands in its text (`Finds`, `OccursWithin`, `BlocksOccur`) |
| `DatasetProofs!TranscriptsAreKept` | `Spec => []TranscriptKept` | grouping utterances into turns, and cutting turns, neither adds, drops nor moves a word (`GroupsHold`, `PartsHold`); a turn of several parts is closed before it exceeds the limit |
| `DatasetProofs!ExportsAreComplete` | `Spec => []ExportComplete` | each row is in exactly one place of one task (`TasksShareOut`), so the merge finds one set of labels for it, and `InOrder` lists the rows once (`InOrderLists`); times come from recordings because a call template accepts nothing else (`AudioDomain`), and no turn is blank, as the report would flag it (`WordsHeard`) |
| `DatasetProofs!SuspectsAreFlagged` | `Spec => []SuspectsFlagged` | the confidence stored for a batch is the least of its items (`LabelBatchLabels`), and every row of a batch below the threshold is listed (`QcReports`) |

These are theorems about loops over data of any length. The prover takes no
induction scheme of the library, whose parameter is an operator. The lemmas use
two facts that need none: a recursive function is any function that satisfies
its equation (`JoinsExist`, `SlidesExist`, `GroupsExist`), and a set of numbers that
contains 0 and the successors of its members is all of `Nat` (`Induct`, from
`Least`, which is the well-foundedness of `<`); the set is that of the lengths for
which the claim holds.

Each inductive invariant above was checked by TLC on the instance of its run as
well.

The hypotheses. `Reliable` and `~Defers` are needed: an expired visibility
timeout and a deferred export, both under "Met on the way" in section 3, break
the contract. So is `Stage # "intake"`: intake sets the job running, so a second
copy of its event that succeeds after the failure of the first one takes the
failure back; when its publish then fails until it is redriven, the DLQ worker
finds its claim and records nothing ("Statuses across hops" in section 3).
`OverlapSuffices` stands in `NothingLost` itself, `Undisturbed` in `StatusesAgree`,
`FailureFinal` and `EndFinal`: what happens without them is under "Met on the way",
too.

Model-checked only: `Drains`, `DlqRecords`, `FanInHappens`, `Settles` (of
`Pipeline` and of `LlmCalls`), `StreamEnds`, `RequestsEnd`, `SubmittedIsSeen`,
`ExecutionEnds` and `FanOutDelivered`. They are liveness under fairness, which,
like `ENABLED`, is out of the prover's reach. Every other property of the
passing runs is stated by a theorem above. `FanInAnnounced` is violated.
`JobStream` and `Dataset` state no `TypeOK`, which no proof needs.

## 6. What is left out, and reservations

- `StageRun` has one event and one hop; the statuses that hops share are
  `Pipeline`'s subject, and only `Pipeline` has the row locks of `jobs` and
  `job_stages`. A database error while claiming or loading is `Begin` followed by
  `FailTransiently`.
- In `AnnotationStage`, `Pipeline` and `ProjectSubmission` a terminal failure is
  recorded in fewer steps than in `StageRun`.
- `EveryTaskLabelled` exempts crashes and `WrapFails`: after the fan-out's claim
  is committed the job is loaded again (`stages/annotation.py:161`), and an error
  there leaves the claim behind, so the redelivered event is skipped and no task
  is dispatched. `FanInAnnounced` exempts in the same way what "Met on the way"
  describes.
- `Undisturbed` in `Pipeline` exempts second copies, crashes, redriven messages,
  ambiguous publishes, failed publishes of `pipeline.failed` and those of the
  annotation stage. `StatusesAgree`, `FailureFinal` and `EndFinal` say nothing of a
  job that met one of them; `ChainSound`, `CompletedSound`, `OnlyIntakeDeadlocks`
  and `EndConsistent` hold for it as well.
- `Settles` exempts a lost fan-in (`LostFanIn`), which the run `fan_in_lost` shows,
  and an intake whose event the dead-letter queue has recorded, which may run
  again and leave the job running.
- `BatchesReady` in `StageRun` is a constant: whether export finds its batches
  does not change during a behaviour. `Pipeline` shows that in local mode it
  always does (`ChainSound`).
- The queue URL that a receive error forgets (`workers/base.py:114`) is not
  modelled: the `RuntimeError` of the next receive ends the worker, which is a
  `Crash`.
- A body without a `detail` is not modelled: the bus always sends one. The
  retention of the dead-letter queue (14 days) is not modelled.
- A file lost after intake has read it, and a PDF whose extraction raises, are not
  modelled; the result of an extraction is an arbitrary text.
- Content sniffing, path handling, back-off delays, prompts, export file formats,
  timestamps, logging and tracing are abstracted or left out. So are the read-only
  routes, the pages of the frontend, migrations and provisioning: they change no
  state the properties speak of.
- Answers of language models and of the recogniser are nondeterministic.

## 7. Open work

1. An abstract specification of the annotation stage (all batches, then the
   announcement, at most once) that `AnnotationStage` and `StepFunctionsFanout`
   both implement, with a refinement proof for each.
2. `Pipeline` as a composition of hops that each keep a contract like
   `StageContract`'s.
3. A module for the consumer loop, if the queue URL is to be resolved again after
   an error.
