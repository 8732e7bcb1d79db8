# ViralForge: formal models

TLA+ specifications of ViralForge, their TLC configurations and the TLAPS
proofs about them. ViralForge finds source videos, cuts and reviews short clips
and publishes them; it is a FastAPI service, a Discord bot, Celery workers and
one Celery beat over a PostgreSQL database, with Redis as the broker.

All durable state is rows of the database. There are almost no row locks (the
TikTok credential refresh takes one) and few version columns (media assets and
content items), and sessions keep their copy of a row for as long as they live
(`autoflush=False, expire_on_commit=False`, `common/db.py:17`). So what can
go wrong is nearly always of one kind: a handler or a task decides on a copy of
a row and writes over what someone else committed since. The models keep that:
an actor *loads* in one step and *commits* in a later one, and a commit writes
the columns the code assigns, over the row as it is then. What does keep
concurrent commits apart are unique constraints, and the models keep those too.

Paths of code are relative to `src/app/`, those of documents to `src/`; line
numbers without a file are those of the file the paragraph is about.

## Inventory

| Component | State | Operations | Talks to | Hard behaviour | What makes it correct |
|---|---|---|---|---|---|
| YouTube publishing (`publishing/service.py`) | `publish_requests`, `publish_attempts`, `publication_status` of clips | request, confirm, cancel, execute, due tick | API and bot (calls), broker (messages), YouTube | stale copies, two workers on one request, redelivery, crash during an upload, lost answers, retries | attempts form a gapless, append-only ledger; nothing unconfirmed is uploaded; a success is real; planned work is executed |
| TikTok publishing (`publishing/service.py:402-700`, `tiktok.py`) | the same rows with INITIALIZING, TRANSFERRING, PROCESSING, UNKNOWN and operator completion | request, confirm, cancel, transfer, poll, complete a draft | TikTok | uncertain outcomes, poll against operator, crash in a transfer, limits counted before the insert | an uncertain outcome is never retried, only resolved |
| TikTok connections (`publishing/service.py`, `credentials.py`, OAuth endpoints) | destination accounts, connection states, an encrypted file of tokens, OAuth states | authorize, callback, refresh, disconnect | TikTok, the file, beat | file first and database second, two processes writing one file, one-time tokens | a connected destination has a token that TikTok still takes |
| Production (`production/service.py`) | projects, source candidates, clips, posting queue | create, choose, accept and reject sources, download, render, decide on clips | yt-dlp, ffmpeg, analysis | numbers by max + 1, stale statuses, redelivery | what was accepted is fetched; numbers unique |
| Analysis (`analysis/service.py`) | analysis runs, stages, facts | request, run, cancel, rerun | production, opportunities, ffmpeg, whisper | cancellation against completion, redelivery into a half-done run | facts stored once; detection reads whole facts |
| Clip opportunities (`opportunities/service.py`) | windows of the video, generation runs, opportunities, their history | request, detect, approve, reject, render | analysis, production | superseding against deciding, duplicate renders, windows at the end of a video | decisions are not overwritten by older ones; a clip for what is approved, once; windows can be cut |
| Content packages (`content_packages/service.py`) | packages with status, version and history | generate, edit, approve, reject, regenerate | provider, corrections | versions compared on copies, crash in GENERATING | gapless history; what is approved was reviewed |
| Media previews, retention, rendered media (`media_preview`, `rendered_media`) | assets with a version column, files, grants, inspections, holds | issue, access, extend, hold, inspect, cancel, expire | publishing states, storage | file deleted before the commit, hold taken and released around an inspection | media that is held or needed is kept, and reclaimed in the end otherwise |
| Corrections (`corrections/service.py`) | plans, their actions, revised clips | plan, select, submit, confirm, render, inspect, adopt | rendered media, production, packages | redelivery of a render, cancellation against render | one revision per plan |
| Autopilot (`autopilot/service.py`) | global control, policies, decisions, exceptions, slots | set control, update policy, decide, open exceptions, reserve a slot | production, the two ticks | versions compared on copies, check then insert | a stop is lifted only by someone who saw it; decisions follow a policy that was in force |
| Operations (`operations/service.py`) | operator tasks, alerts, reports | refresh, write reports, deliver | every queue above, the bot | check then insert, post first and record second | what is recorded as delivered was posted |
| Ingestion, feeds, uploads (`ingestion`) and content lifecycle (`content/lifecycle.py`) | items with a version column, jobs, files, feed subscriptions | submit a link, upload, register, validate, run a feed, transition | HTTP, storage | coroutines that hold transactions over awaits, duplicates, leases | nothing comes in twice; only legal transitions |
| Discovery (`discovery/service.py`) | channels, runs, found items | poll, approve, reject, make a project | providers, production | overlapping polls, approval in two commits | one project per video |
| Manual publishing (`manual_publishing`) | posts, checkpoints | record, add metrics, skip, snooze | packages | package version changed meanwhile | posts name an approved package version |
| Discord business platform (`discord_business`) | server resources, panels, roles, grants, tickets, announcements, cases | set up, repair, reset, publish, accept, select, open, move, announce, moderate | Discord | await first, commit second; handlers interleave at every await | rows follow what Discord has |
| HTTP API and bot (`api.py`, `discord_bot.py`) | sessions only; views computed from rows | load, commit, send; dashboards | every service | what a screen offers against what the service takes | a control leads on; nothing that waits for a decision is hidden |
| Celery worker and beat (`worker.py`) | messages | deliver, redeliver, tick | broker | crash, redelivery, uncaught exceptions | a message is not lost with its worker |
| AI producer (`producer/service.py`) | quality reports, recommendations with status and version | report, advise, note, approve, reject | inspections, analysis, packages | reports numbered from a look-up, an inspection reported in a later commit, versions compared on copies | a completed inspection is reported; what was decided stays decided |
| Brands and accounts, analytics, configuration, database, logging | memberships, snapshots, settings | look-ups, calculation, appending | every handler | none of their own | guards only |

## Modules

```
CeleryWorkers ── Production ── VideoAnalysis ── ClipOpportunities ─┐
      │              └── Autopilot                 │ refines       │
      │                                     OpportunityReview      │
      ├── ContentPackages ── ManualPublishing ─────────────────────┤
      ├── MediaRetention ── Corrections (with the two above) ──────┼── Pipeline ── Console ── MCPipeline
      │              └── ProducerAdvice ───────────────────────────┤                           │
      ├── Ingestion, Discovery, Community, TikTokConnections ──────┤                           │
      └── Operations (with ClipOpportunities, ContentPackages) ────┘          ClipWindows ─────┘ (ClipWindowsProofs)

Publishing ── MCPublishing, PublishingProofs      Publishing refines PublishLedger
TikTokPublishing ── MCTikTok, TikTokProofs

WorkersProofs ── CopiesProofs, ReviewProofs, OfficeProofs ── PipelineProofs (with Console)
```

| Module | Role |
|---|---|
| `Publishing`, `PublishLedger` | YouTube publishing, and abstractly what it promises about confirmations, attempts and videos |
| `TikTokPublishing` | TikTok publishing |
| `CeleryWorkers` | the broker, workers and handlers that all other components share |
| `Production`, `VideoAnalysis`, `ClipOpportunities` | a project from its source to rendered clips |
| `OpportunityReview` | abstractly, what the review of opportunities promises |
| `ClipWindows` | the windows of the video that opportunities are made of |
| `ContentPackages`, `MediaRetention`, `Corrections` | texts, media and revised versions of a rendered clip |
| `ProducerAdvice` | quality reports on clips, recommendations and what operators decide on them |
| `Operations`, `Autopilot` | the office: tasks and reports, controls and decisions |
| `Ingestion`, `Discovery`, `ManualPublishing` | content that comes in, videos that are found, posts made by hand |
| `Community`, `TikTokConnections` | the Discord server, the connection to TikTok |
| `Pipeline` | all of these over one broker, one set of workers and one set of handlers; types of sessions; fairness |
| `Console` | what the Discord console shows of the rows and offers to do |
| `MCPublishing`, `MCTikTok`, `MCPipeline` | the small instances for TLC |
| `PublishingProofs`, `TikTokProofs`, `ClipWindowsProofs` | proofs about the modules they are named for |
| `WorkersProofs` | proofs: what the steps of handlers and workers do to their sessions |
| `CopiesProofs`, `ReviewProofs`, `OfficeProofs` | the inductive invariants of `ContentPackages`, `MediaRetention`, `Corrections` and the reports of `ProducerAdvice`; of `ClipOpportunities`, `VideoAnalysis` and the source of `Production`, and what of these is under way; of `Autopilot`, the recommendations of `ProducerAdvice`, `Discovery`, `ManualPublishing`, `Operations`, `Ingestion`, `Community` and `TikTokConnections`; each component by itself |
| `PipelineProofs` | proofs: that the steps of `Pipeline` keep those invariants, and the theorems about it and about what `Console` shows of it |

### Publishing

State and code:

| Variable | Code |
|---|---|
| `row` | `publish_requests`; `ABSENT` before `request_publish`, `confirmed` is `confirmed_at is not null`, a point of time is `NONE`, `LATER` or `DUE` |
| `attempts` | `publish_attempts` by request and `attempt_number`; a FAILED row is named by whether its category is retryable |
| `published` | `production_clips.publication_status = "PUBLISHED"` |
| `cleared` | what `_assert_preconditions` would answer for the clip now |
| `messages` | `viralforge.execute_publish_request` messages in the broker |
| `hand` | one handler call in progress per operator: loaded to confirm, to cancel, or confirmed and about to send |
| `task` | one Celery task per worker: its session's copies, the rows it has left, the message it has not acknowledged |
| `posts` | the videos YouTube has, by the attempt that uploaded them |
| `crashes` | how many crashes the run has used up |

Actions and code: `RequestPublish` (`request_publish`), `ReviewDecision`
(`set_review_gate` and everything else that changes the preconditions),
`LoadForConfirm`/`CommitConfirm`/`SendTask` (the confirm endpoint: load, commit
in `confirm_publish`, `send_task`), `LoadForCancel`/`CommitCancel`
(`cancel_publish`), `HandlerFails` (the process ends, or the broker refuses),
`Deliver` and `StartTick` (the two tasks begin and load their rows), `Skip`,
`Refuse`, `PassPreconditions` (the early returns and errors of
`execute_publish`), `StartAttempt`/`AttemptExists` (the commit that opens an
attempt, and its `IntegrityError`), `YouTubeAccepts` (external),
`UploadFails`/`UploadSucceeds` (the two ends of `execute_publish`), `Crash`.

Points where the model follows the code closely and a shorter one would not:

- The tick loads its batch in one query, executes it from those copies, retries
  first (`next_attempt_at` sorts first and is null for scheduled requests), and
  loses the rest of its batch when one execution raises.
- `execute_publish` checks the copy; only the unique constraint on
  `(publish_request_id, attempt_number)` looks at the table.
- `next_attempt_at` is set and never cleared, so a request can be tried more
  often than `publishing_max_attempts` and after a terminal failure.
- A second confirmation commits over whatever the row says by then.
- `Crash` covers a lost worker (the message comes back, `task_acks_late`) and an
  exception other than `PublishingError` (it does not).

Abstractions: which failure category it was is cut to retryable or not; media
validation, metadata, percentages, audit events and the posting-queue columns
are left out, as are roles, brand checks, the trusted-HTTPS check and
`publishing_enabled = False` (then nothing is executed). A request belongs to a
YouTube destination.

### PublishLedger

What publishing promises once rows, sessions, messages and workers are
forgotten: the requests that are confirmed, the state of every attempt, the
videos. `Confirm`, `Open` (the next number, confirmed requests only), `Post`
(only under an open attempt) and `Close` (once; as SUCCEEDED only with a video).
`Publishing` instantiates it as `Ledger`, with `confirmed` mapped to the requests
whose row is confirmed and `attempts` and `posts` to themselves; the property
`ImplementsLedger` is checked by TLC and proved.

### TikTokPublishing

The same rows and the same way of deciding on copies; what differs is that an
upload has an outcome TikTok tells only later, or never.

| Variable | Code |
|---|---|
| `row` | `publish_requests` of a TikTok request: `provider_mode`, `remote_post_id` (the attempt whose `publish_id` it is), `posted` for `operator_completion_state = POSTED` |
| `attempts` | `publish_attempts`, by request and `attempt_number`; polls do not touch them |
| `remote` | what TikTok has of a transfer: opened, wholly received, decided |
| `cleared` | what `_assert_preconditions` would answer for the request now |
| `messages` | `viralforge.execute_tiktok_publish_request` messages in the broker |
| `hand` | one handler call in progress per operator: confirm, send, cancel, record a draft as posted or rejected |
| `task` | one transfer per worker, with its copy of status and count |
| `poll` | one status refresh per poller, with its copy of status, count and `publish_id`, and TikTok's answer once it has it |
| `crashes` | how many crashes the run has used up |

`RequestTikTokPublish`, `Load` with `CommitConfirm`, `SendTask`, `CommitCancel`
and `CompleteDraft` are the endpoints; `Deliver`, `TurnAway`,
`PassPreconditions`, `StartAttempt`, `AttemptExists`, `Initialize`,
`TransferFails`, `TransferSucceeds` and `Crash` are
`execute_tiktok_publish` (three commits: INITIALIZING, TRANSFERRING with the
`publish_id`, and the outcome); `TickPoll`, `RefreshRequest`, `AskTikTok`,
`PollFails` and `CommitPoll` are `refresh_tiktok_status`, called by the beat task
and by the endpoint; `TikTokReceives` and `TikTokDecides` are external.

What an error becomes (`ErrorOutcomes`) follows `tiktok.py`: a failure before the
transfer, a failure or an uncertain outcome during it, an uncertain outcome only
once TikTok has the last chunk. A poll writes a status only if it differs from
its copy's, because an unchanged attribute is not part of the UPDATE.

Abstractions: the duplicate, daily, pending-draft and interval limits are
left nondeterministic (a request may stay unmade); chunks are one step; the
metadata and privacy options are left out. A request is taken to have a token
that works; whether it has is what `TikTokConnections` is about.

`VideoAsRecorded` relates the rows to TikTok: at most one video per request,
FAILED has delivered nothing, SUCCEEDED is on TikTok or a draft of which an
operator said so.

### CeleryWorkers

| Variable | Code |
|---|---|
| `messages` | undelivered broker messages: a task's name and arguments, and how many |
| `session` | what each handler (`Operators`) or worker process (`Workers`) is doing: its operation, the place in it, the message it has not acknowledged, its copies of rows |
| `lost` | messages whose task ended in an exception that it does not catch |
| `faults` | how many crashes, redeliveries and uncaught exceptions there were |

`Receive`, `Begin`, `Goto`, `End` are how a task or handler gets on; `Crash`
(the process dies: `task_acks_late` brings the message back), `Redeliver` (the
visibility timeout of the broker passes while the task goes on) and `Uncaught`
(an exception: the message is acknowledged) are what befalls them. `Updated` is
SQLAlchemy's UPDATE: only columns that changed in the copy are written. Every
module below extends this one, and its steps have the same shape: `LoadFor…`
takes the copies and checks the guards that the code checks on them, the next
step commits, the last sends the message.

### Production, VideoAnalysis, ClipOpportunities, OpportunityReview

| Variable | Code |
|---|---|
| `project` | the `production_projects` row: status, selected candidate, file, whether `last_error` is set |
| `clips` | `production_clips` in the order of `clip_number`: opportunity, whether rendered |
| `analysis` | `video_analyses` of one version and its facts: status, how often the transcript is stored, whether the facts are those of one run |
| `run`, `opportunity`, `versions` | `opportunity_generation_runs`, `clip_opportunities` (review status, version, clip), `clip_opportunity_versions` |

`CreateProject`, `ResolveSources`, `LoadForDecision` with `AcceptSource` and
`RejectSource`, `LoadForChoice` with `ChooseSource` are `create_project`,
`resolve_project_sources`, `accept_source`, `reject_source` and `choose_source`;
`TakeFetch` … `AttachSource`, `DownloadFails` and `ReturnDownload` are
`download_source`, in the handler and in `process_accepted_source`;
`LoadForClips`, `GenerateClips` and `InsertClip` the first clips and the
numbering. `RequestAnalysis`, `CancelAnalysis` and the task from `TakeAnalysis`
over the stages `AnalyseVideo`, `WriteTimeline`, `WriteTranscript`, `WriteText`
to `CompleteAnalysis`, each a commit after which the worker refreshes its copy,
or `AnalysisFails`, are `analysis/service.py`. `RequestGeneration`,
`TakeDetection`, `StartGeneration`, `Detect`, `CommitGeneration` (new
opportunities, superseded ones, history rows and the run in one commit),
`LoadForReview`, the decisions, and the render (`clip_number` as max + 1, the
clip's commit, the opportunity's commit) are `opportunities/service.py` and
`render_clip_window`. What a provider, ffmpeg or whisper computes is left
nondeterministic or out.

`OpportunityReview` forgets sessions, runs and messages: opportunities are
proposed, decided on as often as people like, superseded while pending and then
for good, and given one clip while approved; each change is the next entry of a
history that is never rewritten. `ClipOpportunities` instantiates it, and
`ImplementsReview` is its `Spec`.

### ClipWindows

`duration` of the video, `waiting` the bag of windows that were noticed in its
transcript, segments and events, `merged` the list that the loop builds,
`noticed` how many there were. `Notice` is `_bounded_window` on an anchor (a
transcript may overshoot the video, so its ends range beyond it), `FallBack` the
window made when there is none, `TakeWindow` the next in order, merged with the
last or appended (`RuleOpportunityProvider`). Times are whole units; the code
rounds to a millisecond. Every `Moments` of `ClipOpportunities` is one of these
windows, so the two meet in what they are about and share no state.

### ContentPackages

`package` (`content_packages` by generation: status, version, the version that
wrote its fields) and `packageVersions` (the history). `RequestPackage` (the
latest is made STALE under the next version and the next is queued, in one
commit that a constraint may refuse: `RequestCollides`), `TakePackage`,
`StartPackage`, `WritePackage` or `PackageFails` (the task), `ReviewPackage`
(edit, approve, reject) or `ReviewCollides`, and `SelectRevision`, with which a
corrected clip outdates every package.

### MediaRetention

| Variable | Code |
|---|---|
| `asset` | the `media_assets` row of the clip: kept, due, held and by whom (`administrative_hold` is `hold # "NONE"`; `BOTH` is an operator's hold accepted on top of an inspection's, which the column does not show); it has a version column |
| `file` | whether the file is in storage |
| `grant`, `approval`, `publishing` | the latest grant, the clip's approval, what its publish request came to |
| `inspection` | `rendered_media_inspections` by version |
| `behind` | actors whose copy of the asset is older than the row: their UPDATE raises `StaleDataError` |

`IssueGrant`, `GrantEnds`, `AccessMedia`, `ExtendRetention`, `DeadlinePasses`,
`SetHold`, `DecideClip`, `PublishingMoves`; the retention pass `TakeCleanup` or
`CallCleanup`, `Judge` (`retention_eligible` and its copies), `DeleteFile`,
`DeletionFails`, `RecordDeletion`; inspections from `RequestInspection` and
`CancelInspection` to the task's `StartInspection` (with its hold), `OpenMedia`,
`Stage`, `EndInspection` and `Release` (the `finally` clause).

### ProducerAdvice

`qualityReports` (`clip_quality_reports`: number and inspection, which is all that
is kept of the evidence), `advice` (`producer_recommendations`: what about, status,
`review_version`). `CallReport` of a handler, `TakeReport` of a worker and
`ReportInspection` at the end of an inspection's task (`Completed` of
`MediaRetention`, also when the inspection was complete before) look up the latest
number, then `ReadEvidence` finds the newest completed inspection, then
`CommitReport` inserts, or collides. `AfterReport` goes on to the clip's
recommendations where the code does. `CallAdvice`, `TakeAdvice`, `CommitAdvice`:
look for recommendations, add two when there are none. `LoadAdvice` and `SaveAdvice`
are the three endpoints and buttons that decide and annotate. The focus starts with
the messages of an analysis and a render in the broker; what sends them is left out.

### Corrections

`plan` (`clip_correction_plans`: status, whether anything is selected, the
result), `revisions` (clips rendered for a plan), `reinspected`. `CreatePlan`,
`SelectAction`, `SubmitPlan`, `ConfirmPlan` with `SendCorrection`, `CancelPlan`,
`ComparePlan`, `AdoptRevision` (which also runs `SelectRevision` of
`ContentPackages`), and the task: `TakeCorrection`, `StartCorrection`,
`RenderRevision` (which takes a clip number of `Production`), `CorrectionFails`,
`SendReinspection`, `InspectRevision`, `CompletePlan`.

### Operations and Autopilot

`reviewTask`, `raised`, `report`, `posted`: the REVIEW_CONTENT task, what else is
open, reports and how often Discord has them. `Refresh` is
`refresh_operational_state` (one commit, `RefreshFails` when a constraint
refuses it), `LeaveQuiet` the quiet hours, `CreateReports` the briefings,
`LoadReports`, `PostReport`, `PostFails`, `MarkDelivered` the bot's loop.

`control`, `policy` with every content it has had (`policies`), `decisions`,
`exceptions`, `slot`. `CommitControl` and `CommitPolicy` write what differs from
their copies; `Consider` and `EnterDecision` are `decide` with the exception it
opens, one per object (`DecisionCollides`), also for the two ticks
`advance_eligible_projects` and `execute_due_scheduled_content`;
`ReserveSlot` is `reserve_slot`.

### Ingestion, Discovery, ManualPublishing

`content`, `job`, `storage`, `feed`, `published`: items by the key or entry they
came by, jobs, uploaded files, one subscription, the publisher's document. The
API's event loop is in the model (`LoopFree`): uploads and feed handlers are
coroutines, their database calls block it, and a transaction that is open over
an await can block it for good (`RegisterFeed`). `SubmitUrl`, `CheckUrl`,
`FetchUrl`, `StoreUrl`; `SubmitUpload`, `ReceiveUpload`, `StoreUpload`;
`FinishValidation`, `CommitFeedStatus`, `StartRun`, `FinishRun`, `RunFails`;
`CommitTransition` under the version column.

`media`, `poll`, `due`, `made`: found items, runs, schedule, projects by URL.
`StartPoll`, `PollAnswers`, `InsertFound`, `InsertCollides`, `PollFails` (by hand
or in the tick), `LookForProject`, `MakeProject`, `ProjectCollides`,
`ApproveMedia` (the second commit of an approval), `RejectMedia`.

`post`, `checkpoint`: `RecordPost` with the package version it finds,
`CommitMetrics`, `UpdateCheckpoint`.

### Community

The Discord server and what the bot has recorded of it: `server` (things by id),
`obsolete`, `guild`, `registry`, `panel`, `member`, `ticket`, `notice`, `cases`.
The bot is one event loop: a handler runs alone between two awaits. So an action
ends where the code awaits Discord, and commits stand after the last await, as in
the code. `Enter` is the first INSERT of a server's row, which is flushed and
held over awaits: a second handler's INSERT then waits in a blocking call, and
the loop with it (`Hung`, ended by `RestartBot`). `PlaceItem` … `CommitSetup` is
`apply_server_plan`; `DeleteObsolete`, `DeleteReplaced`, `CommitReset`,
`ResetPreview` the cleanup; `PostPanel`, `CommitPanels`; `GiveRole`,
`CommitAccept`; `ChangeRole`, `CommitRoles`; `OpenChannel`, `FileTicket`,
`MoveTicket`; `SendNotice`, `CommitNotice`; `OpenCase` and the appeals.

### TikTokConnections

`account`, `connection`, `store` (the encrypted file), `tiktok` (tokens issued
and exchanged), `oauth` (states not yet used). `LockAccount` is the one
`FOR UPDATE` of the code, which does not refresh columns that were loaded before;
`OpenFile` and `WriteFile` read and write the whole file under a lock that one
process has for itself; `ExchangeTokens`, `RecordRefresh`, `Degrade`;
`RevokeTokens`, `RecordDisconnect`; `RecordState`, `ExchangeCode`,
`VerifyConnection`, `RecordCallback`.

### Pipeline, Console, MCPipeline

`Pipeline` joins the steps of all components with what they leave unchanged and
adds `Fault`, `Beat`, `Time` and the sessions' types. `Console` has no state: it
defines what `ProductionRepository.dashboard`, `ProjectDashboardView`,
`GuidedProjectView` and `OperatorWorkspaceView` compute from the rows, and states
that what they offer fits what the services take.

`MCPipeline` cuts the product to what can be explored: a behaviour has a `focus`,
the part of the system in which people act, and a number of handler calls, while
workers carry the project through all stages. Parts that follow others start
where their own work does, in states the code can be in (`ReviewedInit`,
`PlannedInit`, `WrittenInit`, …).

## Runs

Constants of the code: `publishing_max_attempts` is `MaxAttempts`, the tick's
`limit(10)` is `TickLimit`, `tiktok_max_status_poll_attempts` is
`MaxStatusPolls`; the opportunity settings are those of `ClipWindows`. Everything
named `Max…` otherwise bounds the exploration: attempts, messages of a kind,
crashes, rows, versions, handler calls.

| Run | Instance | Checks | Shows |
|---|---|---|---|
| `publishing_safety` | 1 request, 2 operators, 2 workers, 3 attempts of which the code means to allow 2, 2 messages, 1 crash | `TypeOK`, `AttemptLedger`, `ConfirmedBeforeAttempt`, `OneWorkerPerAttempt`, `SuccessIsReal`, `AttemptRowsAreFinal`, `CancellationHolds`, `ImplementsLedger` | under every interleaving of stale copies, redelivery and retries the ledger stays consistent, every outcome is written to the attempt that had it, and a cancellation that no session predates is permanent |
| `publishing_batch` | 2 requests for one clip, 1 operator, 2 workers, tick of 2 rows | `ExclusiveUpload` | with one confirming operator, two workers never upload one request at a time and a success is never followed by an attempt, also when a tick executes its second row from an old copy |
| `publishing_liveness` | 1 request, 2 workers, fair | `PlannedWorkStarts`, `SentWorkStarts` | scheduled requests and retries leave the planned state once reviewers leave the clip cleared; a sent message takes its request out of QUEUED |
| `publishing_cancelled` | 1 of each | `CancelledNeverUploads` is violated | a cancelled request is uploaded by a worker with an older copy |
| `publishing_ambiguous` | 1 of each | `AtMostOnePost` is violated | a lost answer leads to a second video |
| `publishing_restart` | 1 of each, 1 crash, fair | `UploadsEnd` is violated | after a crash a request stays UPLOADING for good |
| `tiktok` | 1 request of either mode, 1 operator, 2 workers, 1 poller, 2 attempts, 2 messages, 1 crash, fair polls | `TypeOK`, `VideoAsRecorded`, `UncertainIsNotRetried`, `DecisionArrives` | lost answers, duplicate messages, a crash and a poll between any two steps give at most one video, and rows that tell the truth about it; an uncertain outcome is only resolved; a decision of TikTok reaches the request |
| `tiktok_polling` | 1 of each, fair polls | `PollingEnds` is violated | a Direct Post that TikTok never decides is polled for ever |
| `tiktok_twice` | 1 request, 2 operators, 2 workers | `UncertainIsNotRetried` is violated | of two confirmations at once the late one lets an uncertain request be transferred again |
| `pipeline` | see below | 21 properties, below | the rest of the system |
| `pipeline_liveness` | 1 handler, 1 worker, 1 fault, fair | `AcceptedIsFetched`, `QueuedIsDetected`, `ApprovedIsRendered`, `ExpiredIsReclaimed` | what a handler has queued is taken up although a worker may die on the way; media that nothing protects is reclaimed in the end |
| `pipeline_hold` | focus MEDIA, 1 call | `HeldOnlyWhileInspected` is violated | an inspection's hold outlives the inspection |

### The pipeline run

Two handlers, one worker (two for content packages), one message of a kind (a
second makes no difference to what a task does), one fault. One worker, because
the production deployment runs `celery worker` with `--concurrency` 1 by default
(`docker-compose.prod.yml:65`). `OneRevision` does not hold with two: two
confirmations at once and two workers render a plan twice.

| Focus | Who acts, and how often | Starts from | Properties it is about |
|---|---|---|---|
| SOURCE | 3 calls on the source and first clips, 2 candidates of which one is doubtful | nothing | `DashboardLeadsOn` |
| ANALYSIS | 3 requests, reruns, cancellations | a downloaded video | `DetectsInWholeFacts`, `DashboardLeadsOn` |
| REVIEW | 4 requests, decisions, renders; 2 generations of 2 suggestions | a completed analysis | `ImplementsReview`, `DetectsInWholeFacts`, `NoDecisionHidden` |
| PACKAGE | 4 requests, edits, decisions; 2 generations | nothing | `PackageHistory`, `ReviewedIsApproved` |
| MEDIA | 2 calls on the clip, its grants, hold and inspections; time; the hourly pass | a clip that is being published, or was rejected while a grant lasts | `HoldsAreKept`, `InspectionIsReported` |
| CORRECTION | 5 calls on 2 plans and the packages | an inspected clip, a plan in draft, a written package | `OneRevision`, `PackageHistory`, `ReviewedIsApproved` |
| OPERATIONS | 2 calls, the bot's loop, the beat | a written package | `ReportsArePosted` |
| AUTOPILOT | 3 calls on control, policy and slots; the ticks | an accepted source | `StopLiftedKnowingly`, `DecisionsTraceable` |
| INTAKE | 3 calls: links, uploads, one feed of 3 entries read 2 at a time | nothing, or a registered feed | `IngestedOnce`, `ContentFollowsLifecycle` |
| DISCOVERY | 3 calls, the tick; 2 channels that find one video | nothing, or a first poll | `OneProjectPerVideo` |
| POSTS | 4 calls on a post, its checkpoints and the packages | a written package | `PostsTraceable` |
| COMMUNITY | 3 calls of the bot | an empty server, or one set up when a forum was a text channel | `RowsFollowDiscord` |
| CONNECT | 3 calls, the tick | nothing, or a connected destination | `TokensAreGood` |
| ADVICE | 2 calls on reports, advice and inspections | an analysed project and a rendered clip, a message of each of the two tasks | `InspectionIsReported`, `AdviceStaysDecided` |
| WINDOWS | up to 3 anchors anywhere in videos of 2 and 12 units, clips of 3 to 6 | a video | `WindowsFit` |

A crash counts as one of the calls (except in MEDIA), and so do a second
suggestion of one generation and a lost answer or write of tokens. Two handlers
are what two copies of one row need, and every hazard listed in `PROJECT.json`
needs at most two actors on a row and one fault; three or four calls let a row be
made, changed by one actor and changed from an older copy by the other. In every
focus the workers run what the calls set off, from downloads to renders. All
parts together have about a million states; `TypeOK` covers every variable.

What the properties mean: `DetectsInWholeFacts` (detection never reads what a lost or
later run has half written, or facts that two runs have stored); `ImplementsReview` (decisions are not overwritten by
older ones, a superseded opportunity stays so, a clip is generated once and while
approved, the history is gapless); `PackageHistory`, `ReviewedIsApproved` (of
concurrent edits and decisions on one version one is entered, and what reads
APPROVED has the fields that were pending before); `OneRevision`;
`HoldsAreKept` (media is not recorded as deleted while it is held; an operator's
hold on media nobody held ends only when an operator ends it; one that is accepted
and audited while an inspection holds the media is the exception, it is dropped by
the `finally` clause of the inspection that had found no hold,
`rendered_media/service.py:357-360`, and by nothing else);
`InspectionIsReported` (when the task of the latest inspection is over, the newest
quality report looks at it); `AdviceStaysDecided`; `ReportsArePosted`;
`StopLiftedKnowingly`, `DecisionsTraceable`; `IngestedOnce`,
`ContentFollowsLifecycle`; `OneProjectPerVideo`; `PostsTraceable`;
`RowsFollowDiscord`; `TokensAreGood`; `DashboardLeadsOn` (when nothing is under
way, the control that the dashboard offers is not refused or ignored);
`NoDecisionHidden` (the card, the home page and the counts agree on what waits
for a decision); `WindowsFit`. `DashboardLeadsOn` excepts what `Over` names:
where the project may stop, or where the code leaves it no way on (listed
below).

### The publishing and TikTok runs

Every hazard of publishing needs at most two actors on one request, the third
attempt shows what happens beyond the permitted two, two rows are what a tick
needs to execute one of them from a copy that aged meanwhile, and one crash can
happen between any two steps. What the safety run checks is also proved for all
instances. Requests, operators and workers are interchangeable, so the two
safety runs use symmetry; the fair runs do not.

`ExclusiveUpload` does not hold of whatever handlers do: a confirmation that
loaded the request before it was first taken up, and is committed after that,
puts UPLOADING or SUCCEEDED back to QUEUED, and the next attempt, with a free
number, begins. The run leaves this out by having one operator; the theorem
`UploadIsExclusive` allows any number and leaves out that one step.

The same late confirmation transfers a TikTok request twice, which is what
`tiktok_twice` shows. A late answer does too: with two refreshes at once (the
endpoint's beside the beat task's), a FAILED about the first attempt can be
committed over the second. With one operator and one refresh, as in the run
`tiktok`, neither happens; the theorems `TransfersAreRecorded` and
`UncertainIsResolved` allow any number of both and leave out late writes, with
those of refreshes that give up on a request which somebody has resolved. Two
attempts are the least that can deliver a second video, two messages the
least that bring a request to two workers. `MaxStatusPolls` equals `MaxRuns`, so
that giving up a poll is reached, and not reached, depending on the attempt.

### Fairness

`Publishing`: a task that has begun goes on, because every HTTP call and ffprobe
have timeouts; messages are delivered and beat enqueues the tick every minute,
and a worker takes them up although other work is offered to it again and again
(strong fairness, Celery's queue is first in, first out); a handler that has
loaded goes on; time passes. Nobody is obliged to confirm, to cancel, to review
or to ask for anything, and workers need not crash.

`TikTokPublishing`: beat starts a poll of every due request each minute, TikTok
answers an unbounded sequence of polls now and then, and a poll with an answer is
committed now and then (strong fairness, as any single poll may fail). TikTok
need not decide anything, and nobody else need act. That every due request is
polled again and again is true while no more than ten are due: the tick takes the
ten that were written longest ago (`worker.py:797-798`), and a poll that changes
nothing may leave them in front.

`MCPipeline`: a worker goes on with its task (weak), every message that the
liveness properties are about is taken up in its turn (strong, first in first
out), beat asks for a retention pass every hour, and grants expire at their time
(weak). No handler is obliged to do anything, nor is a message sent again after
an exception that its task does not catch: such messages are in `lost`, and the
liveness properties except them.

## What is proved

`PublishingProofs` proves for every set of requests, clips, operators and
workers and every bound, from `PublishingAssumption` alone (the last for the
behaviours it names):

| Theorem | Statement |
|---|---|
| `IInvHolds` | `Spec => []IInv` |
| `TypeCorrect` | `Spec => []TypeOK` |
| `LedgerHolds` | `Spec => []AttemptLedger` |
| `ConfirmedHolds` | `Spec => []ConfirmedBeforeAttempt` |
| `OneWorkerHolds` | `Spec => []OneWorkerPerAttempt` |
| `SuccessHolds` | `Spec => []SuccessIsReal` |
| `AttemptRowsFinal` | `Spec => AttemptRowsAreFinal` |
| `CancellationIsFinal` | `Spec => CancellationHolds` |
| `LedgerImplemented` | `Spec => ImplementsLedger` |
| `UploadIsExclusive` | `Spec /\ NoLateConfirmation => []ExclusiveUpload` |

The argument. `attempt_count` is written from copies that may be stale, so none
of the invariants is inductive by itself. The inductive invariant `IInv` adds:
a session's copy is never *ahead* of the row in its count (counts only grow
while a copy stays as it is), the attempt table is gapless up to
`attempt_count`, a worker in an upload owns the STARTED row of its own number,
and a copy in a startable state belongs to a confirmed request. Then a worker
with an old copy asks for a number that the table already has, and the unique
constraint turns it away; a worker that is let through has the newest count,
takes a fresh number and owns it until it records the outcome. Two uploads of
one request therefore never share a number, an outcome is never written to
someone else's row, and finished rows stay as they are. `CancellationIsFinal`
needs only that no step of a session without an older copy can leave CANCELLED.

`LedgerImplemented` maps `StartAttempt` to `Open` (the gapless table and the
lagging copies make its number the next one), the two ends of an upload to
`Close` (the worker owns a STARTED row, and has seen the video it claims),
`YouTubeAccepts` to `Post`, `CommitConfirm` to `Confirm` and every other step to
a stutter.

`UploadIsExclusive` is about any number of operators, workers, crashes and
redelivered messages, in any order. `NoLateConfirmation` leaves out one step
only, the commit of a confirmation when `attempt_count` is no longer 0: it needs
two confirmations that both loaded the request AWAITING_CONFIRMATION, and a
worker between their commits. Confirmations side by side, cancellations and
everything else that handlers do to one request are covered. Its invariant says
that an upload has the number that is the request's `attempt_count`, and that a
copy with which somebody could still open the next attempt (startable, and with
the newest count) is of a request that nobody uploads or has uploaded. A late
confirmation breaks just this: it makes a request that is being uploaded
startable, with the newest count.

The proofs are laid out as effect lemmas (what each kind of step does to tasks,
rows and the table), one step lemma for each part of `IInv`, and the theorems.

`ClipWindowsProofs` proves, for every length of a clip, padding and tolerance,
videos of any length and any number of things noticed in them, from
`WindowsAssumption` alone:

| Theorem | Statement |
|---|---|
| `WindowsInvariant` | `WindowsSpec => [](WindowsTypeOK /\ WindowsFit)` |
| `SuggestionsFit` | `WindowsSpec => []WindowsFit` |

The argument. `ResizedFits` is the arithmetic: a window that is moved to a
length ends within the video and has that length, or the video's if that is
shorter. From it `BoundedWindowFits`: whatever pair of times with a
non-negative end `_bounded_window` is given, it returns a window that fits.
Windows enter both lists only through it (noticed ones, the fallback, and unions
of windows that fit), so `WindowsFit` with the types is inductive.

`TikTokProofs` proves for every set of requests, operators, workers and polls
and every bound, from `TikTokAssumption`:

| Theorem | Statement |
|---|---|
| `TransfersAreTyped` | `Spec => []TypeOK` |
| `TransfersAreRecorded` | `Spec /\ NoLateWrite => []VideoAsRecorded` |
| `UncertainIsResolved` | `Spec /\ NoLateWrite => UncertainIsNotRetried` |

No number of handlers, refreshes, workers, messages or crashes is restricted.
`NoLateWrite` leaves out two steps, each of which can break the properties in the
code: `LateConfirmation`, the commit of a confirmation when the request has been
attempted (`tiktok_twice` is its effect), and `LateAnswer`, a refresh that
changes the status when another attempt has begun since it loaded the request, or
that gives up (MANUAL_RECONCILIATION_REQUIRED) on a request that somebody has
resolved meanwhile. Confirmations, cancellations, completions of drafts and
refreshes may overlap in every other way, decided answers to two refreshes of one
attempt included.

The argument (`VideosInv`): whoever may still open or finish an attempt excludes
everybody else. Only the last attempt can have delivered a video; while a task
may still start, the request has delivered nothing and nobody sends; while one
sends the last attempt, the request is in a status that no other task takes up,
and whoever polls it asked about an earlier attempt; a refresh of the last
attempt has one that nobody sends, and what TikTok has decided stays decided; a
handler that will record what became of a draft has the last attempt, which
there will be no other after.

`PipelineProofs` proves, of `Pipeline`'s `Spec`, for every number of handlers,
workers, messages, faults, packages, plans, entries and so on, from the
assumptions of its modules (the last six with the hypothesis they name, that
there is one worker):

| Theorem | Statement |
|---|---|
| `PackagesInductive` | `Spec => [](Shaped /\ PackagesInv)` |
| `PackagesAreTyped` | `Spec => []PackagesTypeOK` |
| `HistoryIsComplete` | `Spec => []PackageHistory` |
| `ReviewedWasApproved` | `Spec => []ReviewedIsApproved` |
| `MediaInductive` | `Spec => [](Shaped /\ MediaInv)` |
| `HoldsSurvive` | `Spec => HoldsAreKept` |
| `ReviewInductive` | `Spec => [](Shaped /\ ReviewInv)` |
| `ReviewImplemented` | `Spec => ImplementsReview` |
| `AutopilotInductive` | `Spec => [](Shaped /\ AutopilotInv)` |
| `DecisionsAreTraceable` | `Spec => []DecisionsTraceable` |
| `StopIsLiftedKnowingly` | `Spec => StopLiftedKnowingly` |
| `AdviceInductive` | `Spec => [](Shaped /\ AdviceInv)` |
| `DecidedAdviceStays` | `Spec => AdviceStaysDecided` |
| `OneProjectEach` | `Spec => []OneProjectPerVideo` |
| `PostsAreTraceable` | `Spec => []PostsTraceable` |
| `IngestionInductive` | `Spec => [](Shaped /\ IngestionInv)` |
| `ContentComesInOnce` | `Spec => []IngestedOnce` |
| `LifecycleIsFollowed` | `Spec => ContentFollowsLifecycle` |
| `ReportsInductive` | `Spec => [](Shaped /\ ReportsInv)` |
| `DeliveredWasPosted` | `Spec => []ReportsArePosted` |
| `ConnectionsInductive` | `Spec => [](Shaped /\ ConnectionsInv)` |
| `TokensStayGood` | `Spec => []TokensAreGood` |
| `CommunityInductive` | `Spec => [](Shaped /\ CommunityInv)` |
| `RowsAreOfDiscord` | `Spec => []RowsFollowDiscord` |
| `ReportingInductive` | `Spec => [](Shaped /\ ReportingInv)` |
| `InspectionsAreReported` | `Spec => []InspectionIsReported` |
| `ProgressInductive` | `Spec => [](Shaped /\ ReviewInv /\ ProgressInv)` |
| `DashboardLeads` | `Spec => []DashboardLeadsOn` |
| `TypesInductive` | `Spec => [](ComponentsInv /\ TypeInv)` |
| `PipelineIsTyped` | `Spec => []TypeOK` |
| `FactsInductive` | `ASSUME OneWorker PROVE Spec => [](Shaped /\ FactsInv)` |
| `DetectionReadsWholeFacts` | `ASSUME OneWorker PROVE Spec => []DetectsInWholeFacts` |
| `RevisionsInductive` | `ASSUME OneWorker PROVE Spec => [](Shaped /\ ReviewInv /\ RevisionsInv)` |
| `PlansHaveOneRevision` | `ASSUME OneWorker PROVE Spec => []OneRevision` |
| `GenerationsInductive` | `ASSUME OneWorker PROVE Spec => [](Shaped /\ ReviewInv /\ RunsInv /\ SupersededInv)` |
| `NoDecisionIsHidden` | `ASSUME OneWorker PROVE Spec => []NoDecisionHidden` |

The composition. Fourteen components share the broker, the sessions and the
workers, so an invariant of one has to survive the steps of all. The frame
argument does this once: a step of `Pipeline` is one of one component
(`NextByComponents`), leaves the rows of the others, and every session that it
changes is one of its own operations afterwards or idle (`Moves`, `Confined`). An
invariant that relates a component's rows to the sessions of its own operations
is therefore kept by every other step, crashes and exceptions included. Each
component needs three lemmas: its invariant holds initially, its own steps keep
it, and so does what leaves its rows and sessions alone. Where two components
share an operation (inspections and quality reports, a plan that outdates
packages, an approval that makes a project) the shared step is one of both.

The invariants, by what carries them:

- *Packages.* Nothing locks the row. The history is gapless up to the row's
  version, and the version of every copy in a session has been entered in it. So
  when the next version is free the row still has the copy's version, and
  history's one entry for it says what both have. Only GENERATING and STALE are
  given without a version (`Passing`), which is why history's entry agrees with
  the row up to those.
- *Opportunities.* The same, and more: everything that changes a row enters a
  version, so a copy that can be written back is the row. `ReviewStepSimulates`
  then maps a generation's commit to superseding and proposing, a decision to a
  decision, the render's last commit to the clip, and everything else, stale
  commits that the constraint refuses included, to a stutter.
- *Media.* The version column: a session that is not `behind` knows whether the row
  is held, and one that set the hold finds it there, alone or with an operator's on
  top (that one is no UPDATE and puts no copy behind). What it writes over the hold
  it writes knowing that much; the others' commit fails.
- *Autopilot.* A session that decides keeps a policy that was in force, allows only
  what that policy permits, and reserves a slot only after its decision is entered.
  A commit of the control writes what differs from the copy, so one that lifts a
  stop has a copy with the stop.
- *Recommendations.* What an operator decides on was pending when it was loaded,
  and a commit writes the status only if it changes it.
- *Discovered videos.* The URL is unique; whoever links an item, having made the
  project or lost the race for it, comes from a project that is there.
- *Posts.* What a session will record was approved when it loaded it, and the
  history of packages is only added to (`HistoryOnlyGrows`).
- *Intake.* No two sessions bring something in under one key, no two finalize an
  upload at a time, and items, jobs and files agree.
- *Reports.* One delivery is under way at a time, of reports that are pending; only
  the report that is being entered can have been posted once more than it was
  recorded, and a delivery that is cut off there has used up a fault.
- *The connection to TikTok.* While nothing failed and no write of the file undid
  another's, the account's lock lets one session renew at a time: what the file
  has was issued, is there once and is not spent, but for what that session has
  exchanged and is about to replace; and what a session holds is good and nobody
  else's.
- *The Discord server.* It only grows, and a thing keeps the item of the layout it
  was made for. A setup walks through the layout and carries only things of the
  items it has passed, so what it registers is there and is of its item. Tickets
  take the first numbers, one per number, and a channel without a ticket belongs
  to a handler under way or to a fault. While a bot's handler hangs on the row of
  the server no ticket is under way, because those need a server that is set up.
- *Quality reports of inspections.* Until the newest report is about the latest
  inspection, which is complete, a task pursues it, its message is still to come
  or it ended in an exception. From then on a report that somebody is about to
  commit as the next one is about it too, or its number is taken. Reports are
  numbered without gaps, and no other component takes a message of the task
  (`OthersWait`); that all messages are sent to one broker is
  `PipelineAssumption`.
- *What is under way.* Unless something failed, each row that says so has somebody
  who goes on: a project that waits for its sources or downloads has the session
  that does it (`DownloadsGoOn`), an analysis that is QUEUED or RUNNING a message or
  a session (`AnalysesGoOn`), a run that is RUNNING its detection
  (`GenerationsGoOn`). A step may leave a row in such a status only if its actor
  stays at it, was not the one at it, or sent the message. When nothing is under
  way, then, no row says that something is. With what rows promise each other
  (`SourceInv`: a choice behind whatever was accepted, a key of whatever is ready;
  `RunsInv`: a run for every suggestion, and of one that no later run surpasses
  something to look at) the cases that remain are those the dashboard's control
  is for. That something to look at can be found in a latest version is a matter
  of finite sets, hence `IsFiniteSet(Moments)` in `OpportunitiesAssumption`.
- *Types.* Each module names what its handlers and tasks may have in their
  sessions (`ProductionSessions` and so on, `Sessions` is all of them), a worker's
  with the message it took, a handler's without one. A component's step puts into
  its actor's session one of its own (`Puts`), the others' sessions stay, and since
  the operation tells whose session it is (`OperationTells`), every step finds what
  it goes on with (`SessionIsKnown`). That is not bookkeeping where rows and copies
  are counted: a decision starts below `MaxVersions` and a link adds one to it, so
  an approved suggestion that waits for its clip stays below the last version
  (`VersionsBounded`) only because a copy that can still be written is the row; a
  clip's number is fixed before it is rendered and is at most `MaxClips`, and the
  insert takes it only as the next (`ClipsKeepBound`). So `TypeInv` is inductive
  with the invariants of the components (`ComponentsInv`), not alone. Two
  assumptions on constants are for these counts: marks, badges and the layout are
  finite and numbered from 1 (`PostsAssumption`, `CommunityAssumption`).
- *What detections read.* An analysis that is COMPLETED has all of its facts, and
  a task that rewrites them has taken it out of COMPLETED before. A detection that
  found it COMPLETED is in the one worker's hands (`Analysing`), so nothing empties
  the facts before it has read them; requests, cancellations and a failure that
  other handlers commit meanwhile write the status only.
- *Revisions.* Only the render's commit gives a plan a result, and with it the
  revision. With one worker the plan that a task has loaded still has the result
  of its copy, so one that starts to render has none and gets its first; every
  other commit, stale ones included, writes another column.
- *Generations.* A detection enters its suggestions and makes older ones STALE in
  one commit, but the older ones are those it read before it detected. With one
  worker none is entered in between and every later run is at most queued, so
  none is missed and no suggestion that is PENDING is of a run older than a
  completed one: the suggestions of all runs, which the home page counts, are
  those of the latest, which the card counts.

`OneWorker` is the production deployment (`docker-compose.prod.yml:65`, see
above); `OneRevision` and `NoDecisionHidden` are false without it (two workers detect for
two runs, and the one that commits last has not seen the other's suggestions),
for any number of handlers they are true with it.

`Pipeline`'s `Spec` starts from the empty system, while the focuses of the run
also start later (`ReviewedInit` and the like): the theorems cover every
behaviour from the beginning, the run also cuts in.

Only model-checked: the liveness properties. Fairness and `ENABLED` are outside
what the proof system handles. Nothing rests on induction over data or on recursive operators.

## Disagreements between code and documents

1. *Cancellation.* `PUBLISHING_FOUNDATION_IMPLEMENTATION_REPORT.md:19`:
   cancellation "cannot result in a later upload". A worker that loaded the row
   before the cancellation uploads it (`publishing_cancelled`).
2. *Uncertain outcomes.* `UNATTENDED_VPS_OPERATIONS_GUIDE.md:7`: "Ambiguous
   external outcomes are reconciled rather than retried blindly." A lost answer
   from YouTube is retried with a new upload (`publishing_ambiguous`).
3. *Restart.* The same line: "safe to restart". A crash during an upload leaves
   a request nobody takes up (`publishing_restart`).
4. *Bounded polling.* `TIKTOK_RECONCILIATION_GUIDE.md:5`: "ViralForge performs
   bounded official status refreshes". The bound is compared with
   `attempt_count`, which polls leave alone (`tiktok_polling`).
5. *Uncertain transfers.* `TIKTOK_PUBLISHING_IMPLEMENTATION_REPORT.md:15`:
   `UNKNOWN_REMOTE_OUTCOME` "rather than blindly retrying". Two confirmations at
   once retry it (`tiktok_twice`).

6. *Retention holds.* `RENDERED_MEDIA_QUALITY_LIMITATIONS.md:7`: "Retention
   holds protect the authoritative asset only while inspection is running". When
   somebody plays the clip meanwhile, the version column refuses the release and
   the hold stays (`pipeline_hold`).

### Seen while modelling

Stated nowhere as impossible, or without a run of its own; each is what a
module's steps do.

- *Publishing.* Retries beyond `publishing_max_attempts` (`service.py:385-386`),
  the effect of a second stale confirmation (289-299), QUEUED requests without a
  message after a failed `send_task` (`api.py:4090-4094`), missing media and
  credentials categorised as transient (345), a tick that stops at the first
  refused request (`worker.py:894-895`), a cancellation committed over SUCCEEDED
  when a poll comes in between (303-311), TikTok attempt rows that keep UNKNOWN
  or PROCESSING after a poll has resolved the request (584-595), a TikTok success
  that never sets the clip's `publication_status`, and
  MANUAL_RECONCILIATION_REQUIRED, which only a refresh by hand or a cancellation
  leaves. `request_tiktok_publish` (456) counts the day's requests and drafts and
  looks for duplicates before it inserts: two requests at once pass every limit.
- *TikTok connections.* The `FOR UPDATE` select of a refresh does not refresh the
  columns of an account that the session has loaded, so the reference it goes on
  with is from before the lock; with a failed callback in between it reports
  CONNECTED on a dangling reference. A refresh after a disconnection overwrites
  DISCONNECTED with DEGRADED; a callback after one leaves CONNECTED on an inactive
  destination, or DISCONNECTED with a live credential. A crash or lost answer
  between the exchange and the file loses the new tokens. The API and a worker can
  undo each other's write of the file (against `worker.py:813`,
  "encrypted-store replacement is atomic per destination").
- *Production.* A crash in `create_project` leaves a project CREATED for good.
  `choose_source` can commit after the download; `accept_source` takes
  SOURCE_READY and CLIPS_READY back; a rejection is overwritten by a download that
  ends; concurrent downloads share a directory; an `OSError` leaves DOWNLOADING;
  `last_error` (`service.py:739`) is never cleared, so a guided card keeps "NEEDS
  ATTENTION" after a retry has worked. Approving and rejecting a clip at once may
  leave a REJECTED clip with a READY_TO_POST item (935-943).
- *Analysis.* A cancellation in the last window is lost; a start overwrites one;
  RUNNING stays after a crash; two workers store the transcript twice; a long task
  outlasts the broker's visibility timeout.
- *Opportunities.* A redelivered render, or one in the API beside the bot's
  worker, renders a second clip when it falls between the clip's commit and the
  opportunity's (`worker.py:458-463`, `discord_bot.py:749-752`); a conflict of
  `clip_number` loses the message. A stale FAILED copy queues a COMPLETED run
  again; an older QUEUED run is never executed once there is a newer one; RUNNING
  stays after a crash.
- *Windows.* Merged windows may still overlap above the tolerance, as a merged
  window is padded and shortened again (against
  `INTELLIGENT_CLIP_OPPORTUNITY_ENGINE_IMPLEMENTATION_REPORT.md:11`, "merges
  windows above the configured overlap tolerance"); anchors that repeat pad a
  window each time; what lies at the cut-off end of a shortened merge is lost; the
  merged list need not stay in order.
- *Packages.* Two tasks on one QUEUED package: the loser's `IntegrityError`
  rejects the package, even an approved one. GENERATING stays after a crash, and
  generating again is refused. `select_revision` makes packages STALE without a
  version, so a decision on an older copy writes APPROVED over it.
- *Media.* INITIALIZING, TRANSFERRING, PROCESSING and FAILED with a retry do not
  protect a clip's media; a source is deleted when all clips have rendered although
  approved opportunities still need it (against `docs/MEDIA_RETENTION.md:5`); the
  batch limit applies before the filter, so kept rows starve others
  (`ExpiredIsReclaimed`, with one asset, would not catch it); the file goes
  before the versioned commit. A hold that an operator places during an inspection
  is accepted and audited and is dropped with the inspection's own; the model has
  this (`BOTH`), and `HoldsAreKept` states it as its exception. No document says
  otherwise of operators' holds: `RENDERED_MEDIA_QUALITY_LIMITATIONS.md:7` keeps a
  "pre-existing hold". A redelivered inspection adds a run; RUNNING and its hold
  stay after a crash; a cancellation in the last window is overwritten; COMPLETED
  can be written over STALE.
- *Corrections.* An `IntegrityError` or a crash leaves a plan RENDERING, which
  redelivery refuses; cancelling races with the render; `set_action_selected`
  writes after a confirmation; `maximum_revisions` is enforced by nothing; a
  revised clip's hold is never released; two plans can leave two current revisions.
- *Producer.* Decisions and notes compare versions on copies, so two on one version
  both commit, an approval and a rejection over each other, and the version may go
  back (against `AI_PRODUCER_OPERATOR_GUIDE.md:25`, "A stale review version is
  rejected rather than overwriting a newer decision"); a handler and a task that
  overlap advise a project twice; two reports of one number collide, which loses an
  inspection's message with its report; a redelivered inspection is reported again
  (`AI_PRODUCER_QUALITY_BACKLOG.md:10` calls reports "retry-idempotent").
- *Autopilot.* `set_global_control` and `update_policy` compare versions on copies
  (against `AUTOPILOT_OPERATOR_GUIDE.md:5`); of two exceptions opened at once the
  second raises in the tick; the advance tick asks with `rights_approved` false,
  so it never sends anything, and a source accepted through the API is never
  advanced; nothing creates `AutopilotRun` rows or resolves exceptions and alerts.
- *Operations.* The second completion of REVIEW_CONTENT violates (brand,
  dedupe_key, status), and every tick fails from then on while the queue is empty,
  so no reports are written (`operations/service.py:363-422`, against
  `PROJECT_GUIDE.md:118`). Reports are posted at least once, not "at most once"
  (`discord_bot.py:6427`), and one that fails ends each round.
- *Feeds.* Validation stores the etag without importing, so the next run is told
  304; so are entries that the limit skipped. A failing run writes FAILING over
  BLOCKED, and activating then needs no validation; a second run can start beside
  one; an `IntegrityError` leaves job and lease; `register_feed` holds an
  uncommitted INSERT over an await (`feeds.py:323`), and a second registration of
  the URL blocks the loop for good.
- *Links, uploads, lifecycle.* RETRY_SCHEDULED is retried by nothing, and the same
  key returns the old job; one link submitted twice at once gives two items; a
  crash leaves RUNNING and the temporary file, as `cleanup_temporary` has no
  caller. Evidence of rights and moderation is written by nothing, so APPROVED
  cannot be reached.
- *Discovery.* An error other than `ProviderError` leaves a run RUNNING and ends
  the tick; polls of two sources can insert one URL twice (against
  `MULTI_PLATFORM_DISCOVERY_IMPLEMENTATION_REPORT.md:5`, exact duplicates are
  suppressed); an approval can overwrite a rejection and the reverse; `source_url`
  is unique over all brands and looked up within one.
- *Manual publishing.* APPROVED is checked on a copy; metrics complete a checkpoint
  that was skipped meanwhile; SNOOZE reopens completed ones.
- *Console.* A cancelled analysis is offered "Analyze Video", which the task leaves
  alone; so is "Find Clip Opportunities" after a run that found none; a failed
  download has no control; "View Clips" fails when the first clip was not rendered;
  a failed or rejected clip keeps "Review the finished clips"; pending suggestions
  of an older generation are on the home page and not on the card while a rerun is
  queued or has failed; with no discovery source the home button prefers the setup
  page to what is ready; `legacy_guided_project_embed` is used by nothing.
- *Discord.* The first row of a server is inserted and held over awaits, and a
  second handler's INSERT then blocks the loop for good; a setup repeated after a
  failed commit duplicates what was replaced; a reset may then delete a registered
  channel; overlapping setups duplicate resources; a failing panel loses the record
  of those sent; two clicks on Accept Rules leave the role and a failed
  interaction; overlapping selections leave two exclusive roles, or a grant for a
  removed one; a ticket's channel and an announcement precede their rows, so
  failures leave stray channels and two publications send twice;
  `expire_role_grants`, `record_customer_reply` and appeal decisions have no
  caller.

## Not modelled

- *Analytics, and the evaluation of predictions.* Rows that are only appended: no
  decision on them meets another.
- *Brands and accounts.* Memberships and roles guard the handlers; the models take
  the caller to be allowed.
- *Configuration, database, logging, migrations, scripts, deployment.* Settings
  are constants, the session's behaviour is in every module, and the rest keeps no
  state at run time.
- *Within modelled components:* TikTok's limits at creation (left
  nondeterministic); captions, layouts, posting-queue items and the scoring and
  resolving of sources; proxies and source assets of media; human reviews of
  inspections; the stale-run watchdog of the autopilot (no code creates its rows);
  providers' parsing, URL normalisation and the safe HTTP client (outcomes only);
  Discord rows that are written in one step and read by nothing else; texts, view
  layout, authentication.

## Plan

1. `Publishing`, `PublishLedger`, their runs and proofs (done).
2. `TikTokPublishing`, `TikTokConnections` (done; limits at creation left out).
3. The pipeline from source to corrected clip, its refinement of
   `OpportunityReview`, liveness (done).
4. The office, intake, community and console (done).
5. Proofs: publishing, its refinement and, but for late confirmations,
   `ExclusiveUpload`;
   windows; TikTok's transfers; packages, media, opportunities and their
   refinement, autopilot, recommendations, discovery, posts, intake, reports, the
   TikTok connection, the Discord server, the reports of inspections and, for one
   worker, `OneRevision` and `DetectsInWholeFacts` (done); what the
   console shows and offers, over the rows of several components (done).
6. TikTok's limits with two requests at once, and the posting queue between clip
   decisions and publishing, if the runs leave room for them.
