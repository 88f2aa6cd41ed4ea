# Formal models of the watermark-removal service

TLA+ specifications of the backend (`src/backend`, FastAPI + PostgreSQL), the workers
(`src/workers`, Celery + Redis) and the browser application (`src/frontend`, Next.js) of
this repository, model-checked with TLC and, where a theorem is stated, proved with TLAPS
for every value of the constants.

All source paths below are relative to `src/`.

## 1. The system

| Component | Where | State it keeps | Operations |
|---|---|---|---|
| Job state machine | `backend/app/services/job_states.py`, `repositories/processing.py:transition` | `ProcessingJob.status` | `transition`, `mark_failed` |
| Processing pipeline | `backend/app/api/processing.py`, `services/task_dispatch.py`, `workers/tasks/processing.py`, `workers/common.py` | job rows, project status and output key, output rows, credits, messages, per-job Redis lock | POST `/process`, publish, fetch, lock, extract, inpaint, encode, persist, fail, retry; administrator cancel/retry; owner delete; mask put/delete |
| Credits | `backend/app/services/payment_service.py`, `services/admin_service.py` | `User.credits_remaining`, `CreditLedger`, `CreditTransaction` | deduct, refund, reset, adjust, plan change |
| Billing | `backend/app/services/payment_service.py`, `api/payments.py` | `Subscription`, `Payment`, `WebhookEvent`, `PromoCode`, the user's plan | create/cancel subscription, webhooks, refunds |
| Detection | `backend/app/api/detection.py`, `workers/tasks/detection.py` | analyze jobs, candidates, masks, project status | enqueue, detect, persist candidates, approve |
| Preview | `backend/app/api/preview.py` | project status, preview object, tokens | render, stream, download |
| Upload | `backend/app/services/upload_service.py`, `api/uploads.py` | `Upload`, project status, stored original | initiate, put, complete, cancel |
| Retention | `backend/app/services/retention.py`, `workers/tasks/maintenance.py`, `api/projects.py` | storage keys of projects, output rows, stored objects | sweep, duplicate, delete, administrator's deletions |
| Sessions | `backend/app/services/auth_service.py`, `services/account_service.py` | refresh sessions, password-reset nonces | login, refresh (rotation), logout, reset, change password |
| Administration | `backend/app/services/admin_service.py`, `api/admin.py` | roles, flags on projects, refunds, models, notes | role changes, moderation, refunds, compliance |
| Event stream | `backend/app/api/processing.py:stream_job_events`, `workers/tasks/processing.py:publish_event` | Redis list per job | publish, tail |
| Maintenance mode | `backend/app/core/maintenance.py` | cached setting | read-through with a 5 s cache |
| Browser session | `frontend/services/api.ts`, `features/auth/`, login, register, account pages | localStorage, one store per tab, the shared refresh, calls in flight | sign in and out, refresh, password change and reset |
| Upload and project pages | `frontend/app/upload`, `app/projects/[id]`, `components/PreviewApproveScreen.tsx` | stages, watchers, cards, the file handed to the editor | upload, analyze, approve, preview, render |
| Mask editor | `frontend/features/mask/`, `components/mask/` | shapes, redo stack, save status, saves in flight | draw, undo, redo, save, autosave, accept a suggestion |
| Checkout and billing pages | `frontend/app/checkout`, `app/billing` | promo, busy flag, modal, status shown | pay, apply a code, cancel |
| Admin panel | `frontend/app/admin/`, `components/admin/` | rows, lists, search, forms, the confirmation dialog | every route of the panel |
| AI models, media | `ai-models/`, `backend/app/services/encode.py`, `normalize.py` | none | pure transformations of frames |

**How they interact.** The API and the workers share the PostgreSQL database, object
storage and Redis (broker, locks, events). A `/process` request charges the user and
creates a job in one transaction and publishes a message after it. A worker reads the row,
takes a Redis key as a lock and moves the job through `processing`, `encoding` and
`completed`, one commit per stage, with ffmpeg and storage calls in between. The
administrator, the owner and the daily reset change the same rows at any time. Messages
are acknowledged late: a worker's death redelivers them. The browser keeps copies of all of
this: in each tab's store, in each page's state and in the react-query cache, and everything
it asks for comes back later, perhaps after the page was left.

### What is hard, and what each component owes

| Component | Hard behaviour | What makes it correct |
|---|---|---|
| Pipeline | duplicate and late messages, crashes under a lock with a time to live, ambiguous publishes, two requests at once, cancellation and deletion under a worker | one worker per job; a completed job has its output; a failed one is refunded; nobody is both served and refunded; finished jobs stay finished; every paid job ends |
| Retention | a sweep acts on rows read earlier and commits at the end, and so do uploads, previews and workers; objects shared by copies; storage calls that fail; a sweep, request or worker that dies | nothing inside its window is deleted; no object loses its name while it exists, but by the causes listed; a queued job keeps its source; holds are honoured; interrupted sweeps are made good |
| Credits | charges, refunds, resets and plan changes of one balance | each charge is kept or returned once; the balance stays within the plan |
| Billing | webhooks delivered twice, late or out of order; administrators' changes between them | one effect per payment; the plan follows the last accepted event; refunds never exceed the payment |
| Detection | a second analysis, approval while a worker runs, deletion under it | candidates of one run only; the project's status follows the job |
| Upload | completion called twice or racing cancellation | a project is `uploaded` only with its source in storage |
| Sessions | a refresh token used twice inside and outside the grace period, revocation in between | one live token per session; nothing revoked comes back |
| Administration | two administrators demote each other | there is always a super-administrator |
| Browser session | several tabs rotate one token; calls wait for a refresh that may be lost | no tab is logged out by another's refresh; a call never waits for nothing; tabs agree |
| Project pages | routes and watchers of pages that were left go on | no spinner for ever; the editor plays its own project's file; a render was reviewed |
| Mask editor | edits while a save is under way, two saves at once, a save served after its timeout | the status line is honest; no shape is lost; processing is unlocked only with a mask |
| Admin panel | one row read, shown and acted on while others move it; answers out of order | what is shown is true at rest; buttons and server agree; typed text is used as meant |
| Event stream | a client reconnects while events are appended and the list expires | a client that stays connected sees the end of its job |
| Maintenance mode | a stale cached flag | the flag takes effect within the cache's time to live |

## 2. The plan

1. **Job states, pipeline** (`JobStates`, `ProcessingPipeline`, `PipelineProperties`), with
   the abstract mutual exclusion `JobMutex` that the workers' lock implements. *Done.*
2. **Retention** (`Retention`, `RetentionProperties`). *Done.*
3. **The browser's session** with the server's rotation of refresh tokens (`Session`).
   *Done, with proofs.*
4. **Checkout, subscriptions and webhooks** (`Checkout`). *Done, with proofs.*
5. **Upload, detection, preview and render** as their pages see them (`Upload`,
   `ProjectFlow`), and the **mask editor** (`MaskEditor`). *Done, with proofs.*
6. **The admin panel** (`AdminPages` and the modules over it). *Done, with proofs.*
7. Left: the event stream and the maintenance flag; **pure algorithms** as operators checked
   against reference definitions (promo discounts, retention buckets, frame sampling,
   candidate ranking); **statements and row locks**: the lost updates and the lock order
   that the pipeline model, whose actions are transactions, cannot show; an abstract ledger
   of credits in which every payment takes effect once.

Every safety and action property that a passing run checks is stated by a theorem; what is
only model-checked is liveness.

## 3. The modules

### JobStates, ProcessingPipeline, PipelineProperties, JobMutex

`JobStates` is the transition table of `services/job_states.py`. `ProcessingPipeline` is
one project and its owner: the route, the broker, the workers, the lock, the owner's
credits, the administrator. One action is one transaction, split wherever the code
calls something outside the database, waits for a row lock or commits between reading a
row and writing it.

| Code | Actions |
|---|---|
| `api/processing.py` `enqueue_process`, `_active_job` | `Scanning` and `Stale` guard `ReturnExisting`, `CancelStale`, `NoneActive`; then `InsufficientCredits` or `ChargeAndCreate`, `Dispatch` or `DispatchRefused` or `DispatchLost`, `Compensate` |
| `workers/tasks/processing.py` `run_pipeline`, `_execute_job`, `_fail` | `Fetch`, `MaskMissing`, `Acquire` or `LockBusy`, `Start`, `Extract`, `Inpaint`, `Encode`, `Persist` or `WorkFails`, `Ack` |
| `workers/common.py` `job_lock` | `Acquire` (SETNX), `ReleaseGet`, `ReleaseDelete`, `LockExpires` |
| `workers/celery_app.py` | `Die` (redelivery after a crash, no redelivery after the hard time limit), `Requeued` |
| `services/admin_service.py`, `api/admin.py` | `AdminCancel`, `AdminRetry` and its later `Reenqueue` |
| `api/projects.py`, `api/masks.py`, `payment_service.py` | `DeleteProject`, `DeleteMask`, `PutMask`, `ResetCredits` |

State follows the columns: `status` and `old` are the job row, `projStatus`, `outKey`,
`deleted` and `mask` the project's, `balance` the user's, `tagged` the refund
transactions that carry a job id, `queue` the messages per job and retry count, `lock` the
Redis keys. `seen` is the job status in a worker's session, which may be stale.
`delivered`, `refunds`, `settled` and `lost` are history variables that only properties
read. Credits are counted in jobs (`CREDITS_PER_JOB` = 1).

Everything that disturbs the normal course (crashes, hard kills, refused, lost and
ambiguous publishes, jobs that wait 300 s, the administrator, deletion, resets) is named in
`Disturbances` and counted in `MaxDisturb`, so each run can say which may happen.

`JobMutex` says that the set of workers running a job is empty or a singleton and changes
by one entering or leaving. The refinement mapping takes, for a job, the workers between
SETNX and DELETE.

Timing enters in two guards. `LockBusy` may not find a key that its owner is about to
delete in the same breath: a retry waits 120 s, the release takes milliseconds
(`BeingReleased`). `HardTimeLimit` says that the pool kills a task at
`task_time_limit`, which equals the lock's TTL: true of the prefork pool of
`docker-compose.worker.yml`, not of `--pool=solo`. Where it is true a key does not
expire under a living worker.

### Retention, RetentionProperties

Projects with their keys and the objects in storage. A key is a project's id and a file name
(`Name`), so a copy's keys hold its source's names and a second upload may bring another one.
Age is a class (0, past 6 h, past 24 h; for outputs past 7 days) that a clock action raises.

| Code | Actions |
|---|---|
| `workers/tasks/maintenance.py` `_run_cleanup` | `SweepBegin` (rows read, plan made), `DeleteObject` or `DeletionFails` per artifact, `Commit`, `Crash` |
| `services/retention.py` `plan_project_cleanup` | `Planned`, `Expired`, `Named` |
| `services/admin_service.py` `_delete_project_files` and its callers | `DeleteFiles`, `AdminDelete`, `TriggerCleanup`, all over `FilesBegin`, then the same deletion steps |
| `api/uploads.py` `initiate_upload`, `complete_upload` | `Initiate`, `Reinitiate`, `CompleteBegin` (rows read) |
| `services/upload_service.py` `_finalize_upload` | `UploadPuts` per object, in the order of `After`; `UploadRefused` (probe or limits), `UploadCommits`, `UploadDies` |
| `services/upload_service.py` `cancel` | `CancelDeletes`, `CancelCommits`, `CancelDies` |
| `api/projects.py` | `Duplicate`, `Delete` |
| `api/preview.py` | `PreviewBegin`, `PreviewReads`, `PreviewPut`, `PreviewReady`, `PreviewFails` |
| `api/processing.py`, `workers/tasks/processing.py` | `Process`, `WorkerReads`, `WorkerLoads`, `WorkerPuts`, `WorkerCommits`, `WorkerFails`, `WorkerDies`, `Redelivered` |
| compliance and job actions of the administrator | `PlaceHold`, `RemoveHold`, `Unlock`, `AdminRetry`, `AdminCancel` |

An upload stores up to four objects and names three of them in one commit at the end; the
audio has no column. All but the original may fail silently. A worker stores its output and
names it in its last commit, which raises if the job was cancelled meanwhile, by its owner's
deletion or by an administrator. A request or worker that ends before its commit leaves its
objects to nobody: the history variable `abandoned` remembers them until somebody names
them after all, as `again` remembers the projects with a second or a cancelled upload and
`purged` those whose files somebody other than a sweep deletes.

Two details of the code matter more than they look. A sweep decides on rows read at its
start, so its plan and the keys it clears are per-cleaner state (`plan`, `cleared`, `due`).
And SQLAlchemy writes only columns whose value changed since the row was read: a worker
that sets `output_storage_key` to the value it already had writes nothing, so a sweep that
cleared the column meanwhile wins (`wkHad`, `pvHad`, `had`).

Bounds of the abstraction: a project has one job at a time and a new one waits for a
worker that is still busy with a cancelled one (overlapping workers are the pipeline's
subject); the previews of one project do not overlap, nor do the requests completing its
uploads; one of its uploads at a time is still to be completed, and a cancelled project is
not cancelled again. Images are left out: their request stores a proxy and a thumbnail in
the same order and processes them itself. Crashes and storage faults count as optional
operations; a step that raises (`UploadRefused`, `PreviewFails`, `WorkerFails`) does not.
Row locks are not modelled, so commits may fall between the steps of others more often
than PostgreSQL would let them: the safety shown holds for fewer. `locked` and `expires_at` are not
consulted by the sweep, so `expires_at` is not modelled at all.

### Session, SessionProperties

The tabs of one browser. A session `n` is the access token, the refresh token and the user
record that were issued together; the server's state of it (`sess`) is `live`, `grace` after
its refresh token was rotated away (`_ROTATION_GRACE_SECONDS`) or `dead`.

| Code | Actions |
|---|---|
| `features/auth/authStore.ts`, `AuthHydrator.tsx` | `setAuth`, `clear`, `hydrate` (operators), `Mount`, `OnStorage` |
| `services/api.ts` | `Send`, `Settle`, `Answer401`, `RefreshGranted`, `RefreshRefused`, `RefreshFailed`, `endSession` |
| `services/auth_service.py:refresh_session` | `ServeRefresh`, `GraceEnds` |
| pages that start or end a session | `Register`, `VerifyEmail`, `LoginSend`, `LoginGranted`, `LoginFailed`, `Forward`, `AuthGuard`, `LogoutSend`, `LogoutDone`, `ResetPassword`, `ChangePassword`, `DeleteAccount` |

`refreshPromise` keeps the token a refresh was sent with, so that two tabs may send the same
one. `cause` is a history variable: a session was ended on purpose, or the answer to a
refresh that was served got lost. Time enters in `GraceEnds`: the 60 s window outlasts the
15 s that a refresh sent with the old token lives.

### Upload, ProjectFlow, FlowProperties

`Upload` is the upload page with the three calls of `start()`, which outlive the page;
`ProjectFlow` extends it with the candidates page and the result page over the server's
analyze and processing jobs. `sending`, `cp.runs` and `rp.watch` are the asynchronous
functions under way; a page that is left loses its state, and what it started goes on.
The routes and jobs are modelled as these pages see them: a status, the candidate rows' run,
whether a mask and a clip are stored.

| Code | Actions |
|---|---|
| `app/upload/page.tsx`, `services/uploads.ts` | picking, confirming, `start` and its three answers, cancel, retry, the handoff to the editor |
| `app/projects/[id]/candidates/page.tsx` | the first load, `runAnalysis` with its call, its watch and its list, approve and the list read again, rerun |
| `components/PreviewApproveScreen.tsx` | the first load, build a preview, `beginProcessing`, the resume effect, both watchers |

### MaskEditor, MaskProperties

`useMaskWorkspace.ts` with its controls: shapes are identities, the canvas geometry and its
drawing are left out. `puts` are the saves in flight, each with the mask it carries; a save
that timed out may be served later. `raced` records that an edit or a request crossed
another one, or that half an approval failed: only then may the status line be wrong, and
`HonestUnlessRaced` says that it is honest otherwise.

### Checkout, CheckoutProperties

The checkout and billing pages, the user's one subscription row and the gateway with its
webhooks. Click `n` on Pay is what subscription `n` comes from. `Created`, `Cancelled`,
`Activated`, `Charged`, `Ended` are `payment_service.py`; `GatewayPays`, `GatewayRenews`,
`GatewayEnds` are the gateway, modelled from how the code uses it.

### AdminPages, AdminConsole, AdminLists, AdminSearch, AdminForms, AdminPanel, AdminProperties

`AdminPages` is data: for each page its states (`Rows`), its buttons with the permission and
the statuses the page names, and the server's route for each action with what *it* names.
The other modules are the four ways of using the panel, each followed by itself
(`AdminPanel`): a row with its dialog and its calls (`AdminConsole`), a list with its filter,
pages and cache (`AdminLists`), the search box (`AdminSearch`), a form (`AdminForms`).
A route's verdict follows the code's order: 403 for the permission, 409 for the row's status
or a missing reason (`takes`, `reason`), 409 or 422 for the number typed (`Fits`: a debit
beyond the balance, a refund beyond the rest, the 0 the dialog starts with), 403 for a large
refund (`Approved`). The number itself is abstracted to `Amounts`. A storage row is followed
through `cleanup_failed` as the page and the route treat the column; nothing in the code sets it.

## 4. The runs

| Run | Instance | Shows |
|---|---|---|
| `pipeline` | 2 workers, 2 requests, 2 jobs, 1 retry, any 2 disturbances | the lock excludes and implements `JobMutex`; completed jobs have their output; unfinished jobs are carried by something or were given up; finished jobs change only where `FinishedJobsReopenOnlyBy` says |
| `billing` | the same with 2 retries and any 3 of crash, hard kill, refused or lost publish, cancel, delete, reset | failed jobs are settled; delivered and refunded exclude each other and refunds do not repeat; output rows only of delivered jobs |
| `live` | 2 workers, 1 request, 2 jobs, fair | every queued job ends |
| `retention` | 1 project, 2 cleaners, originals, previews and outputs, 2 file names, any 1 optional operation but copies | `InWindowIsKept`, `NoStrayObjects`, `HoldHolds`, `QueuedSourceIsKept` |
| `retention_shared` | 2 projects, one possibly a copy of the other, 1 cleaner | `InWindowIsKept` with shared objects |
| `retention_live` | 1 project, 1 cleaner, all four swept buckets, any 2 of hold, fault and crash, fair | interrupted sweeps are made good, deleted projects end up naming nothing |
| `session` | 2 tabs, 2 calls each of which 2 may be under way, the Google button, 3 sessions | no call waits for a refresh that is gone; tabs follow localStorage; no tab is sent to the expiry page without a cause |
| `flow` | 2 files, 2 new projects, 3 analyses, 1 render | the editor's file is its project's; no spinner for ever; renders were reviewed; cards at rest exist |
| `mask` | 1 shape drawn beside a saved and a suggested one, 2 settings, 2 saves in flight, 1 suggestion | the status line is honest unless something crossed; processing is unlocked only with a mask; no shape is lost |
| `checkout` | 2 plans, 2 clicks on Pay, 2 webhooks under way | plans are paid for; what Pay showed is charged; a cancelled row does not renew; access is kept to the end |
| `admin` | every page with up to 2 calls and a move of others, lists of at most 2 rows in pages of 1, 2 search terms and 4 keystrokes, every form with 2 texts and 2 saves | buttons and server agree; what is shown at rest is true; typed text is used as meant |
| `checkout_cancel` | as `checkout` | a statement of the checkout page that the code does not keep (section 6) |

Why the bounds are enough. Races over a job need two workers and two messages, races of
the route two requests, and the interplay of an old and a new job two jobs. Each hazard
of section 1 needs at most two disturbances (refunding twice needs three: age, retry and a
failure, which is no disturbance). In retention, races need two cleaners, or a cleaner and
the owner; a second upload needs a second file name; copies need two projects. One optional
operation beside uploads, a job, ages and two cleaners, which are not bounded, is what 1.5
million states allow: an upload that dies, a worker that dies, a cancellation, each against
everything else. Two at once, proxies, audio and thumbnails beside re-uploads, and copies
with any of them are covered by the proofs only. In the browser, a shared refresh needs two calls of one
tab, a rotated token two tabs, and a third session a refresh after both have rotated; a
crossing of saves needs two of them; a second purchase needs two clicks. A wrong page of a
list needs two pages. Safety under larger instances is what the proofs are for.

`CHECK_DEADLOCK FALSE` in the pipeline's runs: when all jobs are finished and the bounds are
used up nothing is left to do; likewise at the end of a visit in `mask`, `flow`, `checkout`
and `admin`, whose clicks, texts and moves are bounded. Retention never stops, because
sweeps keep coming; neither does `session`, where one can always sign in, send or reset.

Fairness. Pipeline: workers keep taking steps, a request that has begun goes on, a
re-armed job is published (the route does it right after its commit) and Redis expires
keys. Not assumed: that an owner acts, that a lost message comes back, that disturbances
happen. Retention: time passes, begun uploads, previews and jobs go on, celery beat starts a sweep every ten
minutes and a sweep's calls return. Faults and crashes are among the optional operations
and therefore finitely many. The frontend's models state no fairness: what should
eventually happen there is stated as safety, a state whose continuation is still under way
(`WaitersHaveRefresh`, `NoStuckSpinner`).

## 5. The proofs

All theorems hold for every value of the constants that satisfies the module's
assumption (`ConstantsAssumption`, `RetentionAssumption`, `SessionAssumption`,
`CheckoutAssumption`, `MaskAssumption`, `UploadAssumption`, `FlowAssumption`, and the panel's
`PanelAssumption`, `ListAssumption`, `SearchAssumption`, `FormAssumption`: naturals where
numbers are meant, distinct special values, at least the three buckets that properties speak
of, pages, lists and forms that there are).

| Theorem | Argument |
|---|---|
| `PipelineProofs!TypeCorrect` | types with `Engaged`: a worker past `idle` has a job, and one past the guard saw it unfinished; requests likewise |
| `PipelineProofs!LockExcludes` | `OwnsItsLock`: a worker between SETNX and DELETE is the value of its job's key, so two of them are one. Needs `HardTimeLimit` |
| `PipelineProofs!PipelineImplementsMutex` | every step leaves the set of workers running each job alone or adds or removes one; entering needs a free key, hence an empty set |
| `OutcomeProofs!FailedAlwaysSettled` | `SettledInv`: a refund row that a worker finds belongs to a job already settled. Needs that masks are not deleted |
| `OutcomeProofs!CompletedAlwaysHasOutput` | `StoredBeforeCommit`: a worker about to commit has stored its object |
| `OutcomeProofs!NoJobForgotten` | `MovingInv`: what carries a job hands it on; a worker drops one only when it is finished, or counts it as lost |
| `OutcomeProofs!FinishedJobsAreFinal` | no transition leaves a finished state, and each action that writes a status without the table is one of the named exceptions |
| `RetentionProofs!TypeCorrect` | directly, action by action |
| `RetentionProofs!WindowsRespected` | see below |
| `OutcomeProofs!PaidBackOrDelivered`, `OutputRowsAreDelivered` | see below. Need that no publish is ambiguous, no job is given up as stale and none is re-armed |
| `RetentionProofs!HoldsRespected` | plans grow only where a cleaner begins, and then from rows not on hold or purged |
| `RetentionProofs!NothingStranded` | see below |
| `RetentionProofs!QueuedSourcesAreKept` | no invariant but the types: a step that leaves a job queued leaves its project in use unless it is one of the exceptions (`StaysInUse`), the row goes on naming its source (`SourceStays`), and a sweep that begins does not plan for a project in use (`PlansGrow`) |
| `SessionProofs!TypeCorrect`, `CheckoutProofs!TypeCorrect`, `MaskProofs!TypeCorrect`, `FlowProofs!TypeCorrect` | directly, action by action |
| `SessionProofs!NobodyWaitsForNothing` | each end of a refresh takes its tab's waiters along (`WaitersLocal`) |
| `SessionProofs!TabsFollowStorage` | whoever writes localStorage leaves an event for every other tab that listens |
| `SessionProofs!NobodyIsExpelled` | see below |
| `CheckoutProofs!PlansArePaid`, `ChargedAsSeen`, `CancelledIsStopped`, `AccessIsKept` | see below |
| `MaskProofs!UnlockedOnlyWithMask` | `MaskInv`: what is sent has a shape, and what was approved has put one on the server |
| `MaskProofs!StatusIsHonest` | see below |
| `MaskProofs!ShapesAreKept` | the lemmas on sequences: what appending, undoing and reversing do to the set of shapes |
| `FlowProofs!FileIsTheProjects`, `SpinnersEnd`, `RendersAreReviewed`, `CardsAreTrue` | see below |
| `AdminProofs!TypeCorrect`, `ScreensAreTrue`, `ButtonsAndServerAgree`, `TextIsUsedAsMeant` | see below |

`PaidBackOrDelivered` and `OutputRowsAreDelivered` rest on one fact, `OneCarrier`: as long as
every publish succeeds or fails openly, no waiting job is taken for a stale one and no
administrator re-arms one, a job has at most one carrier, be it the request that is about to
publish its message, the message or the worker that has taken it. A late
acknowledgement delivers a message again only after its worker died, so redelivery hands
the carrier on and does not make a second one. The rest of `OutcomeInv` follows a carrier:
until it settles the job nobody else has (`StillOpen`), and what it finds when its last
transition is refused is a job that was cancelled, which nobody refunds again
(`EncodedOrCancelled`). The lock is no part of the argument: with one carrier it may even
lapse. The three excluded disturbances are those after which a job has a second carrier or is
decided while its carrier is still at work; section 6 says how they break the properties.

`WindowsRespected` proves `InWindowIsKept`, which is not inductive: a sweep may delete, long
after, what it planned from rows that have changed since. `IInv` adds what survives that
delay. `NamesInv`: a row names its own objects, or shares objects with the project it
names. `PlanInv`: the same of planned artifacts, and the project of one is deleted, purged
or past the window - all of which are for ever, so the plan stays justified however stale
the rows are that it came from. `PutInv` and `MadeInv`: a preview, or what an upload has
stored, is there until it is named. Then whatever is deleted is safe for no project whose row
may name it, except the original of a refused upload that no row names (`DeletedIsUnsafe`).

`NothingStranded` proves `NoStrayObjects` from `StrayInv`. It is the converse of
`WindowsRespected`: not that what is named exists, but that what exists is named, or is one
of the causes the property lists. Until a project's first upload is completed (`FreshInv`)
its row names no source, no cleaner is after one, and what is in storage is on record: in
`made` of the request at work or in `abandoned`. From the commit on (`SourceInv`) the row
names the source, and a sweep which is going to clear the key has deleted that very object or
plans to, because without a second upload all names of a project are one (`PlainInv`). For
outputs (`OutputInv`) a key may be missing while a worker stands between storing the object
and naming it (`wk[p] = "put"`), and until the project is deleted, purged or past its window
no cleaner holds a plan for it. Two smaller parts keep this going: a row that does not exist
names nothing and has nobody at work on it (`RowsInv`), and only an administrator's
deletion, which marks the project purged, clears a key whatever storage says (`FilesInv`).
Each part is shown for the writers of its variables (the lemmas `KeyWriters`,
`StoredWriters`, `UploadWriters`, ...), not for every action.

`NobodyIsExpelled` needs `SteadyInv`: as long as `cause` is false, the stored session is live,
or in its grace window while a tab has the answer that replaces it on its way
(`StoredIsGood`); every refresh under way carries a live or grace token
(`RefreshesAreGood`); a session on its way to a tab is live, is not the stored one and
is nobody else's (`GrantsAreFresh`); and without a stored session nothing is under way
(`SignedOut`). The interesting step is a rotation: the stored session may pass into grace
only because the tab that rotated it then holds the answer, and its window cannot end
before that answer is handled.

The properties of `Checkout` follow from one invariant (`IInv` of `CheckoutProofs`): a click
has no subscription before it is served (`ClickInv`), so no creation overwrites one; a
webhook speaks of a subscription that was paid (`EventInv`); the row names a subscription of
the same plan (`RowInv`), which is why a late renewal cannot restore the wrong plan.

`StatusIsHonest` proves `HonestUnlessRaced` by `SteadyInv`: while `raced` is false at most one
load, save or approval is under way, it excludes the others, a save under way carries what
is on screen, and a mask that waits to be painted is the server's. An edit or a request
that begins while another is under way sets `raced`, so that each action finds the rest
quiet; the only arithmetic is that a painted set of shapes is the sequence's set again
(`SetToSeqSame`).

The project pages. `FileIsTheProjects` needs `CallInv`, which ties the phase of an upload to
the state of the project's row on the server and the file of the call to the file of the row,
and `HandInv`, which says it of the hand-over in all its stages: the file that waits, the
project the router is going to, the editor that took it. `SpinnersEnd` needs `UploadingInv`, that
the page which says it is uploading is the one whose call is at work, and `RendersAreReviewed`
`ReviewInv`: whatever lets the page ask for a render (the dialog, the request, the project it
has read) was preceded by a clip. `CardsAreTrue` needs `CardsInv`: as long as `crossed` is false
there is one run at most, cards are on screen only while nothing is analyzed, a run that has
read its list has read the last rows (`phase = "list"`), and so has a refused approval that
reads the list again (`relist`), unless it has read none.

The proof of `CardsAreTrue` changed its model. The invariant failed where an approval of an
old card was refused during a rerun: the page reads the list again, without a look at the run
that is deleting it. Two analyses, the bound of the run until then, are too few to reach
this; with three TLC finds it. `crossed` now names the case, the reading of a list and its
arrival are two steps, and the run's bound is three.

The admin panel has one invariant (`IInv` of `AdminProofs`) in four parts, one per view,
over tables that are compared once and for all.

- *The tables.* `Sound(p)`, for each of the pages (`EveryPageSound`): every button has its
  route, whoever sees the button may use the route (`Covers`), the route takes every status
  the button is offered on, but for two pairs the pages overlook (`Overlooked`), and asks for
  a reason only where the button does, and no route
  or other administrator moves the row to a status the page does not know (`Within`). The
  proof is by page, from the two copies of the permissions and the lists of statuses, and it
  is where a button added on one side only would fail.
- *A row* (`RowInv`). An open dialog and a call under way were offered (`WasOffered`), so with
  `Sound` only a change of role or row, what is overlooked, a number or a large refund can
  have the server say no (`Justified`). A text in the dialog is of
  its own action unless one was dismissed (`DialogOK`, `CallsOK`). `FreshOK`: unless a read
  is due, or a call is answered that asks for one (`Unheard`), what was read is the row.
- *A list* (`ListInv`). While no row goes, a page that is shown, asked for or kept in the cache
  is one that rows reach (`Reached`), and no answer counts more rows than there are (`Honest`).
  Where rows reach a page the storage list's shorter count reaches it too (`CountedRows`).
- *The search box* (`SearchInv`). Whoever was not cancelled asks for the text in the box.
- *A form* (`FormInv`). A button that waits waits for exactly the call of this opening
  (`BusyOK`), hence no text is accepted twice (`AddedOK`); a text not typed during a call is
  what every call under way carries (`DraftOK`), hence a success takes away only what the
  server took. `ServedOK`, `ReadOK` and `BaseOK` follow the record from the call that wrote it
  through the read that brings it to the fields, for each of the four ways a form is filled.

This proof changed its model too. `BaseOK` failed for the maintenance window: after another
administrator wrote and wrote back, a read brings what the cache already has, react-query
keeps the old object, and `useEffect([data])` (`maintenance/page.tsx:35`) does not run, so the
form stays as it was. `FormRead` used to forgive such a read; `Refilled` now says for which
forms a read is news.

Only model-checked: all liveness (`JobsSettle`, `DanglingIsRepaired`, `DeletedIsForgotten`),
which TLAPS does not reach.

## 6. Where the code and its comments disagree

The counterexample of a run:

- `checkout_cancel`: "You can cancel anytime from your account." (`checkout/page.tsx:432`). A
  second purchase makes the user's only row name the new subscription
  (`payment_service.py:285`); the old one goes on renewing and no account can cancel it.

Shown by the models without a run of their own; the passing properties name each as an
exception, and dropping the exception refutes them:

- A stale job cancelled by the route is refunded without its id; re-armed and failing again
  it is refunded a second time (`api/processing.py:155` against "at most one refund per job",
  `workers/tasks/processing.py:408`).
- "One active job per project" (`api/processing.py:175`) is checked before the user's row is
  locked, so two requests both create one.
- The guard that makes a redelivery "a clean no-op" (`workers/tasks/processing.py:186`) reads
  the job before the lock is taken; a second message that passed it runs a delivered job again.
- The sweep "only touches artifacts whose window has elapsed, never in-flight ones"
  (`maintenance.py:13`), but deletes the source of a job queued after it read the rows:
  `Process` without an `Available` source is an exception of `QueuedSourceIsKept`.
- "A queued/active/awaiting-approval project still needs its source" (`retention.py:116`), but
  an administrator's retry leaves the project failed, so that the next sweep takes the source
  of the queued job; so does a preview that fails while a job waits (`api/preview.py:132`
  sets the project to failed whatever its status). Both are exceptions of `QueuedSourceIsKept`,
  with the owner's own uploads and cancellations, administrators' deletions and other projects
  that share the source.
- Cancelling is for "an in-flight upload" (`upload_service.py:245`), but works on a completed
  one, also under a hold or a job; the original is deleted and the row goes on naming it.
- An upload that dies, a second one under another name, and a job cancelled, failed or lost
  after its output was stored leave objects that no row names and no sweep will find; the
  audio of an upload and the previews of earlier windows are never named by the row.
  `NoStrayObjects` lists the former as causes and does not speak of the latter.
- A hold "blocks retention cleanup and file deletion" (`retention.py:75`), but the moderation
  action `delete_files` does not look at it (`admin_service.py:1599`).
- The task "soft-deletes expired output rows" (`maintenance.py:7`), but tests the key it has
  just cleared, so rows go only where the deletion of the object failed.
- "A network drop / server restart mid-refresh must not log the user out" (`api.ts:100`): when
  the answer to a refresh that was served is lost, the browser keeps a token whose grace
  window runs out, and the next 401 does log it out. `ExpiryHasCause` names it as a cause.
- "Login/logout/token-rotation in one tab is reflected in all others" (`AuthHydrator.tsx:12`):
  `hydrate` ignores a removal, so a logout does not reach the stores of the other tabs.
  `StoreFollowsStorage` speaks of stored sessions only.
- A password change is to "keep the caller's own session valid"
  (`account_service.py:59`), but revokes every session.
- "A just-finished rerun may have replaced this candidate row" (`candidates/page.tsx:127`): the
  list is read again whether or not a rerun has just finished. During another rerun the page
  shows rows that this one deletes, and keeps them if it fails: `crossed` of `ShownCardsExist`.
  If that reading fails, "Approving..." stays on the button until a rerun (line 128).
- The payment page offers Refund while an amount is left (`payments/[id]/page.tsx:97`), so also
  on a failed payment, which the route answers with 409 (`api/admin.py:955`); the storage page
  offers Retry cleanup on every failed row (`storage/page.tsx:162`), which the service refuses
  for one locked, held or busy (`admin_service.py:1703`). `Overlooked` of `RefusedOnlyIfBehind`.
- The dialog's number starts at 0, not at the `numberDefault` its pages hand over
  (`ConfirmActionDialog.tsx:26` reads it once, before any dialog is open), and 0 is refused:
  `Numbered` of `RefusedOnlyIfBehind`.
- The storage list's `total` counts the rows up to the page asked for (`api/admin.py:1376`), so
  its Next is never offered and the rows after the first page are out of reach (`Counted`).
  `ShownIsTrue` speaks of empty pages only, which this does not make.
- "All changes saved" is shown over edits made while the save was under way (`SaveStatus`):
  `raced` of `HonestUnlessRaced`.

The maintenance form shows a saved window that is no longer in force when another
administrator has written the old one back since (`Refilled` in `FormRead`). Text typed while a
form's save is under way is lost when the save succeeds (`late` of `TypedTextIsSafe`), and the plan, template, maintenance and settings forms write
every field back without looking at a version. A page of a list whose last rows were deleted
stays empty without a way back (`gone` of `ShownIsTrue`). A failed global search reads "No
matches.".

Widening an instance beyond the named exceptions refutes the pipeline's properties:
`FailedIsSettled` with masks deleted under a queued job (failed without refund),
`RecordedOnlyIfDelivered` with a cancelled job re-armed under its worker (the failing commit
keeps the flushed output row), `JobsSettle` with a crash (a dead worker's key lives for
1800 s, a message retries twice after 120 s), `LockExclusive` without the hard time limit.
A job that is delivered during an ambiguous publish is failed and refunded by the route;
`FinishedJobsReopenOnlyBy` names this writer.

## 7. Not modelled

- Row locks and races between the statements of one transaction (READ COMMITTED): lost
  updates inside one action, deadlocks in PostgreSQL, two requests that cancel and refund
  one stale job, two administrators who demote each other.
- Progress figures, events and the event stream; the maintenance flag; the synchronous image
  branch of the `/process` route.
- Several owners: credits, locks and projects of different users do not interact, except
  through the worker pool's capacity.
- What the panel's routes do beyond the row on screen, except for jobs, holds and files,
  which the pipeline and retention have; invoices and the daily grant of credits.
- In the frontend: the profile form and the avatar, the player's controls, the comparison
  slider, canvas geometry, the dashboard and the marketing pages, which read once and keep
  no state; charts and static texts.
- E-mail, media and AI code: formatting, command lines and arithmetic on frames without
  state that other parts read.
