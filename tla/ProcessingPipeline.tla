------------------------ MODULE ProcessingPipeline ------------------------
(***************************************************************************)
(* The video processing pipeline of one project and its owner: the         *)
(* /process route (backend/app/api/processing.py) that charges and         *)
(* dispatches jobs, the Celery broker, the workers                         *)
(* (workers/tasks/processing.py) with their per-job Redis lock             *)
(* (workers/common.py), and the administrator's and the owner's actions on *)
(* jobs that are under way.                                                *)
(*                                                                         *)
(* Granularity.  One action is one database transaction.  It is split      *)
(* where the code, between reading a row and writing it, calls something   *)
(* outside the database (Redis, the broker, object storage, ffmpeg), waits *)
(* for a row lock, or commits.  Credits are counted in jobs: one unit is   *)
(* CREDITS_PER_JOB.                                                        *)
(***************************************************************************)
EXTENDS Naturals, FiniteSets, JobStates

CONSTANTS
  Workers,       \* worker processes (docker-compose.worker.yml: --concurrency=2)
  Requests,      \* concurrent POST /process requests of the project's owner
  MaxJobs,       \* bound: process jobs ever created for the project
  MaxTries,      \* settings.max_retries of the Celery task
  Plan,          \* the plan's credits_per_day, in jobs
  HardTimeLimit, \* the pool enforces task_time_limit (prefork does, solo does not)
  Disturbances,  \* which disturbances the environment may produce
  MaxDisturb,    \* bound: how many of them one behaviour contains
  Free, Orphan   \* lock values: no key; a key whose owner is dead

Jobs == 1..MaxJobs

\* crash: a worker dies, its message is redelivered (acks_late, reject_on_worker_lost)
\* hardkill: task_time_limit kills the task, its message is acknowledged
\* refuse: the broker refuses both publishes;  lose: the publisher dies first
\* ambiguous: a publish times out although the broker took the message
\* age: a job's created_at becomes older than _STALE_QUEUE_SECONDS
\* cancel, retry: administrator;  delete, unmask: owner;  reset: daily credit reset
AllDisturbances == {"crash", "hardkill", "refuse", "lose", "ambiguous", "age",
                    "cancel", "retry", "delete", "unmask", "reset"}

ASSUME ConstantsAssumption ==
  /\ MaxJobs \in Nat /\ MaxTries \in Nat /\ Plan \in Nat /\ MaxDisturb \in Nat
  /\ HardTimeLimit \in BOOLEAN
  /\ Disturbances \subseteq AllDisturbances
  /\ Free \notin Workers /\ Orphan \notin Workers /\ Free # Orphan

VARIABLES
  status,      \* ProcessingJob.status, "none" before the row exists
  old,         \* ProcessingJob.created_at is older than _STALE_QUEUE_SECONDS
  deleted,     \* VideoProject.deleted
  mask,        \* the project has a WatermarkMask row
  projStatus,  \* VideoProject.status
  outKey,      \* VideoProject.output_storage_key is set
  stored,      \* the object it names exists in storage
  recorded,    \* jobs whose worker committed an OutputFile row
  delivered,   \* history: jobs that were committed as completed
  balance,     \* User.credits_remaining
  refunds,     \* history: units given back on account of each job
  tagged,      \* jobs with a CreditTransaction (source refund) carrying their id
  settled,     \* history: jobs for which a refund was attempted
  queue,       \* messages in the broker, per job and Celery retry count
  lost,        \* history: jobs the last message of which was given up or never sent
  rearm,       \* jobs an administrator re-armed and has yet to re-enqueue
  lock,        \* the Redis key job_lock:<job>
  pc, wjob, seen, tries, raised,  \* each worker: step, job, status read, retries, outcome
  rpc, rjob, rtodo,               \* each request: step, its job, jobs still to scan
  disturb      \* how many disturbances are left

jobVars     == <<status, old>>
projectVars == <<deleted, mask, projStatus, outKey, stored, recorded, delivered>>
creditVars  == <<balance, refunds, tagged, settled>>
brokerVars  == <<queue, lost, rearm>>
workerVars  == <<pc, wjob, seen, tries, raised>>
requestVars == <<rpc, rjob, rtodo>>
vars == <<jobVars, projectVars, creditVars, brokerVars, lock, workerVars,
          requestVars, disturb>>

Live == {"created", "processing_queued", "processing", "encoding"}

\* Worker steps between taking and releasing the lock.
Working   == {"start", "extract", "inpaint", "encode", "persist"}
Releasing == {"release", "unlock"}
WorkerSteps  == {"idle", "fetched", "ack"} \cup Working \cup Releasing
RequestSteps == {"idle", "scan", "charge", "publish", "compensate"}

JobTypes ==
  /\ status \in [Jobs -> JobState \cup {"none"}]
  /\ old \in [Jobs -> BOOLEAN]

ProjectTypes ==
  /\ deleted \in BOOLEAN /\ mask \in BOOLEAN /\ outKey \in BOOLEAN /\ stored \in BOOLEAN
  /\ projStatus \in {"uploaded", "processing_queued", "completed", "failed"}
  /\ recorded \subseteq Jobs /\ delivered \subseteq Jobs

CreditTypes ==
  /\ balance \in 0..Plan
  /\ refunds \in [Jobs -> Nat]
  /\ tagged \subseteq Jobs /\ settled \subseteq Jobs

BrokerTypes ==
  /\ queue \in [Jobs -> [0..MaxTries -> Nat]]
  /\ lost \subseteq Jobs /\ rearm \subseteq Jobs

WorkerTypes ==
  /\ lock \in [Jobs -> Workers \cup {Free, Orphan}]
  /\ pc \in [Workers -> WorkerSteps]
  /\ wjob \in [Workers -> Jobs \cup {0}]
  /\ seen \in [Workers -> JobState \cup {"none"}]
  /\ tries \in [Workers -> 0..MaxTries]
  /\ raised \in [Workers -> BOOLEAN]

RequestTypes ==
  /\ rpc \in [Requests -> RequestSteps]
  /\ rjob \in [Requests -> Jobs \cup {0}]
  /\ rtodo \in [Requests -> SUBSET Jobs]
  /\ disturb \in 0..MaxDisturb

TypeOK == JobTypes /\ ProjectTypes /\ CreditTypes /\ BrokerTypes /\ WorkerTypes
          /\ RequestTypes

Init ==
  /\ status = [j \in Jobs |-> "none"]
  /\ old = [j \in Jobs |-> FALSE]
  /\ deleted = FALSE /\ mask = TRUE /\ outKey = FALSE /\ stored = FALSE
  /\ projStatus = "uploaded"
  /\ recorded = {} /\ delivered = {}
  /\ balance = Plan
  /\ refunds = [j \in Jobs |-> 0]
  /\ tagged = {} /\ settled = {}
  /\ queue = [j \in Jobs |-> [n \in 0..MaxTries |-> 0]]
  /\ lost = {} /\ rearm = {}
  /\ lock = [j \in Jobs |-> Free]
  /\ pc = [w \in Workers |-> "idle"]
  /\ wjob = [w \in Workers |-> 0]
  /\ seen = [w \in Workers |-> "none"]
  /\ tries = [w \in Workers |-> 0]
  /\ raised = [w \in Workers |-> FALSE]
  /\ rpc = [r \in Requests |-> "idle"]
  /\ rjob = [r \in Requests |-> 0]
  /\ rtodo = [r \in Requests |-> {}]
  /\ disturb = MaxDisturb

\* The environment produces one of the disturbances still left to it.
Disturb(kind) ==
  /\ kind \in Disturbances
  /\ disturb > 0
  /\ disturb' = disturb - 1

----------------------------------------------------------------------------
(* Credits.  refund_credits caps the balance at the plan's daily credits    *)
(* and writes a ledger row only when the balance really changed.            *)

\* Mutated form of Refunded: the balance is not capped at the plan.
RefundedUncapped(j) ==
  /\ settled' = settled \cup {j}
  /\ balance' = balance + 1
  /\ refunds' = [refunds EXCEPT ![j] = @ + 1]

Refunded(j) ==
  /\ settled' = settled \cup {j}
  /\ IF balance < Plan
       THEN balance' = balance + 1 /\ refunds' = [refunds EXCEPT ![j] = @ + 1]
       ELSE UNCHANGED <<balance, refunds>>

\* The routes refund without naming the job, so the row carries no job id.
RefundUntagged(j) == Refunded(j) /\ UNCHANGED tagged

\* The worker names the job, after looking for a row that already names it.
RefundTagged(j) ==
  IF j \in tagged
    THEN UNCHANGED creditVars
    ELSE /\ Refunded(j)
         /\ tagged' = IF balance < Plan THEN tagged \cup {j} ELSE tagged

----------------------------------------------------------------------------
(* POST /projects/{id}/process *)

ToScan(r) == IF rpc[r] = "idle" THEN {j \in Jobs : status[j] # "none"} ELSE rtodo[r]

\* The newest job of the scanned list that is not finished.
NewestLive(r, j) ==
  /\ j \in ToScan(r) /\ status[j] \in Live
  /\ \A k \in ToScan(r) : status[k] \in Live => k <= j

\* The request is admitted: the project is there and has a mask.
Scanning(r) == rpc[r] = "scan" \/ (rpc[r] = "idle" /\ ~deleted /\ mask)

Stale(j) == status[j] \in {"created", "processing_queued"} /\ old[j]

RequestDone(r) ==
  /\ rpc' = [rpc EXCEPT ![r] = "idle"]
  /\ rjob' = [rjob EXCEPT ![r] = 0]
  /\ rtodo' = [rtodo EXCEPT ![r] = {}]

\* _active_job finds a job a worker owns or will still pick up: the request
\* answers with it.
ReturnExisting(r) ==
  /\ Scanning(r)
  /\ \E j \in Jobs : NewestLive(r, j) /\ ~Stale(j)
  /\ RequestDone(r)
  /\ UNCHANGED <<jobVars, projectVars, creditVars, brokerVars, lock, workerVars, disturb>>

\* _active_job takes an old queued job for dead: cancel, refund, commit, go on.
CancelStale(r) ==
  /\ Scanning(r)
  /\ \E j \in Jobs :
       /\ NewestLive(r, j) /\ Stale(j)
       /\ status' = [status EXCEPT ![j] = "cancelled"]
       /\ RefundUntagged(j)
       /\ rtodo' = [rtodo EXCEPT ![r] = ToScan(r) \ {j}]
  /\ rpc' = [rpc EXCEPT ![r] = "scan"]
  /\ UNCHANGED <<old, projectVars, brokerVars, lock, workerVars, rjob, disturb>>

\* No active job: the request goes on to wait for the lock on the user row.
NoneActive(r) ==
  /\ Scanning(r)
  /\ \A j \in ToScan(r) : status[j] \notin Live
  /\ rpc' = [rpc EXCEPT ![r] = "charge"]
  /\ rtodo' = [rtodo EXCEPT ![r] = {}]
  /\ UNCHANGED <<jobVars, projectVars, creditVars, brokerVars, lock, workerVars,
                 rjob, disturb>>

\* deduct_credits answers 402.
InsufficientCredits(r) ==
  /\ rpc[r] = "charge" /\ balance = 0
  /\ RequestDone(r)
  /\ UNCHANGED <<jobVars, projectVars, creditVars, brokerVars, lock, workerVars, disturb>>

\* Charge, create the job, queue it and the project, in one commit.
ChargeAndCreate(r) ==
  /\ rpc[r] = "charge" /\ balance > 0
  /\ \E j \in Jobs :
       /\ status[j] = "none"
       /\ \A k \in Jobs : k < j => status[k] # "none"
       /\ status' = [status EXCEPT ![j] = "processing_queued"]
       /\ rjob' = [rjob EXCEPT ![r] = j]
  /\ balance' = balance - 1
  /\ projStatus' = "processing_queued"
  /\ rpc' = [rpc EXCEPT ![r] = "publish"]
  /\ UNCHANGED <<old, deleted, mask, outKey, stored, recorded, delivered, refunds, tagged,
                 settled, brokerVars, lock, workerVars, rtodo, disturb>>

Sent(j, n) ==
  /\ queue' = [queue EXCEPT ![j][0] = @ + n]
  /\ lost' = lost \ {j}

\* dispatch_task returns: one message, or two when the first publish timed out
\* although the broker had taken it and the second one succeeded.
Dispatch(r) ==
  /\ rpc[r] = "publish"
  /\ \/ Sent(rjob[r], 1) /\ UNCHANGED disturb
     \/ Sent(rjob[r], 2) /\ Disturb("ambiguous")
  /\ RequestDone(r)
  /\ UNCHANGED <<jobVars, projectVars, creditVars, rearm, lock, workerVars>>

\* dispatch_task raises BrokerUnavailable: both publishes failed, or seemed to.
DispatchRefused(r) ==
  /\ rpc[r] = "publish"
  /\ \/ Disturb("refuse") /\ UNCHANGED <<queue, lost>>
     \/ Disturb("ambiguous") /\ Sent(rjob[r], 1)
  /\ rpc' = [rpc EXCEPT ![r] = "compensate"]
  /\ UNCHANGED <<jobVars, projectVars, creditVars, rearm, lock, workerVars, rjob, rtodo>>

\* The API process dies before publishing, or the publish raises something else
\* than a connection error: the job stays queued and paid for.
DispatchLost(r) ==
  /\ rpc[r] = "publish"
  /\ Disturb("lose")
  /\ lost' = lost \cup {rjob[r]}
  /\ RequestDone(r)
  /\ UNCHANGED <<jobVars, projectVars, creditVars, queue, rearm, lock, workerVars>>

\* Mutated form of Compensate: the job fails without a refund.
CompensateUnpaid(r) ==
  /\ rpc[r] = "compensate"
  /\ status' = [status EXCEPT ![rjob[r]] = "failed"]
  /\ RequestDone(r)
  /\ UNCHANGED <<old, projectVars, creditVars, brokerVars, lock, workerVars, disturb>>

\* The except branch: refund and mark the job failed.  Its view of the job is the
\* row db.refresh() read before the publish, processing_queued, so the transition
\* is legal whatever a worker has made of the row since.
Compensate(r) ==
  /\ rpc[r] = "compensate"
  /\ RefundUntagged(rjob[r])
  /\ status' = [status EXCEPT ![rjob[r]] = "failed"]
  /\ RequestDone(r)
  /\ UNCHANGED <<old, projectVars, brokerVars, lock, workerVars, disturb>>

----------------------------------------------------------------------------
(* The worker: process_video, run_pipeline, _execute_job *)

Go(w, step) == pc' = [pc EXCEPT ![w] = step]

WorkerIdle(w) ==
  /\ Go(w, "idle")
  /\ wjob' = [wjob EXCEPT ![w] = 0]
  /\ seen' = [seen EXCEPT ![w] = "none"]
  /\ tries' = [tries EXCEPT ![w] = 0]
  /\ raised' = [raised EXCEPT ![w] = FALSE]

\* Celery's self.retry: another message with a higher count, or none at all once
\* max_retries is reached.
Requeued(j, n) ==
  IF n < MaxTries
    THEN queue' = [queue EXCEPT ![j][n + 1] = @ + 1] /\ UNCHANGED lost
    ELSE lost' = lost \cup {j} /\ UNCHANGED queue

\* A worker takes a message and reads the job row and the mask.  A finished job is a
\* no-op.
Fetch(w) ==
  /\ pc[w] = "idle" /\ mask
  /\ \E j \in Jobs, n \in 0..MaxTries :
       /\ queue[j][n] > 0
       /\ queue' = [queue EXCEPT ![j][n] = @ - 1]
       /\ IF status[j] \in Terminal
            THEN UNCHANGED workerVars
            ELSE /\ Go(w, "fetched")
                 /\ wjob' = [wjob EXCEPT ![w] = j]
                 /\ seen' = [seen EXCEPT ![w] = status[j]]
                 /\ tries' = [tries EXCEPT ![w] = n]
                 /\ UNCHANGED raised
  /\ UNCHANGED <<jobVars, projectVars, creditVars, lost, rearm, lock, requestVars, disturb>>

\* MASK_MISSING: before the guard for finished jobs and without the lock, the job is
\* marked failed, nothing is refunded and the project keeps its status.  For a finished
\* job other than a failed one mark_failed raises, and the message is retried.
MaskMissing(w) ==
  /\ pc[w] = "idle" /\ ~mask
  /\ \E j \in Jobs, n \in 0..MaxTries :
       /\ queue[j][n] > 0
       /\ queue' = [queue EXCEPT ![j][n] = @ - 1]
       /\ IF TransitionOK(status[j], "failed")
            THEN status' = [status EXCEPT ![j] = "failed"] /\ UNCHANGED workerVars
            ELSE /\ Go(w, "ack")
                 /\ wjob' = [wjob EXCEPT ![w] = j]
                 /\ tries' = [tries EXCEPT ![w] = n]
                 /\ raised' = [raised EXCEPT ![w] = TRUE]
                 /\ UNCHANGED <<status, seen>>
  /\ UNCHANGED <<old, projectVars, creditVars, lost, rearm, lock, requestVars, disturb>>

\* Mutated form of Acquire: SET without NX.
AcquireAnyway(w) ==
  /\ pc[w] = "fetched"
  /\ lock' = [lock EXCEPT ![wjob[w]] = w]
  /\ Go(w, "start")
  /\ UNCHANGED <<jobVars, projectVars, creditVars, brokerVars, wjob, seen, tries, raised,
                 requestVars, disturb>>

\* SET job_lock:<job> NX EX.
Acquire(w) ==
  /\ pc[w] = "fetched"
  /\ lock[wjob[w]] = Free
  /\ lock' = [lock EXCEPT ![wjob[w]] = w]
  /\ Go(w, "start")
  /\ UNCHANGED <<jobVars, projectVars, creditVars, brokerVars, wjob, seen, tries, raised,
                 requestVars, disturb>>

BeingReleased(j) == lock[j] \in Workers /\ pc[lock[j]] \in Releasing

\* LockBusy: retry in 120 s.  Timing: a holder that is already releasing is done
\* long before the retries are, so they do not run out on it.
LockBusy(w) ==
  /\ pc[w] = "fetched"
  /\ lock[wjob[w]] # Free
  /\ tries[w] = MaxTries => ~BeingReleased(wjob[w])
  /\ Requeued(wjob[w], tries[w])
  /\ WorkerIdle(w)
  /\ UNCHANGED <<jobVars, projectVars, creditVars, rearm, lock, requestVars, disturb>>

\* _fail, for a job whose row reads s; key: the transaction still holds the output
\* row and key that record_output and complete_project flushed before the error.
\* From a terminal state other than failed, mark_failed raises: nothing commits.
Fail(w, s, key) ==
  LET j == wjob[w] IN
  /\ Go(w, "release")
  /\ IF TransitionOK(s, "failed")
       THEN /\ status' = [status EXCEPT ![j] = "failed"]
            /\ projStatus' = "failed"
            /\ outKey' = (outKey \/ key)
            /\ recorded' = IF key THEN recorded \cup {j} ELSE recorded
            /\ IF s \in Terminal THEN UNCHANGED creditVars ELSE RefundTagged(j)
            /\ raised' = raised
       ELSE /\ raised' = [raised EXCEPT ![w] = TRUE]
            /\ UNCHANGED <<status, projStatus, outKey, recorded, creditVars>>

\* Mutated form of Advance: the status is assigned without the table's check.
AdvanceUnchecked(w, from, target, next) ==
  /\ pc[w] = from
  /\ status' = [status EXCEPT ![wjob[w]] = target]
  /\ Go(w, next)
  /\ UNCHANGED <<old, projectVars, creditVars, brokerVars, lock, wjob, seen, tries, raised,
                 requestVars, disturb>>

\* A step whose transition to target commits, or raises into _fail.
Advance(w, from, target, next) ==
  LET j == wjob[w] IN
  /\ pc[w] = from
  /\ IF TransitionOK(status[j], target)
       THEN /\ status' = [status EXCEPT ![j] = target]
            /\ Go(w, next)
            /\ UNCHANGED <<projStatus, outKey, recorded, creditVars, raised>>
       ELSE Fail(w, status[j], FALSE)
  /\ UNCHANGED <<old, deleted, mask, stored, delivered, brokerVars, lock, wjob, seen, tries,
                 requestVars, disturb>>

\* Under the lock, with the status read before it was taken: to processing.
Start(w) ==
  LET j == wjob[w] IN
  /\ pc[w] = "start"
  /\ IF TransitionOK(seen[w], "processing")
       THEN /\ status' = [status EXCEPT ![j] = IF seen[w] = "processing" THEN @
                                                                         ELSE "processing"]
            /\ Go(w, "extract")
            /\ UNCHANGED <<projStatus, outKey, recorded, creditVars, raised>>
       ELSE Fail(w, seen[w], FALSE)
  /\ UNCHANGED <<old, deleted, mask, stored, delivered, brokerVars, lock, wjob, seen, tries,
                 requestVars, disturb>>

\* Frames extracted; then the row is read again for the "inpaint" stage.
Extract(w) == Advance(w, "extract", "processing", "inpaint")

\* Every frame inpainted (progress only); then to encoding.
Inpaint(w) == Advance(w, "inpaint", "encoding", "encode")

\* Mutated form of Encode: the upload is left for after the commit.
EncodeUploadLater(w) ==
  /\ pc[w] = "encode"
  /\ Go(w, "persist")
  /\ UNCHANGED <<jobVars, projectVars, creditVars, brokerVars, lock, wjob, seen, tries,
                 raised, requestVars, disturb>>

\* Encoded and validated; the output object is put into storage.
Encode(w) ==
  /\ pc[w] = "encode"
  /\ stored' = TRUE
  /\ Go(w, "persist")
  /\ UNCHANGED <<jobVars, deleted, mask, projStatus, outKey, recorded, delivered, creditVars,
                 brokerVars, lock, wjob, seen, tries, raised, requestVars, disturb>>

\* Mutated form of Persist: the output row is committed before the transition.
PersistRowFirst(w) ==
  LET j == wjob[w]
      ok == TransitionOK(status[j], "completed") IN
  /\ pc[w] = "persist"
  /\ recorded' = recorded \cup {j}
  /\ outKey' = TRUE
  /\ status' = [status EXCEPT ![j] = IF ok THEN "completed" ELSE @]
  /\ projStatus' = "completed"
  /\ delivered' = IF ok THEN delivered \cup {j} ELSE delivered
  /\ raised' = [raised EXCEPT ![w] = ~ok]
  /\ Go(w, "release")
  /\ UNCHANGED <<old, deleted, mask, stored, creditVars, brokerVars, lock, wjob, seen, tries,
                 requestVars, disturb>>

\* record_output, complete_project and the transition to completed, one commit.
Persist(w) ==
  LET j == wjob[w] IN
  /\ pc[w] = "persist"
  /\ IF TransitionOK(status[j], "completed")
       THEN /\ status' = [status EXCEPT ![j] = "completed"]
            /\ projStatus' = "completed"
            /\ outKey' = TRUE
            /\ recorded' = recorded \cup {j}
            /\ delivered' = delivered \cup {j}
            /\ Go(w, "release")
            /\ UNCHANGED <<creditVars, raised>>
       ELSE Fail(w, status[j], TRUE) /\ UNCHANGED delivered
  /\ UNCHANGED <<old, deleted, mask, stored, brokerVars, lock, wjob, seen, tries, requestVars,
                 disturb>>

\* A download, ffmpeg, decoding, validation or storage error, or the soft time limit.
WorkFails(w) ==
  /\ pc[w] \in {"extract", "inpaint", "encode"}
  /\ Fail(w, status[wjob[w]], FALSE)
  /\ UNCHANGED <<old, deleted, mask, stored, delivered, brokerVars, lock, wjob, seen, tries,
                 requestVars, disturb>>

\* job_lock's finally: GET, and DELETE only if the value was still ours.
ReleaseGet(w) ==
  /\ pc[w] = "release"
  /\ Go(w, IF lock[wjob[w]] = w THEN "unlock" ELSE "ack")
  /\ UNCHANGED <<jobVars, projectVars, creditVars, brokerVars, lock, wjob, seen, tries,
                 raised, requestVars, disturb>>

\* Mutated form of ReleaseDelete: the key is left to its TTL.
ReleaseForgotten(w) ==
  /\ pc[w] = "unlock"
  /\ Go(w, "ack")
  /\ UNCHANGED <<jobVars, projectVars, creditVars, brokerVars, lock, wjob, seen, tries,
                 raised, requestVars, disturb>>

ReleaseDelete(w) ==
  /\ pc[w] = "unlock"
  /\ lock' = [lock EXCEPT ![wjob[w]] = Free]
  /\ Go(w, "ack")
  /\ UNCHANGED <<jobVars, projectVars, creditVars, brokerVars, wjob, seen, tries, raised,
                 requestVars, disturb>>

\* process_video returns and the message is acknowledged, or it retries.
Ack(w) ==
  /\ pc[w] = "ack"
  /\ IF raised[w] THEN Requeued(wjob[w], tries[w]) ELSE UNCHANGED <<queue, lost>>
  /\ WorkerIdle(w)
  /\ UNCHANGED <<jobVars, projectVars, creditVars, rearm, lock, requestVars, disturb>>

\* Mutated form of Die: the message was acknowledged when it was received.
DieAckedEarly(w) ==
  /\ pc[w] # "idle"
  /\ Disturb("crash")
  /\ lock' = IF lock[wjob[w]] = w THEN [lock EXCEPT ![wjob[w]] = Orphan] ELSE lock
  /\ WorkerIdle(w)
  /\ UNCHANGED <<jobVars, projectVars, creditVars, brokerVars, requestVars>>

\* A worker dies: whatever it had not committed is gone, its lock stays behind.
\* A crash redelivers the message, the hard time limit acknowledges it.
Die(w) ==
  /\ pc[w] # "idle"
  /\ \/ /\ Disturb("crash")
        /\ queue' = [queue EXCEPT ![wjob[w]][tries[w]] = @ + 1]
        /\ UNCHANGED lost
     \/ /\ Disturb("hardkill")
        /\ HardTimeLimit
        /\ lost' = lost \cup {wjob[w]}
        /\ UNCHANGED queue
  /\ lock' = IF lock[wjob[w]] = w THEN [lock EXCEPT ![wjob[w]] = Orphan] ELSE lock
  /\ WorkerIdle(w)
  /\ UNCHANGED <<jobVars, projectVars, creditVars, rearm, requestVars>>

\* Mutated form of LockExpires: job_lock's default TTL of 600 s, shorter than a task.
LockExpiresEarly(j) ==
  /\ lock[j] # Free
  /\ lock' = [lock EXCEPT ![j] = Free]
  /\ UNCHANGED <<jobVars, projectVars, creditVars, brokerVars, workerVars, requestVars,
                 disturb>>

\* The key's TTL lapses.  The TTL equals task_time_limit and starts later than the
\* task, so where the limit is enforced it only ever lapses on a dead owner.
LockExpires(j) ==
  /\ lock[j] = Orphan \/ (lock[j] \in Workers /\ ~HardTimeLimit)
  /\ lock' = [lock EXCEPT ![j] = Free]
  /\ UNCHANGED <<jobVars, projectVars, creditVars, brokerVars, workerVars, requestVars,
                 disturb>>

----------------------------------------------------------------------------
(* Administrator, owner, clock *)

\* Mutated form of AdminCancel: the cancelled job is refunded at once.
AdminCancelRefunds(j) ==
  /\ Disturb("cancel")
  /\ status[j] \in Live
  /\ status' = [status EXCEPT ![j] = "cancelled"]
  /\ RefundTagged(j)
  /\ UNCHANGED <<old, projectVars, brokerVars, lock, workerVars, requestVars>>

AdminCancel(j) ==
  /\ Disturb("cancel")
  /\ status[j] \in Live
  /\ status' = [status EXCEPT ![j] = "cancelled"]
  /\ UNCHANGED <<old, projectVars, creditVars, brokerVars, lock, workerVars, requestVars>>

\* A failed or cancelled job is re-armed without a new charge, and committed ...
AdminRetry(j) ==
  /\ Disturb("retry")
  /\ status[j] \in {"failed", "cancelled"}
  /\ status' = [status EXCEPT ![j] = "processing_queued"]
  /\ rearm' = rearm \cup {j}
  /\ UNCHANGED <<old, projectVars, creditVars, queue, lost, lock, workerVars, requestVars>>

\* ... before it is published, if it still reads processing_queued; an error of the
\* broker is not handled.
Reenqueue(j) ==
  /\ j \in rearm
  /\ rearm' = rearm \ {j}
  /\ IF status[j] = "processing_queued"
       THEN \/ Sent(j, 1) /\ UNCHANGED disturb
            \/ Disturb("refuse") /\ lost' = lost \cup {j} /\ UNCHANGED queue
       ELSE UNCHANGED <<queue, lost, disturb>>
  /\ UNCHANGED <<jobVars, projectVars, creditVars, lock, workerVars, requestVars>>

\* DELETE /projects/{id}: cancel what is not finished, by assignment.
DeleteProject ==
  /\ Disturb("delete")
  /\ ~deleted
  /\ deleted' = TRUE
  /\ status' = [j \in Jobs |-> IF status[j] \in Live THEN "cancelled" ELSE status[j]]
  /\ UNCHANGED <<old, mask, projStatus, outKey, stored, recorded, delivered, creditVars,
                 brokerVars, lock, workerVars, requestVars>>

\* DELETE and PUT /projects/{id}/mask, also while a job is under way.
DeleteMask ==
  /\ Disturb("unmask")
  /\ ~deleted /\ mask
  /\ mask' = FALSE
  /\ UNCHANGED <<jobVars, deleted, projStatus, outKey, stored, recorded, delivered,
                 creditVars, brokerVars, lock, workerVars, requestVars>>

PutMask ==
  /\ ~deleted /\ ~mask
  /\ mask' = TRUE
  /\ UNCHANGED <<jobVars, deleted, projStatus, outKey, stored, recorded, delivered,
                 creditVars, brokerVars, lock, workerVars, requestVars, disturb>>

\* reset_daily_credits.
ResetCredits ==
  /\ Disturb("reset")
  /\ balance' = Plan
  /\ UNCHANGED <<jobVars, projectVars, refunds, tagged, settled, brokerVars, lock,
                 workerVars, requestVars>>

Age(j) ==
  /\ Disturb("age")
  /\ status[j] # "none" /\ ~old[j]
  /\ old' = [old EXCEPT ![j] = TRUE]
  /\ UNCHANGED <<status, projectVars, creditVars, brokerVars, lock, workerVars, requestVars>>

RequestStep(r) ==
  \/ ReturnExisting(r) \/ CancelStale(r) \/ NoneActive(r) \/ InsufficientCredits(r)
  \/ ChargeAndCreate(r) \/ Dispatch(r) \/ DispatchRefused(r) \/ DispatchLost(r)
  \/ Compensate(r)

WorkerStep(w) ==
  \/ Fetch(w) \/ MaskMissing(w) \/ Acquire(w) \/ LockBusy(w) \/ Start(w) \/ Extract(w)
  \/ Inpaint(w) \/ Encode(w) \/ Persist(w) \/ WorkFails(w) \/ ReleaseGet(w) \/ ReleaseDelete(w)
  \/ Ack(w)

Next ==
  \/ \E r \in Requests : RequestStep(r)
  \/ \E w \in Workers : WorkerStep(w) \/ Die(w)
  \/ \E j \in Jobs : LockExpires(j) \/ AdminCancel(j) \/ AdminRetry(j) \/ Reenqueue(j)
                     \/ Age(j)
  \/ DeleteProject \/ DeleteMask \/ PutMask
  \/ ResetCredits

Spec == Init /\ [][Next]_vars

\* Every worker keeps taking steps, requests that began go on, a re-armed job is
\* published and Redis expires keys.  Nothing else is owed.
Fairness ==
  /\ \A w \in Workers : WF_vars(WorkerStep(w))
  /\ \A r \in Requests : WF_vars(rpc[r] # "idle" /\ RequestStep(r))
  /\ \A j \in Jobs : WF_vars(Reenqueue(j)) /\ WF_vars(LockExpires(j))

FairSpec == Spec /\ Fairness
============================================================================
