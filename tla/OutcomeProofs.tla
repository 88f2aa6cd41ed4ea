--------------------------- MODULE OutcomeProofs ---------------------------
(***************************************************************************)
(* What a finished job guarantees, for any number of workers, requests and *)
(* jobs, under every disturbance: a failed one was refunded, a completed   *)
(* one has its output in storage.                                          *)
(***************************************************************************)
EXTENDS PipelineProofs

USE ConstantsAssumption DEF Terminal, Working, Releasing, WorkerSteps, Live

\* A refund that carries the job's id was a refund attempt for that job; with it a
\* worker that finds the row, and so gives nothing, still leaves a settled job.
\* With no mask ever deleted there is always one, and no worker takes the branch that
\* fails a job without a refund.
SettledInv == TypeInv /\ mask /\ FailedIsSettled /\ tagged \subseteq settled

\* What the database step of a failing worker does to jobs and refunds.
LEMMA FailSettles ==
  ASSUME SettledInv, NEW w \in Workers, NEW s, NEW key, wjob[w] \in Jobs, Fail(w, s, key),
         s \notin Terminal \/ s = status[wjob[w]]
  PROVE  FailedIsSettled' /\ (tagged \subseteq settled)'
<1> USE DEF SettledInv, FailedIsSettled
<1>t. status \in [Jobs -> JobState \cup {"none"}]
  BY DEF TypeInv, TypeOK, JobTypes
<1>1. CASE TransitionOK(s, "failed")
  <2>1. status' = [status EXCEPT ![wjob[w]] = "failed"]
    BY <1>1 DEF Fail
  <2>2. CASE s \in Terminal
    <3>1. UNCHANGED creditVars
      BY <1>1, <2>2 DEF Fail
    <3>2. s = "failed"
      BY <1>1, <2>2 DEF TransitionOK, CanTransition, Transitions
    <3>3. QED
      BY <1>t, <2>1, <2>2, <3>1, <3>2 DEF creditVars
  <2>3. CASE s \notin Terminal
    <3>1. RefundTagged(wjob[w])
      BY <1>1, <2>3 DEF Fail
    <3>2. settled \subseteq settled' /\ wjob[w] \in settled' /\ (tagged \subseteq settled)'
      BY <3>1 DEF RefundTagged, Refunded, creditVars
    <3>3. QED
      BY <1>t, <2>1, <3>2
  <2>4. QED
    BY <2>2, <2>3
<1>2. CASE ~TransitionOK(s, "failed")
  BY <1>2 DEF Fail, creditVars
<1>3. QED
  BY <1>1, <1>2

LEMMA SettledInductive ==
  ASSUME "unmask" \notin Disturbances, SettledInv, [Next]_vars
  PROVE  FailedIsSettled' /\ (tagged \subseteq settled)'
<1> USE DEF SettledInv, FailedIsSettled
<1>t. /\ status \in [Jobs -> JobState \cup {"none"}]
      /\ \A w \in Workers : pc[w] # "idle" => wjob[w] \in Jobs /\ seen[w] \notin Terminal
      /\ \A r \in Requests : rpc[r] = "compensate" => rjob[r] \in Jobs
  BY DEF TypeInv, TypeOK, JobTypes, Engaged
\* Steps that refund nothing and fail nothing.
<1>1. CASE /\ UNCHANGED <<tagged, settled>>
           /\ \A j \in Jobs : status'[j] = "failed" => status[j] = "failed"
  BY <1>1
<1>2. ASSUME NEW r \in Requests, RequestStep(r)
      PROVE  FailedIsSettled' /\ (tagged \subseteq settled)'
  <2>1. CASE CancelStale(r)
    BY <1>t, <2>1 DEF CancelStale, RefundUntagged, Refunded
  <2>2. CASE Compensate(r)
    BY <1>t, <2>2 DEF Compensate, RefundUntagged, Refunded
  <2>3. CASE ChargeAndCreate(r)
    BY <1>t, <1>1, <2>3 DEF ChargeAndCreate
  <2>4. CASE UNCHANGED <<jobVars, creditVars>>
    BY <1>1, <2>4 DEF jobVars, creditVars
  <2>5. QED
    BY <1>2, <2>1, <2>2, <2>3, <2>4 DEF RequestStep, ReturnExisting, NoneActive,
       InsufficientCredits, Dispatch, DispatchRefused, DispatchLost
<1>3. ASSUME NEW w \in Workers, WorkerStep(w) \/ Die(w)
      PROVE  FailedIsSettled' /\ (tagged \subseteq settled)'
  <2>1. CASE UNCHANGED <<jobVars, creditVars>>
    BY <1>1, <2>1 DEF jobVars, creditVars
  <2>2. CASE \E s, key : Fail(w, s, key) /\ (s \notin Terminal \/ s = status[wjob[w]])
                         /\ wjob[w] \in Jobs
    BY <2>2, FailSettles
  <2>3. CASE Start(w)
    BY <1>t, <1>1, <2>2, <2>3 DEF Start, creditVars
  <2>4. ASSUME NEW from \in WorkerSteps \ {"idle"}, NEW target \in {"processing", "encoding"},
               NEW next, Advance(w, from, target, next)
        PROVE  FailedIsSettled' /\ (tagged \subseteq settled)'
    BY <1>t, <1>1, <2>2, <2>4 DEF Advance, creditVars
  <2>5. CASE Extract(w) \/ Inpaint(w)
    BY <2>4, <2>5 DEF Extract, Inpaint
  <2>6. CASE Persist(w)
    BY <1>t, <1>1, <2>2, <2>6 DEF Persist, creditVars
  <2>7. CASE WorkFails(w)
    BY <1>t, <2>2, <2>7 DEF WorkFails
  <2>8. QED
    BY <1>3, <2>1, <2>3, <2>5, <2>6, <2>7 DEF WorkerStep, Fetch, MaskMissing, Acquire,
       LockBusy, Encode, ReleaseGet, ReleaseDelete, Ack, Die
<1>4. ASSUME NEW j \in Jobs,
             LockExpires(j) \/ AdminCancel(j) \/ AdminRetry(j) \/ Reenqueue(j) \/ Age(j)
      PROVE  FailedIsSettled' /\ (tagged \subseteq settled)'
  BY <1>t, <1>1, <1>4 DEF LockExpires, AdminCancel, AdminRetry, Reenqueue, Age, jobVars,
     creditVars
<1>5. CASE DeleteProject \/ DeleteMask \/ PutMask \/ ResetCredits
  BY <1>t, <1>1, <1>5 DEF DeleteProject, DeleteMask, PutMask, ResetCredits, jobVars, creditVars
<1>6. CASE UNCHANGED vars
  BY <1>1, <1>6 DEF vars, jobVars, creditVars
<1>7. QED
  BY <1>2, <1>3, <1>4, <1>5, <1>6 DEF Next

\* Only DeleteMask removes the mask.
LEMMA MaskStays ==
  ASSUME "unmask" \notin Disturbances, mask, [Next]_vars
  PROVE  mask'
<1>1. CASE UNCHANGED mask
  BY <1>1
<1>2. ASSUME NEW r \in Requests, RequestStep(r) PROVE mask'
  BY <1>1, <1>2 DEF RequestStep, ReturnExisting, CancelStale, NoneActive,
     InsufficientCredits, ChargeAndCreate, Dispatch, DispatchRefused, DispatchLost,
     Compensate, projectVars
<1>3. ASSUME NEW w \in Workers, WorkerStep(w) \/ Die(w) PROVE mask'
  BY <1>1, <1>3 DEF WorkerStep, Fetch, MaskMissing, Acquire, LockBusy, Start, Extract,
     Inpaint, Advance, Encode, Persist, WorkFails, ReleaseGet, ReleaseDelete, Ack, Die,
     projectVars
<1>4. ASSUME NEW j \in Jobs,
             LockExpires(j) \/ AdminCancel(j) \/ AdminRetry(j) \/ Reenqueue(j) \/ Age(j)
      PROVE  mask'
  BY <1>1, <1>4 DEF LockExpires, AdminCancel, AdminRetry, Reenqueue, Age, projectVars
<1>5. CASE DeleteProject \/ DeleteMask \/ PutMask \/ ResetCredits
  BY <1>1, <1>5 DEF DeleteProject, DeleteMask, PutMask, ResetCredits, Disturb, projectVars
<1>6. CASE UNCHANGED vars
  BY <1>1, <1>6 DEF vars, projectVars
<1>7. QED
  BY <1>2, <1>3, <1>4, <1>5, <1>6 DEF Next

\* Where no mask is ever deleted, no job reads failed without a refund having been
\* attempted for it, whichever of the route's compensation, the worker and the worker
\* that takes over a dead one's message marked it.
THEOREM FailedAlwaysSettled ==
  ASSUME "unmask" \notin Disturbances PROVE Spec => []FailedIsSettled
<1>1. Init => mask /\ FailedIsSettled /\ tagged \subseteq settled
  BY DEF Init, FailedIsSettled
<1>2. TypeInv /\ (mask /\ FailedIsSettled /\ tagged \subseteq settled) /\ [Next]_vars
        => (mask /\ FailedIsSettled /\ tagged \subseteq settled)'
  BY SettledInductive, MaskStays DEF SettledInv
<1>3. QED
  BY <1>1, <1>2, TypesAlways, PTL DEF Spec

----------------------------------------------------------------------------
(* A completed job has its output. *)

\* The upload comes before the commit that points at it: a worker about to commit
\* has put the object into storage.  Without this conjunct CompletedHasOutput is not
\* inductive.
StoredBeforeCommit == \A w \in Workers : pc[w] = "persist" => stored

OutputInv == CompletedHasOutput /\ StoredBeforeCommit

LEMMA OutputInductive ==
  ASSUME TypeInv, OutputInv, [Next]_vars
  PROVE  OutputInv'
<1> USE DEF OutputInv, CompletedHasOutput, StoredBeforeCommit
<1>t. /\ status \in [Jobs -> JobState \cup {"none"}]
      /\ pc \in [Workers -> WorkerSteps]
      /\ delivered \subseteq Jobs
      /\ \A w \in Workers : pc[w] # "idle" => wjob[w] \in Jobs
  BY DEF TypeInv, TypeOK, JobTypes, WorkerTypes, ProjectTypes, Engaged
\* Steps that complete nothing and bring no worker to its commit.
<1>1. CASE /\ UNCHANGED <<outKey, stored, delivered>>
           /\ projStatus' = "completed" => projStatus = "completed"
           /\ \A j \in Jobs : status'[j] = "completed" => status[j] = "completed"
           /\ \A w \in Workers : pc'[w] = "persist" => pc[w] = "persist"
  BY <1>1
<1>2. ASSUME NEW r \in Requests, RequestStep(r) PROVE OutputInv'
  <2>1. CASE CancelStale(r)
    BY <1>t, <1>1, <2>1 DEF CancelStale, projectVars, workerVars
  <2>2. CASE Compensate(r)
    BY <1>t, <1>1, <2>2 DEF Compensate, projectVars, workerVars
  <2>3. CASE ChargeAndCreate(r)
    BY <1>t, <1>1, <2>3 DEF ChargeAndCreate, workerVars
  <2>4. CASE UNCHANGED <<jobVars, projectVars, workerVars>>
    BY <1>1, <2>4 DEF jobVars, projectVars, workerVars
  <2>5. QED
    BY <1>2, <2>1, <2>2, <2>3, <2>4 DEF RequestStep, ReturnExisting, NoneActive,
       InsufficientCredits, Dispatch, DispatchRefused, DispatchLost
<1>3. ASSUME NEW w \in Workers, WorkerStep(w) \/ Die(w) PROVE OutputInv'
  <2>1. ASSUME NEW s, NEW key \in BOOLEAN, Fail(w, s, key), wjob[w] \in Jobs,
               key => stored, UNCHANGED <<stored, delivered>>
        PROVE  OutputInv'
    <3>1. pc' = [pc EXCEPT ![w] = "release"]
      BY <2>1 DEF Fail, Go
    <3>2. CASE TransitionOK(s, "failed")
      <4>1. /\ status' = [status EXCEPT ![wjob[w]] = "failed"]
            /\ projStatus' = "failed" /\ outKey' = (outKey \/ key)
        BY <2>1, <3>2 DEF Fail
      <4>2. QED
        BY <1>t, <2>1, <3>1, <4>1
    <3>3. CASE ~TransitionOK(s, "failed")
      <4>1. UNCHANGED <<status, projStatus, outKey>>
        BY <2>1, <3>3 DEF Fail
      <4>2. QED
        BY <1>t, <2>1, <3>1, <4>1
    <3>4. QED
      BY <3>2, <3>3
  <2>2. CASE Start(w)
    <3>1. CASE TransitionOK(seen[w], "processing")
      BY <1>t, <2>2, <3>1 DEF Start, Go
    <3>2. CASE ~TransitionOK(seen[w], "processing")
      BY <1>t, <2>1, <2>2, <3>2, FALSE \in BOOLEAN DEF Start
    <3>3. QED
      BY <3>1, <3>2
  <2>3. ASSUME NEW from \in WorkerSteps \ {"idle"}, NEW target \in {"processing", "encoding"},
               NEW next \in WorkerSteps \ {"persist"}, Advance(w, from, target, next)
        PROVE  OutputInv'
    <3>1. CASE TransitionOK(status[wjob[w]], target)
      BY <1>t, <2>3, <3>1 DEF Advance, Go
    <3>2. CASE ~TransitionOK(status[wjob[w]], target)
      BY <1>t, <2>1, <2>3, <3>2, FALSE \in BOOLEAN DEF Advance
    <3>3. QED
      BY <3>1, <3>2
  <2>4. CASE Extract(w) \/ Inpaint(w)
    BY <2>3, <2>4 DEF Extract, Inpaint
  <2>5. CASE Encode(w)
    BY <1>t, <2>5 DEF Encode, Go, jobVars
  <2>6. CASE Persist(w)
    <3>1. CASE TransitionOK(status[wjob[w]], "completed")
      BY <1>t, <2>6, <3>1 DEF Persist, Go
    <3>2. CASE ~TransitionOK(status[wjob[w]], "completed")
      BY <1>t, <2>1, <2>6, <3>2, TRUE \in BOOLEAN DEF Persist
    <3>3. QED
      BY <3>1, <3>2
  <2>7. CASE WorkFails(w)
    BY <1>t, <2>1, <2>7, FALSE \in BOOLEAN DEF WorkFails
  <2>8. ASSUME UNCHANGED <<jobVars, projectVars>>, pc'[w] # "persist",
               \A v \in Workers \ {w} : pc'[v] = pc[v]
        PROVE  OutputInv'
    BY <1>1, <2>8 DEF jobVars, projectVars
  <2>9. CASE \/ Fetch(w) \/ Acquire(w) \/ LockBusy(w) \/ ReleaseGet(w) \/ ReleaseDelete(w)
             \/ Ack(w) \/ Die(w)
    <3>1. UNCHANGED <<jobVars, projectVars>>
      BY <2>9 DEF Fetch, Acquire, LockBusy, ReleaseGet, ReleaseDelete, Ack, Die
    <3>2. pc'[w] # "persist" /\ \A v \in Workers \ {w} : pc'[v] = pc[v]
      BY <1>t, <2>9 DEF Fetch, Acquire, LockBusy, ReleaseGet, ReleaseDelete, Ack, Die,
         WorkerIdle, Go, workerVars
    <3>3. QED
      BY <2>8, <3>1, <3>2
  <2>10. CASE MaskMissing(w)
    <3>1. UNCHANGED projectVars /\ status' \in {[status EXCEPT ![j] = "failed"] : j \in Jobs}
                                               \cup {status}
      BY <2>10 DEF MaskMissing
    <3>2. pc'[w] # "persist" /\ \A v \in Workers \ {w} : pc'[v] = pc[v]
      BY <1>t, <2>10 DEF MaskMissing, Go, workerVars
    <3>3. \A j \in Jobs : status'[j] = "completed" => status[j] = "completed"
      BY <1>t, <3>1
    <3>4. QED
      BY <1>1, <3>1, <3>2, <3>3 DEF projectVars
  <2>11. QED
    BY <1>3, <2>2, <2>4, <2>5, <2>6, <2>7, <2>9, <2>10 DEF WorkerStep
<1>4. ASSUME NEW j \in Jobs,
             LockExpires(j) \/ AdminCancel(j) \/ AdminRetry(j) \/ Reenqueue(j) \/ Age(j)
      PROVE  OutputInv'
  BY <1>t, <1>1, <1>4 DEF LockExpires, AdminCancel, AdminRetry, Reenqueue, Age, jobVars,
     projectVars, workerVars
<1>5. CASE DeleteProject \/ DeleteMask \/ PutMask \/ ResetCredits
  BY <1>t, <1>1, <1>5 DEF DeleteProject, DeleteMask, PutMask, ResetCredits,
     jobVars, projectVars, workerVars
<1>6. CASE UNCHANGED vars
  BY <1>1, <1>6 DEF vars, jobVars, projectVars, workerVars
<1>7. QED
  BY <1>2, <1>3, <1>4, <1>5, <1>6 DEF Next

\* What reads completed was delivered, and a project that reads completed names an
\* output object that is in storage.
THEOREM CompletedAlwaysHasOutput == Spec => []CompletedHasOutput
<1>1. Init => OutputInv
  BY DEF Init, OutputInv, CompletedHasOutput, StoredBeforeCommit
<1>2. TypeInv /\ OutputInv /\ [Next]_vars => OutputInv'
  BY OutputInductive
<1>3. OutputInv => CompletedHasOutput
  BY DEF OutputInv
<1>4. QED
  BY <1>1, <1>2, <1>3, TypesAlways, PTL DEF Spec

----------------------------------------------------------------------------
(* An unfinished job is carried, or its last message was given up on. *)

\* Carried, without the carriers that have nothing left to do for the job: a worker
\* that has committed its outcome, an administrator's retry that has been overtaken.
Moving(j) ==
  \/ \E n \in 0..MaxTries : queue[j][n] > 0
  \/ \E w \in Workers : /\ wjob[w] = j
                        /\ \/ pc[w] \in {"fetched"} \cup Working
                           \/ pc[w] # "idle" /\ raised[w]
  \/ \E r \in Requests : rjob[r] = j /\ rpc[r] \in {"publish", "compensate"}
  \/ j \in rearm /\ status[j] = "processing_queued"

MovingInv == \A j \in Jobs : status[j] \in Live => Moving(j) \/ j \in lost

\* A message sent or resent is in the broker, and takes no other away.
LEMMA SentMoves ==
  ASSUME BrokerTypes, NEW j \in Jobs, NEW n \in {1, 2}, Sent(j, n)
  PROVE  /\ \E m \in 0..MaxTries : queue'[j][m] > 0
         /\ \A k \in Jobs, m \in 0..MaxTries : queue[k][m] > 0 => queue'[k][m] > 0
         /\ \A k \in Jobs \ {j} : k \in lost => k \in lost'
<1>1. queue'[j][0] > 0
  BY 0 \in 0..MaxTries DEF Sent, BrokerTypes
<1>2. \A k \in Jobs, m \in 0..MaxTries : queue[k][m] > 0 => queue'[k][m] > 0
  BY 0 \in 0..MaxTries DEF Sent, BrokerTypes
<1>3. QED
  BY <1>1, <1>2, 0 \in 0..MaxTries DEF Sent

\* Where n retries have been used: one message more, or the last one given up.
LEMMA RequeuedMoves ==
  ASSUME BrokerTypes, NEW j \in Jobs, NEW n \in 0..MaxTries, Requeued(j, n)
  PROVE  /\ j \in lost' \/ \E m \in 0..MaxTries : queue'[j][m] > 0
         /\ \A k \in Jobs, m \in 0..MaxTries : queue[k][m] > 0 => queue'[k][m] > 0
         /\ \A k \in Jobs : k \in lost => k \in lost'
<1>1. CASE n < MaxTries
  <2>1. n + 1 \in 0..MaxTries /\ queue' = [queue EXCEPT ![j][n + 1] = @ + 1] /\ lost' = lost
    BY <1>1 DEF Requeued
  <2>2. queue'[j][n + 1] > 0
    BY <2>1 DEF BrokerTypes
  <2>3. \A k \in Jobs, m \in 0..MaxTries : queue[k][m] > 0 => queue'[k][m] > 0
    BY <2>1 DEF BrokerTypes
  <2>4. QED
    BY <2>1, <2>2, <2>3
<1>2. CASE ~(n < MaxTries)
  BY <1>2 DEF Requeued
<1>3. QED
  BY <1>1, <1>2

LEMMA RequestMoves ==
  ASSUME TypeInv, MovingInv, NEW r \in Requests, RequestStep(r)
  PROVE  MovingInv'
<1> USE DEF MovingInv, Moving
<1>t. BrokerTypes /\ JobTypes /\ RequestTypes /\ Engaged
  BY DEF TypeInv, TypeOK
<1>1. CASE \/ ReturnExisting(r) \/ CancelStale(r) \/ NoneActive(r) \/ InsufficientCredits(r)
  <2>1. rpc[r] \notin {"publish", "compensate"}
    BY <1>1 DEF ReturnExisting, CancelStale, NoneActive, InsufficientCredits, Scanning
  <2>2. \A q \in Requests \ {r} : rpc'[q] = rpc[q] /\ rjob'[q] = rjob[q]
    BY <1>t, <1>1 DEF ReturnExisting, CancelStale, NoneActive, InsufficientCredits,
       RequestDone, RequestTypes
  <2>3. UNCHANGED <<queue, lost, rearm, workerVars>>
    BY <1>1 DEF ReturnExisting, CancelStale, NoneActive, InsufficientCredits, brokerVars
  <2>4. \A j \in Jobs : status'[j] \in Live => status'[j] = status[j]
    BY <1>t, <1>1 DEF ReturnExisting, CancelStale, NoneActive, InsufficientCredits, jobVars,
       JobTypes
  <2>5. QED
    BY <2>1, <2>2, <2>3, <2>4 DEF workerVars
<1>2. CASE ChargeAndCreate(r)
  <2>1. PICK j \in Jobs : /\ status' = [status EXCEPT ![j] = "processing_queued"]
                          /\ rjob' = [rjob EXCEPT ![r] = j]
    BY <1>2 DEF ChargeAndCreate
  <2>2. rpc[r] = "charge" /\ rpc' = [rpc EXCEPT ![r] = "publish"]
    BY <1>2 DEF ChargeAndCreate
  <2>3. rpc'[r] = "publish" /\ rjob'[r] = j
    BY <1>t, <2>1, <2>2 DEF RequestTypes
  <2>4. \A q \in Requests \ {r} : rpc'[q] = rpc[q] /\ rjob'[q] = rjob[q]
    BY <1>t, <2>1, <2>2 DEF RequestTypes
  <2>5. \A k \in Jobs \ {j} : status'[k] = status[k]
    BY <1>t, <2>1 DEF JobTypes
  <2>6. UNCHANGED <<queue, lost, rearm, workerVars>>
    BY <1>2 DEF ChargeAndCreate, brokerVars
  <2>7. QED
    BY <2>2, <2>3, <2>4, <2>5, <2>6 DEF workerVars
<1>3. CASE Dispatch(r) \/ DispatchLost(r) \/ DispatchRefused(r) \/ Compensate(r)
  <2>1. PICK j \in Jobs : j = rjob[r]
    BY <1>t, <1>3 DEF Dispatch, DispatchRefused, DispatchLost, Compensate, Engaged
  <2>2. \A q \in Requests \ {r} : rpc'[q] = rpc[q] /\ rjob'[q] = rjob[q]
    BY <1>t, <1>3 DEF Dispatch, DispatchRefused, DispatchLost, Compensate, RequestDone,
       RequestTypes
  <2>3. UNCHANGED <<rearm, workerVars>>
    BY <1>3 DEF Dispatch, DispatchRefused, DispatchLost, Compensate, brokerVars
  <2>4. /\ \A k \in Jobs, m \in 0..MaxTries : queue[k][m] > 0 => queue'[k][m] > 0
        /\ \A k \in Jobs \ {j} : k \in lost => k \in lost'
    <3>1. CASE Sent(rjob[r], 1) \/ Sent(rjob[r], 2)
      BY <1>t, <2>1, <3>1, SentMoves
    <3>2. CASE UNCHANGED queue /\ lost' \in {lost, lost \cup {j}}
      BY <3>2
    <3>3. QED
      BY <1>3, <2>1, <3>1, <3>2 DEF Dispatch, DispatchRefused, DispatchLost, Compensate,
         brokerVars
  <2>5. /\ \A k \in Jobs \ {j} : status'[k] = status[k]
        /\ status'[j] \in Live => status'[j] = status[j]
    BY <1>t, <1>3, <2>1 DEF Dispatch, DispatchRefused, DispatchLost, Compensate, jobVars,
       JobTypes
  <2>6. \A k \in Jobs \ {j} : status'[k] \in Live => Moving(k)' \/ k \in lost'
    BY <2>1, <2>2, <2>3, <2>4, <2>5 DEF workerVars
  <2>7. status'[j] \in Live => Moving(j)' \/ j \in lost'
    <3>1. CASE Dispatch(r)
      BY <1>t, <2>1, <3>1, SentMoves DEF Dispatch
    <3>2. CASE DispatchLost(r)
      BY <2>1, <3>2 DEF DispatchLost
    <3>3. CASE DispatchRefused(r)
      BY <1>t, <2>1, <3>3 DEF DispatchRefused, RequestTypes
    <3>4. CASE Compensate(r)
      BY <1>t, <2>1, <3>4 DEF Compensate, JobTypes
    <3>5. QED
      BY <1>3, <3>1, <3>2, <3>3, <3>4
  <2>8. QED
    BY <2>6, <2>7
<1>4. QED
  BY <1>1, <1>2, <1>3 DEF RequestStep

LEMMA WorkerMoves ==
  ASSUME TypeInv, MovingInv, NEW w \in Workers, WorkerStep(w) \/ Die(w)
  PROVE  MovingInv'
<1> USE DEF MovingInv, Moving
<1>t. BrokerTypes /\ JobTypes /\ WorkerTypes /\ Engaged
  BY DEF TypeInv, TypeOK
\* Every step of a worker leaves the other workers, the requests and the
\* administrator's retries as they are.
<1>o. /\ UNCHANGED <<rearm, requestVars>>
      /\ \A v \in Workers \ {w} :
           pc'[v] = pc[v] /\ wjob'[v] = wjob[v] /\ raised'[v] = raised[v]
  <2>1. UNCHANGED <<rearm, requestVars>>
    BY DEF WorkerStep, Fetch, MaskMissing, Acquire, LockBusy, Start, Extract, Inpaint, Encode,
       Persist, WorkFails, ReleaseGet, ReleaseDelete, Ack, Die, Advance, brokerVars
  <2>2. CASE Fetch(w) \/ MaskMissing(w) \/ LockBusy(w) \/ Ack(w) \/ Die(w)
    BY <1>t, <2>1, <2>2 DEF Fetch, MaskMissing, LockBusy, Ack, Die, WorkerIdle, Go,
       WorkerTypes, workerVars
  <2>3. CASE \/ Acquire(w) \/ Start(w) \/ Extract(w) \/ Inpaint(w) \/ Encode(w) \/ Persist(w)
             \/ WorkFails(w) \/ ReleaseGet(w) \/ ReleaseDelete(w)
    BY <1>t, <2>1, <2>3 DEF Acquire, Start, Extract, Inpaint, Encode, Persist, WorkFails,
       ReleaseGet, ReleaseDelete, Advance, Fail, Go, WorkerTypes
  <2>4. QED
    BY <2>2, <2>3, <2>1 DEF WorkerStep
\* A step that leaves the broker alone and touches no other job's row, after which
\* the worker still has work to do, or its job is finished, or it will retry.
<1>1. ASSUME NEW j \in Jobs, j = wjob[w], UNCHANGED <<wjob, queue, lost>>,
             \A k \in Jobs \ {j} : status'[k] = status[k],
             \/ pc'[w] \in {"fetched"} \cup Working
             \/ pc'[w] # "idle" /\ raised'[w]
             \/ status'[j] \notin Live
      PROVE  MovingInv'
  BY <1>o, <1>1 DEF requestVars
\* A step that leaves all rows alone and takes no message from the broker, after which
\* the worker's job has a message, or is lost, or was not the worker's to finish.
<1>2. ASSUME NEW j \in Jobs, j = wjob[w], UNCHANGED status,
             \A k \in Jobs, m \in 0..MaxTries : queue[k][m] > 0 => queue'[k][m] > 0,
             \A k \in Jobs : k \in lost => k \in lost',
             \/ j \in lost' \/ \E m \in 0..MaxTries : queue'[j][m] > 0
             \/ pc[w] \notin {"fetched"} \cup Working /\ ~raised[w]
      PROVE  MovingInv'
  BY <1>o, <1>2 DEF requestVars
<1>3. CASE Fetch(w)
  <2>1. PICK j \in Jobs, n \in 0..MaxTries :
          /\ queue[j][n] > 0
          /\ queue' = [queue EXCEPT ![j][n] = @ - 1]
          /\ IF status[j] \in Terminal
               THEN UNCHANGED workerVars
               ELSE /\ Go(w, "fetched")
                    /\ wjob' = [wjob EXCEPT ![w] = j]
    BY <1>3 DEF Fetch
  <2>2. pc[w] = "idle" /\ UNCHANGED <<status, lost>>
    BY <1>3 DEF Fetch, jobVars
  <2>3. \A k \in Jobs \ {j} : \A m \in 0..MaxTries : queue'[k][m] = queue[k][m]
    BY <1>t, <2>1 DEF BrokerTypes
  <2>4. CASE status[j] \in Terminal
    BY <1>t, <1>o, <2>1, <2>2, <2>3, <2>4 DEF requestVars, workerVars, JobTypes
  <2>5. CASE status[j] \notin Terminal
    <3>1. pc'[w] = "fetched" /\ wjob'[w] = j
      BY <1>t, <2>1, <2>5 DEF Go, WorkerTypes
    <3>2. Moving(j)'
      BY <3>1
    <3>3. \A k \in Jobs \ {j} : status[k] \in Live => Moving(k)' \/ k \in lost'
      BY <1>o, <2>2, <2>3, <3>1 DEF requestVars
    <3>4. QED
      BY <2>2, <3>2, <3>3
  <2>6. QED
    BY <2>4, <2>5
<1>4. CASE Acquire(w) \/ Encode(w)
  BY <1>t, <1>1, <1>4 DEF Acquire, Encode, Go, WorkerTypes, Engaged, jobVars, brokerVars
<1>5. ASSUME NEW s, NEW key, Fail(w, s, key), wjob[w] \in Jobs, UNCHANGED <<wjob, queue, lost>>
      PROVE  MovingInv'
  <2>1. PICK j \in Jobs : j = wjob[w]
    BY <1>5
  <2>2. pc'[w] # "idle"
    BY <1>t, <1>5 DEF Fail, Go, WorkerTypes
  <2>3. CASE TransitionOK(s, "failed")
    <3>1. status' = [status EXCEPT ![j] = "failed"]
      BY <1>5, <2>1, <2>3 DEF Fail
    <3>2. QED
      BY <1>t, <1>1, <1>5, <2>1, <3>1 DEF JobTypes
  <2>4. CASE ~TransitionOK(s, "failed")
    <3>1. status' = status /\ raised'[w]
      BY <1>t, <1>5, <2>4 DEF Fail, WorkerTypes
    <3>2. QED
      BY <1>1, <1>5, <2>1, <2>2, <3>1
  <2>5. QED
    BY <2>3, <2>4
<1>6. CASE Start(w)
  <2>1. CASE TransitionOK(seen[w], "processing")
    BY <1>t, <1>1, <1>6, <2>1 DEF Start, Go, JobTypes, WorkerTypes, Engaged, brokerVars
  <2>2. CASE ~TransitionOK(seen[w], "processing")
    BY <1>t, <1>5, <1>6, <2>2 DEF Start, Engaged, brokerVars
  <2>3. QED
    BY <2>1, <2>2
<1>7. ASSUME NEW from \in WorkerSteps \ {"idle"}, NEW target, NEW next \in Working,
             Advance(w, from, target, next)
      PROVE  MovingInv'
  <2>1. CASE TransitionOK(status[wjob[w]], target)
    BY <1>t, <1>1, <1>7, <2>1 DEF Advance, Go, JobTypes, WorkerTypes, Engaged, brokerVars
  <2>2. CASE ~TransitionOK(status[wjob[w]], target)
    BY <1>t, <1>5, <1>7, <2>2 DEF Advance, Engaged, brokerVars
  <2>3. QED
    BY <2>1, <2>2
<1>8. CASE Extract(w) \/ Inpaint(w)
  BY <1>7, <1>8 DEF Extract, Inpaint
<1>9. CASE Persist(w)
  <2>1. CASE TransitionOK(status[wjob[w]], "completed")
    BY <1>t, <1>1, <1>9, <2>1 DEF Persist, Go, JobTypes, WorkerTypes, Engaged, brokerVars
  <2>2. CASE ~TransitionOK(status[wjob[w]], "completed")
    BY <1>t, <1>5, <1>9, <2>2 DEF Persist, Engaged, brokerVars
  <2>3. QED
    BY <2>1, <2>2
<1>10. CASE WorkFails(w)
  BY <1>t, <1>5, <1>10 DEF WorkFails, Engaged, brokerVars
<1>11. CASE ReleaseGet(w) \/ ReleaseDelete(w)
  <2>1. /\ wjob[w] \in Jobs /\ pc[w] \in Releasing /\ pc'[w] # "idle"
        /\ UNCHANGED <<status, queue, lost, wjob, raised>>
    BY <1>t, <1>11 DEF ReleaseGet, ReleaseDelete, Go, Engaged, WorkerTypes, jobVars, brokerVars
  <2>2. QED
    BY <1>o, <2>1 DEF requestVars
<1>12. CASE LockBusy(w)
  BY <1>t, <1>2, <1>12, RequeuedMoves DEF LockBusy, Engaged, WorkerTypes, jobVars
<1>13. CASE Ack(w)
  <2>1. CASE raised[w]
    BY <1>t, <1>2, <1>13, <2>1, RequeuedMoves DEF Ack, Engaged, WorkerTypes, jobVars
  <2>2. CASE ~raised[w]
    BY <1>t, <1>2, <1>13, <2>2 DEF Ack, Engaged, jobVars
  <2>3. QED
    BY <2>1, <2>2
<1>14. CASE Die(w)
  <2>1. PICK j \in Jobs : j = wjob[w]
    BY <1>t, <1>14 DEF Die, Engaged
  <2>2. CASE queue' = [queue EXCEPT ![wjob[w]][tries[w]] = @ + 1] /\ UNCHANGED lost
    <3>1. queue'[j][tries[w]] > 0 /\ tries[w] \in 0..MaxTries
      BY <1>t, <2>1, <2>2 DEF WorkerTypes, BrokerTypes
    <3>2. \A k \in Jobs, m \in 0..MaxTries : queue[k][m] > 0 => queue'[k][m] > 0
      BY <1>t, <2>1, <2>2 DEF WorkerTypes, BrokerTypes
    <3>3. QED
      BY <1>2, <1>14, <2>1, <2>2, <3>1, <3>2 DEF Die, jobVars
  <2>3. CASE lost' = lost \cup {wjob[w]} /\ UNCHANGED queue
    BY <1>2, <1>14, <2>1, <2>3 DEF Die, jobVars
  <2>4. QED
    BY <1>14, <2>2, <2>3 DEF Die
<1>15. CASE MaskMissing(w)
  <2>1. PICK j \in Jobs, n \in 0..MaxTries :
          /\ queue' = [queue EXCEPT ![j][n] = @ - 1]
          /\ IF TransitionOK(status[j], "failed")
               THEN status' = [status EXCEPT ![j] = "failed"] /\ UNCHANGED workerVars
               ELSE /\ Go(w, "ack")
                    /\ wjob' = [wjob EXCEPT ![w] = j]
                    /\ raised' = [raised EXCEPT ![w] = TRUE]
                    /\ UNCHANGED status
    BY <1>15 DEF MaskMissing
  <2>2. pc[w] = "idle" /\ UNCHANGED lost
    BY <1>15 DEF MaskMissing
  <2>3. \A k \in Jobs \ {j} : \A m \in 0..MaxTries : queue'[k][m] = queue[k][m]
    BY <1>t, <2>1 DEF BrokerTypes
  <2>4. CASE TransitionOK(status[j], "failed")
    <3>1. status'[j] = "failed" /\ \A k \in Jobs \ {j} : status'[k] = status[k]
      BY <1>t, <2>1, <2>4 DEF JobTypes
    <3>2. UNCHANGED workerVars
      BY <2>1, <2>4
    <3>3. QED
      BY <1>o, <2>2, <2>3, <3>1, <3>2 DEF requestVars, workerVars
  <2>5. CASE ~TransitionOK(status[j], "failed")
    <3>1. pc'[w] = "ack" /\ wjob'[w] = j /\ raised'[w] /\ status' = status
      BY <1>t, <2>1, <2>5 DEF Go, WorkerTypes
    <3>2. Moving(j)'
      BY <3>1
    <3>3. \A k \in Jobs \ {j} : status[k] \in Live => Moving(k)' \/ k \in lost'
      BY <1>o, <2>2, <2>3, <3>1 DEF requestVars
    <3>4. QED
      BY <3>1, <3>2, <3>3
  <2>6. QED
    BY <2>4, <2>5
<1>16. QED
  BY <1>3, <1>4, <1>6, <1>8, <1>9, <1>10, <1>11, <1>12, <1>13, <1>14, <1>15 DEF WorkerStep

LEMMA MovingInductive ==
  ASSUME TypeInv, MovingInv, [Next]_vars
  PROVE  MovingInv'
<1> USE DEF MovingInv, Moving
<1>t. BrokerTypes /\ JobTypes
  BY DEF TypeInv, TypeOK
<1>1. CASE /\ UNCHANGED <<queue, lost, rearm, workerVars, requestVars>>
           /\ \A j \in Jobs : status'[j] \in Live => status'[j] = status[j]
  BY <1>1 DEF workerVars, requestVars
<1>2. ASSUME NEW j \in Jobs, LockExpires(j) \/ AdminCancel(j) \/ Age(j) PROVE MovingInv'
  BY <1>t, <1>1, <1>2 DEF LockExpires, AdminCancel, Age, JobTypes, jobVars, brokerVars
<1>3. ASSUME NEW j \in Jobs, AdminRetry(j) PROVE MovingInv'
  BY <1>t, <1>3 DEF AdminRetry, JobTypes, workerVars, requestVars
<1>4. ASSUME NEW j \in Jobs, Reenqueue(j) PROVE MovingInv'
  <2>1. UNCHANGED <<status, workerVars, requestVars>> /\ rearm' = rearm \ {j}
    BY <1>4 DEF Reenqueue, jobVars
  <2>2. CASE status[j] = "processing_queued" /\ Sent(j, 1)
    BY <1>t, <2>1, <2>2, SentMoves DEF workerVars, requestVars
  <2>3. CASE status[j] = "processing_queued" /\ lost' = lost \cup {j} /\ UNCHANGED queue
    BY <2>1, <2>3 DEF workerVars, requestVars
  <2>4. CASE status[j] # "processing_queued" /\ UNCHANGED <<queue, lost>>
    BY <2>1, <2>4 DEF workerVars, requestVars
  <2>5. QED
    BY <1>4, <2>2, <2>3, <2>4 DEF Reenqueue
<1>5. CASE DeleteProject \/ DeleteMask \/ PutMask \/ ResetCredits
  BY <1>t, <1>1, <1>5 DEF DeleteProject, DeleteMask, PutMask, ResetCredits,
     JobTypes, jobVars, brokerVars
<1>6. CASE UNCHANGED vars
  BY <1>1, <1>6 DEF vars, jobVars, brokerVars
<1>7. QED
  BY <1>2, <1>3, <1>4, <1>5, <1>6, RequestMoves, WorkerMoves DEF Next

\* No job is forgotten in silence: at every moment an unfinished one has a message, a
\* worker, a request or an administrator's retry that will bring it on, unless a
\* publish was never made or refused, or its last retry was given up.
THEOREM NoJobForgotten == Spec => []StuckOnlyIfLost
<1>1. Init => MovingInv
  BY DEF Init, MovingInv
<1>2. TypeInv /\ MovingInv /\ [Next]_vars => MovingInv'
  BY MovingInductive
<1>3. TypeInv /\ MovingInv => StuckOnlyIfLost
  BY DEF MovingInv, Moving, StuckOnlyIfLost, Carried
<1>4. QED
  BY <1>1, <1>2, <1>3, TypesAlways, PTL DEF Spec

----------------------------------------------------------------------------
(* Finished jobs. *)

\* The table has no edge out of a terminal state.
LEMMA TerminalIsFinal ==
  ASSUME NEW s \in Terminal, NEW target, TransitionOK(s, target)
  PROVE  target = s
  BY DEF TransitionOK, CanTransition, Transitions

ReopensLegally(j) ==
  status[j] \in Terminal /\ status'[j] # status[j] =>
    (j \in rearm' /\ status'[j] = "processing_queued") \/ StaleWriter(j)

LEMMA StepReopensLegally ==
  ASSUME TypeInv, [Next]_vars, NEW j \in Jobs
  PROVE  ReopensLegally(j)
<1> USE DEF ReopensLegally, StaleWriter
<1>t. JobTypes /\ Engaged
  BY DEF TypeInv, TypeOK
<1>1. CASE UNCHANGED status
  BY <1>1
<1>2. ASSUME NEW r \in Requests, RequestStep(r) PROVE ReopensLegally(j)
  <2>1. CASE CancelStale(r)
    BY <1>t, <2>1 DEF CancelStale, Stale, JobTypes
  <2>2. CASE ChargeAndCreate(r)
    BY <1>t, <2>2 DEF ChargeAndCreate, JobTypes
  <2>3. CASE Compensate(r)
    BY <1>t, <2>3 DEF Compensate, JobTypes
  <2>4. CASE UNCHANGED jobVars
    BY <1>1, <2>4 DEF jobVars
  <2>5. QED
    BY <1>2, <2>1, <2>2, <2>3, <2>4 DEF RequestStep, ReturnExisting, NoneActive,
       InsufficientCredits, Dispatch, DispatchRefused, DispatchLost
<1>3. ASSUME NEW w \in Workers, WorkerStep(w) \/ Die(w) PROVE ReopensLegally(j)
  <2>1. CASE UNCHANGED jobVars
    BY <1>1, <2>1 DEF jobVars
  <2>2. CASE Start(w)
    BY <1>t, <2>2 DEF Start, Fail, JobTypes, Engaged
  <2>3. ASSUME Fail(w, status[wjob[w]], FALSE) \/ Fail(w, status[wjob[w]], TRUE),
               wjob[w] \in Jobs
        PROVE  ReopensLegally(j)
    <3>1. CASE TransitionOK(status[wjob[w]], "failed")
      <4>1. status' = [status EXCEPT ![wjob[w]] = "failed"]
        BY <2>3, <3>1 DEF Fail
      <4>2. QED
        BY <1>t, <2>3, <3>1, <4>1, TerminalIsFinal DEF JobTypes
    <3>2. CASE ~TransitionOK(status[wjob[w]], "failed")
      BY <1>1, <2>3, <3>2 DEF Fail
    <3>3. QED
      BY <3>1, <3>2
  <2>4. ASSUME NEW from \in WorkerSteps \ {"idle"}, NEW target, NEW next,
               Advance(w, from, target, next)
        PROVE  ReopensLegally(j)
    <3>1. wjob[w] \in Jobs
      BY <1>t, <2>4 DEF Advance, Engaged
    <3>2. CASE TransitionOK(status[wjob[w]], target)
      BY <1>t, <2>4, <3>1, <3>2, TerminalIsFinal DEF Advance, JobTypes
    <3>3. CASE ~TransitionOK(status[wjob[w]], target)
      BY <2>3, <2>4, <3>1, <3>3 DEF Advance
    <3>4. QED
      BY <3>2, <3>3
  <2>5. CASE Extract(w) \/ Inpaint(w)
    BY <2>4, <2>5 DEF Extract, Inpaint
  <2>6. CASE Persist(w)
    <3>1. wjob[w] \in Jobs
      BY <1>t, <2>6 DEF Persist, Engaged
    <3>2. CASE TransitionOK(status[wjob[w]], "completed")
      BY <1>t, <2>6, <3>1, <3>2, TerminalIsFinal DEF Persist, JobTypes
    <3>3. CASE ~TransitionOK(status[wjob[w]], "completed")
      BY <2>3, <2>6, <3>1, <3>3 DEF Persist
    <3>4. QED
      BY <3>2, <3>3
  <2>7. CASE WorkFails(w)
    BY <1>t, <2>3, <2>7 DEF WorkFails, Engaged
  <2>8. CASE MaskMissing(w)
    BY <1>t, <2>8, TerminalIsFinal DEF MaskMissing, JobTypes
  <2>9. QED
    BY <1>3, <2>1, <2>2, <2>5, <2>6, <2>7, <2>8 DEF WorkerStep, Fetch, Acquire, LockBusy, Encode,
       ReleaseGet, ReleaseDelete, Ack, Die
<1>4. ASSUME NEW k \in Jobs, AdminRetry(k) PROVE ReopensLegally(j)
  BY <1>t, <1>4 DEF AdminRetry, JobTypes
<1>5. ASSUME NEW k \in Jobs, LockExpires(k) \/ AdminCancel(k) \/ Reenqueue(k) \/ Age(k)
      PROVE  ReopensLegally(j)
  BY <1>t, <1>1, <1>5 DEF LockExpires, AdminCancel, Reenqueue, Age, JobTypes, jobVars
<1>6. CASE DeleteProject \/ DeleteMask \/ PutMask \/ ResetCredits
  BY <1>t, <1>1, <1>6 DEF DeleteProject, DeleteMask, PutMask, ResetCredits, JobTypes, jobVars
<1>7. CASE UNCHANGED vars
  BY <1>1, <1>7 DEF vars, jobVars
<1>8. QED
  BY <1>2, <1>3, <1>4, <1>5, <1>6, <1>7 DEF Next

\* A finished job is final, but for an administrator's retry and the two writers of a
\* stale view of the row: the worker's first transition under the lock, which trusts
\* what was read before it, and the route's compensation after a publish.
THEOREM FinishedJobsAreFinal == Spec => FinishedJobsReopenOnlyBy
<1>1. TypeInv /\ [Next]_vars =>
        [\A j \in Jobs : status[j] \in Terminal /\ status'[j] # status[j] =>
            (j \in rearm' /\ status'[j] = "processing_queued") \/ StaleWriter(j)]_vars
  BY StepReopensLegally DEF ReopensLegally
<1>2. QED
  BY <1>1, TypesAlways, PTL DEF Spec, FinishedJobsReopenOnlyBy

----------------------------------------------------------------------------
(* One outcome per job: where nothing gives a job a second message, its     *)
(* one carrier decides it, and decides it once.                             *)

\* What may still act for a job: its messages, the workers and the requests that have
\* it in hand.
Carriers(j) ==
  ({"message"} \X {n \in 0..MaxTries : queue[j][n] > 0})
    \cup ({"worker"} \X {w \in Workers : wjob[w] = j})
    \cup ({"request"} \X {r \in Requests : rjob[r] = j})

\* Never more than one does.
OneCarrier ==
  \A j \in Jobs : /\ \A c, d \in Carriers(j) : c = d
                  /\ \A n \in 0..MaxTries : queue[j][n] <= 1

\* A job that does not exist yet has none.
Fresh == \A j \in Jobs : status[j] = "none" => Carriers(j) = {}

CarrierInv == OneCarrier /\ Fresh

LEMMA MessageCarries ==
  ASSUME NEW j \in Jobs, NEW n \in 0..MaxTries
  PROVE  <<"message", n>> \in Carriers(j) <=> queue[j][n] > 0
  BY DEF Carriers

LEMMA WorkerCarries ==
  ASSUME NEW j \in Jobs, NEW w \in Workers
  PROVE  <<"worker", w>> \in Carriers(j) <=> wjob[w] = j
  BY DEF Carriers

LEMMA RequestCarries ==
  ASSUME NEW j \in Jobs, NEW r \in Requests
  PROVE  <<"request", r>> \in Carriers(j) <=> rjob[r] = j
  BY DEF Carriers

\* The job of a worker has no message, no other worker and no request.
LEMMA WorkerCarriesAlone ==
  ASSUME OneCarrier, BrokerTypes, NEW w \in Workers, NEW j \in Jobs, wjob[w] = j
  PROVE  /\ \A n \in 0..MaxTries : queue[j][n] = 0
         /\ \A v \in Workers \ {w} : wjob[v] # j
         /\ \A r \in Requests : rjob[r] # j
<1>1. <<"worker", w>> \in Carriers(j)
  BY WorkerCarries
<1>2. ASSUME NEW n \in 0..MaxTries PROVE queue[j][n] = 0
  <2>1. <<"message", n>> \notin Carriers(j)
    BY <1>1 DEF OneCarrier
  <2>2. queue[j][n] \in Nat
    BY DEF BrokerTypes
  <2>3. QED
    BY <2>1, <2>2, MessageCarries
<1>3. \A v \in Workers \ {w} : wjob[v] # j
  BY <1>1, WorkerCarries DEF OneCarrier
<1>4. ASSUME NEW r \in Requests PROVE rjob[r] # j
  <2>1. <<"request", r>> \notin Carriers(j)
    BY <1>1 DEF OneCarrier
  <2>2. QED
    BY <2>1, RequestCarries
<1>5. QED
  BY <1>2, <1>3, <1>4

\* The job of a request likewise.
LEMMA RequestCarriesAlone ==
  ASSUME OneCarrier, BrokerTypes, NEW r \in Requests, NEW j \in Jobs, rjob[r] = j
  PROVE  /\ \A n \in 0..MaxTries : queue[j][n] = 0
         /\ \A w \in Workers : wjob[w] # j
         /\ \A q \in Requests \ {r} : rjob[q] # j
<1>1. <<"request", r>> \in Carriers(j)
  BY RequestCarries
<1>2. ASSUME NEW n \in 0..MaxTries PROVE queue[j][n] = 0
  <2>1. <<"message", n>> \notin Carriers(j)
    BY <1>1 DEF OneCarrier
  <2>2. queue[j][n] \in Nat
    BY DEF BrokerTypes
  <2>3. QED
    BY <2>1, <2>2, MessageCarries
<1>3. \A q \in Requests \ {r} : rjob[q] # j
  BY <1>1, RequestCarries DEF OneCarrier
<1>4. ASSUME NEW w \in Workers PROVE wjob[w] # j
  <2>1. <<"worker", w>> \notin Carriers(j)
    BY <1>1 DEF OneCarrier
  <2>2. QED
    BY <2>1, WorkerCarries
<1>5. QED
  BY <1>2, <1>3, <1>4

\* A job with a message has only that one, no worker and no request.
LEMMA MessageCarriesAlone ==
  ASSUME OneCarrier, BrokerTypes, NEW j \in Jobs, NEW n \in 0..MaxTries, queue[j][n] > 0
  PROVE  /\ queue[j][n] = 1
         /\ \A m \in 0..MaxTries \ {n} : queue[j][m] = 0
         /\ \A w \in Workers : wjob[w] # j
         /\ \A r \in Requests : rjob[r] # j
<1>1. <<"message", n>> \in Carriers(j)
  BY MessageCarries
<1>2. queue[j][n] = 1
  <2>1. queue[j][n] \in Nat /\ queue[j][n] <= 1
    BY DEF BrokerTypes, OneCarrier
  <2>2. QED
    BY <2>1
<1>3. ASSUME NEW m \in 0..MaxTries \ {n} PROVE queue[j][m] = 0
  <2>1. <<"message", m>> \notin Carriers(j)
    BY <1>1 DEF OneCarrier
  <2>2. queue[j][m] \in Nat
    BY DEF BrokerTypes
  <2>3. QED
    BY <2>1, <2>2, MessageCarries
<1>4. ASSUME NEW w \in Workers PROVE wjob[w] # j
  <2>1. <<"worker", w>> \notin Carriers(j)
    BY <1>1 DEF OneCarrier
  <2>2. QED
    BY <2>1, WorkerCarries
<1>5. ASSUME NEW r \in Requests PROVE rjob[r] # j
  <2>1. <<"request", r>> \notin Carriers(j)
    BY <1>1 DEF OneCarrier
  <2>2. QED
    BY <2>1, RequestCarries
<1>6. QED
  BY <1>2, <1>3, <1>4, <1>5

\* A step that gives one job a sole carrier, and no other job a new one, keeps
\* OneCarrier; it keeps Fresh when that job exists.
LEMMA HandOver ==
  ASSUME CarrierInv, NEW j \in Jobs, NEW d, status'[j] # "none",
         \A k \in Jobs \ {j} : /\ Carriers(k)' \subseteq Carriers(k)
                               /\ \A n \in 0..MaxTries : queue'[k][n] <= 1
                               /\ status'[k] = "none" => status[k] = "none",
         Carriers(j)' \subseteq {d},
         \A n \in 0..MaxTries : queue'[j][n] <= 1
  PROVE  CarrierInv'
<1>1. ASSUME NEW k \in Jobs
      PROVE  /\ \A c, e \in Carriers(k)' : c = e
             /\ \A n \in 0..MaxTries : queue'[k][n] <= 1
             /\ status'[k] = "none" => Carriers(k)' = {}
  BY <1>1 DEF CarrierInv, OneCarrier, Fresh
<1>2. QED
  BY <1>1 DEF CarrierInv, OneCarrier, Fresh

\* A step that gives no job a new carrier keeps both.
LEMMA NoNewCarrier ==
  ASSUME CarrierInv,
         \A k \in Jobs : /\ Carriers(k)' \subseteq Carriers(k)
                         /\ \A n \in 0..MaxTries : queue'[k][n] <= queue[k][n]
                         /\ status'[k] = "none" => status[k] = "none",
         BrokerTypes, BrokerTypes'
  PROVE  CarrierInv'
<1>1. ASSUME NEW k \in Jobs
      PROVE  /\ \A c, e \in Carriers(k)' : c = e
             /\ \A n \in 0..MaxTries : queue'[k][n] <= 1
             /\ status'[k] = "none" => Carriers(k)' = {}
  <2>1. \A n \in 0..MaxTries : queue'[k][n] <= 1
    <3> TAKE n \in 0..MaxTries
    <3>1. queue'[k][n] \in Nat /\ queue[k][n] \in Nat
      BY DEF BrokerTypes
    <3>2. queue[k][n] <= 1 /\ queue'[k][n] <= queue[k][n]
      BY DEF CarrierInv, OneCarrier
    <3>3. QED
      BY <3>1, <3>2
  <2>2. QED
    BY <1>1, <2>1 DEF CarrierInv, OneCarrier, Fresh
<1>2. QED
  BY <1>1 DEF CarrierInv, OneCarrier, Fresh

\* A worker lets go of its job and a message takes its place.
LEMMA WorkerHandsBack ==
  ASSUME CarrierInv, BrokerTypes, WorkerTypes, NEW w \in Workers, NEW j \in Jobs,
         wjob[w] = j, status[j] # "none", NEW n \in 0..MaxTries,
         queue' = [queue EXCEPT ![j][n] = @ + 1],
         wjob' = [wjob EXCEPT ![w] = 0], UNCHANGED <<status, rjob>>
  PROVE  CarrierInv'
<1>1. /\ \A m \in 0..MaxTries : queue[j][m] = 0
      /\ \A v \in Workers \ {w} : wjob[v] # j
      /\ \A r \in Requests : rjob[r] # j
  BY WorkerCarriesAlone DEF CarrierInv
<1>2. /\ \A m \in 0..MaxTries : queue'[j][m] = IF m = n THEN 1 ELSE 0
      /\ \A k \in Jobs \ {j} : queue'[k] = queue[k]
  BY <1>1 DEF BrokerTypes
<1>3. wjob'[w] = 0 /\ \A v \in Workers \ {w} : wjob'[v] = wjob[v]
  BY DEF WorkerTypes
<1>4. Carriers(j)' \subseteq {<<"message", n>>}
  <2>1. {m \in 0..MaxTries : queue'[j][m] > 0} \subseteq {n}
    BY <1>2
  <2>2. {v \in Workers : wjob'[v] = j} = {} /\ {r \in Requests : rjob'[r] = j} = {}
    BY <1>1, <1>3 DEF Jobs
  <2>3. QED
    BY <2>1, <2>2 DEF Carriers
<1>5. ASSUME NEW k \in Jobs \ {j} PROVE Carriers(k)' \subseteq Carriers(k)
  <2>1. {m \in 0..MaxTries : queue'[k][m] > 0} = {m \in 0..MaxTries : queue[k][m] > 0}
    BY <1>2
  <2>2. /\ {v \in Workers : wjob'[v] = k} \subseteq {v \in Workers : wjob[v] = k}
        /\ {r \in Requests : rjob'[r] = k} = {r \in Requests : rjob[r] = k}
    BY <1>3 DEF Jobs
  <2>3. QED
    BY <2>1, <2>2 DEF Carriers
<1>6. \A k \in Jobs \ {j} : \A m \in 0..MaxTries : queue'[k][m] <= 1
  BY <1>2 DEF CarrierInv, OneCarrier
<1>7. \A m \in 0..MaxTries : queue'[j][m] <= 1
  BY <1>2
<1>8. QED
  BY <1>4, <1>5, <1>6, <1>7, HandOver

\* A worker takes a message.
LEMMA WorkerTakes ==
  ASSUME CarrierInv, BrokerTypes, WorkerTypes, NEW w \in Workers, NEW j \in Jobs,
         NEW n \in 0..MaxTries, queue[j][n] > 0,
         queue' = [queue EXCEPT ![j][n] = @ - 1],
         wjob' \in {wjob, [wjob EXCEPT ![w] = j]}, UNCHANGED rjob,
         \A k \in Jobs : status'[k] = "none" => status[k] = "none"
  PROVE  CarrierInv'
<1>1. /\ queue[j][n] = 1
      /\ \A m \in 0..MaxTries \ {n} : queue[j][m] = 0
      /\ \A v \in Workers : wjob[v] # j
      /\ \A r \in Requests : rjob[r] # j
  BY MessageCarriesAlone DEF CarrierInv
<1>2. /\ \A m \in 0..MaxTries : queue'[j][m] = 0
      /\ \A k \in Jobs \ {j} : queue'[k] = queue[k]
  BY <1>1 DEF BrokerTypes
<1>3. wjob'[w] \in {j, wjob[w]} /\ \A v \in Workers \ {w} : wjob'[v] = wjob[v]
  BY DEF WorkerTypes
<1>4. Carriers(j)' \subseteq {<<"worker", w>>}
  <2>1. {m \in 0..MaxTries : queue'[j][m] > 0} = {}
    BY <1>2
  <2>2. {v \in Workers : wjob'[v] = j} \subseteq {w} /\ {r \in Requests : rjob'[r] = j} = {}
    BY <1>1, <1>3
  <2>3. QED
    BY <2>1, <2>2 DEF Carriers
<1>5. ASSUME NEW k \in Jobs \ {j} PROVE Carriers(k)' \subseteq Carriers(k)
  <2>1. {m \in 0..MaxTries : queue'[k][m] > 0} = {m \in 0..MaxTries : queue[k][m] > 0}
    BY <1>2
  <2>2. /\ {v \in Workers : wjob'[v] = k} \subseteq {v \in Workers : wjob[v] = k}
        /\ {r \in Requests : rjob'[r] = k} = {r \in Requests : rjob[r] = k}
    BY <1>3
  <2>3. QED
    BY <2>1, <2>2 DEF Carriers
<1>6. \A k \in Jobs \ {j} : \A m \in 0..MaxTries : queue'[k][m] <= 1
  BY <1>2 DEF CarrierInv, OneCarrier
<1>7. \A m \in 0..MaxTries : queue'[j][m] <= 1
  BY <1>2
<1>8. status[j] # "none"
  <2>1. <<"message", n>> \in Carriers(j)
    BY MessageCarries
  <2>2. QED
    BY <2>1 DEF CarrierInv, Fresh
<1>9. QED
  BY <1>4, <1>5, <1>6, <1>7, <1>8, HandOver

\* The broker, the workers' and the requests' jobs unchanged, or some of them let go.
LEMMA Released ==
  ASSUME CarrierInv, BrokerTypes, UNCHANGED queue,
         \A w \in Workers : wjob'[w] \in {0, wjob[w]},
         \A r \in Requests : rjob'[r] \in {0, rjob[r]},
         \A k \in Jobs : status'[k] = "none" => status[k] = "none"
  PROVE  CarrierInv'
<1>1. BrokerTypes => \A k \in Jobs, n \in 0..MaxTries : queue'[k][n] <= queue[k][n]
  BY DEF BrokerTypes
<1>2. ASSUME NEW k \in Jobs PROVE Carriers(k)' \subseteq Carriers(k)
  <2>1. /\ {v \in Workers : wjob'[v] = k} \subseteq {v \in Workers : wjob[v] = k}
        /\ {r \in Requests : rjob'[r] = k} \subseteq {r \in Requests : rjob[r] = k}
    BY DEF Jobs
  <2>2. QED
    BY <2>1 DEF Carriers
<1>3. \A k \in Jobs : /\ \A c, e \in Carriers(k)' : c = e
                      /\ \A n \in 0..MaxTries : queue'[k][n] <= 1
                      /\ status'[k] = "none" => Carriers(k)' = {}
  BY <1>2 DEF CarrierInv, OneCarrier, Fresh
<1>4. QED
  BY <1>3 DEF CarrierInv, OneCarrier, Fresh

\* No job is old, none is re-armed: the two disturbances that bring a job a second
\* carrier, or refund one that still has a carrier, beside an ambiguous publish.
Undisturbed == rearm = {} /\ \A j \in Jobs : ~old[j]

Untroubled ==
  "ambiguous" \notin Disturbances /\ "age" \notin Disturbances /\ "retry" \notin Disturbances

LEMMA UndisturbedInductive ==
  ASSUME Untroubled, Undisturbed, [Next]_vars
  PROVE  Undisturbed'
<1> USE DEF Untroubled, Undisturbed, Disturb
<1>1. CASE UNCHANGED <<rearm, old>>
  BY <1>1
<1>2. ASSUME NEW r \in Requests, RequestStep(r) PROVE Undisturbed'
  BY <1>1, <1>2 DEF RequestStep, ReturnExisting, CancelStale, NoneActive,
     InsufficientCredits, ChargeAndCreate, Dispatch, DispatchRefused, DispatchLost,
     Compensate, jobVars, brokerVars
<1>3. ASSUME NEW w \in Workers, WorkerStep(w) \/ Die(w) PROVE Undisturbed'
  BY <1>1, <1>3 DEF WorkerStep, Fetch, MaskMissing, Acquire, LockBusy, Start, Extract,
     Inpaint, Advance, Encode, Persist, WorkFails, ReleaseGet, ReleaseDelete, Ack, Die,
     jobVars, brokerVars
<1>4. ASSUME NEW j \in Jobs,
             LockExpires(j) \/ AdminCancel(j) \/ AdminRetry(j) \/ Reenqueue(j) \/ Age(j)
      PROVE  Undisturbed'
  BY <1>1, <1>4 DEF LockExpires, AdminCancel, AdminRetry, Reenqueue, Age, jobVars, brokerVars
<1>5. CASE DeleteProject \/ DeleteMask \/ PutMask \/ ResetCredits
  BY <1>1, <1>5 DEF DeleteProject, DeleteMask, PutMask, ResetCredits, jobVars, brokerVars
<1>6. CASE UNCHANGED vars
  BY <1>1, <1>6 DEF vars, jobVars, brokerVars
<1>7. QED
  BY <1>2, <1>3, <1>4, <1>5, <1>6 DEF Next

\* The job's message goes out, or its request gives up and leaves it without a carrier.
LEMMA RequestLetsGo ==
  ASSUME CarrierInv, BrokerTypes, RequestTypes, NEW r \in Requests, NEW j \in Jobs,
         rjob[r] = j, NEW n \in {0, 1}, queue' = [queue EXCEPT ![j][0] = @ + n],
         rjob' = [rjob EXCEPT ![r] = 0], UNCHANGED <<status, wjob>>
  PROVE  CarrierInv'
<1>0. 0 \in 0..MaxTries
  OBVIOUS
<1>1. /\ \A m \in 0..MaxTries : queue[j][m] = 0
      /\ \A w \in Workers : wjob[w] # j
      /\ \A q \in Requests \ {r} : rjob[q] # j
  BY RequestCarriesAlone DEF CarrierInv
<1>2. /\ \A m \in 0..MaxTries : queue'[j][m] = IF m = 0 THEN n ELSE 0
      /\ \A k \in Jobs \ {j} : queue'[k] = queue[k]
  BY <1>0, <1>1 DEF BrokerTypes
<1>3. rjob'[r] = 0 /\ \A q \in Requests \ {r} : rjob'[q] = rjob[q]
  BY DEF RequestTypes
<1>4. Carriers(j)' \subseteq {<<"message", 0>>}
  <2>1. {m \in 0..MaxTries : queue'[j][m] > 0} \subseteq {0}
    BY <1>2
  <2>2. {w \in Workers : wjob'[w] = j} = {} /\ {q \in Requests : rjob'[q] = j} = {}
    BY <1>1, <1>3 DEF Jobs
  <2>3. QED
    BY <2>1, <2>2 DEF Carriers
<1>5. ASSUME NEW k \in Jobs \ {j} PROVE Carriers(k)' \subseteq Carriers(k)
  <2>1. {m \in 0..MaxTries : queue'[k][m] > 0} = {m \in 0..MaxTries : queue[k][m] > 0}
    BY <1>2
  <2>2. /\ {w \in Workers : wjob'[w] = k} = {w \in Workers : wjob[w] = k}
        /\ {q \in Requests : rjob'[q] = k} \subseteq {q \in Requests : rjob[q] = k}
    BY <1>3 DEF Jobs
  <2>3. QED
    BY <2>1, <2>2 DEF Carriers
<1>6. \A k \in Jobs \ {j} : \A m \in 0..MaxTries : queue'[k][m] <= 1
  BY <1>2 DEF CarrierInv, OneCarrier
<1>7. \A m \in 0..MaxTries : queue'[j][m] <= 1
  BY <1>2
<1>8. status[j] # "none"
  <2>1. <<"request", r>> \in Carriers(j)
    BY RequestCarries
  <2>2. QED
    BY <2>1 DEF CarrierInv, Fresh
<1>9. QED
  BY <1>4, <1>5, <1>6, <1>7, <1>8, HandOver

\* A request takes charge of the job it creates.
LEMMA RequestCreates ==
  ASSUME CarrierInv, JobTypes, RequestTypes, NEW r \in Requests, NEW j \in Jobs,
         status[j] = "none", status' = [status EXCEPT ![j] = "processing_queued"],
         rjob' = [rjob EXCEPT ![r] = j], UNCHANGED <<queue, wjob>>
  PROVE  CarrierInv'
<1>1. Carriers(j) = {}
  BY DEF CarrierInv, Fresh
<1>2. rjob'[r] = j /\ \A q \in Requests \ {r} : rjob'[q] = rjob[q]
  BY DEF RequestTypes
<1>3. Carriers(j)' \subseteq {<<"request", r>>}
  <2>1. /\ {m \in 0..MaxTries : queue'[j][m] > 0} = {}
        /\ {w \in Workers : wjob'[w] = j} = {}
        /\ {q \in Requests : rjob[q] = j} = {}
    <3>1. \A m \in 0..MaxTries : ~(queue[j][m] > 0)
      BY <1>1, MessageCarries
    <3>2. \A w \in Workers : wjob[w] # j
      BY <1>1, WorkerCarries
    <3>3. \A q \in Requests : rjob[q] # j
      BY <1>1, RequestCarries
    <3>4. QED
      BY <3>1, <3>2, <3>3
  <2>2. {q \in Requests : rjob'[q] = j} \subseteq {r}
    BY <1>2, <2>1
  <2>3. QED
    BY <2>1, <2>2 DEF Carriers
<1>4. ASSUME NEW k \in Jobs \ {j} PROVE Carriers(k)' \subseteq Carriers(k)
  <2>1. {q \in Requests : rjob'[q] = k} \subseteq {q \in Requests : rjob[q] = k}
    BY <1>2
  <2>2. QED
    BY <2>1 DEF Carriers
<1>5. \A k \in Jobs, m \in 0..MaxTries : queue'[k][m] <= 1
  BY DEF CarrierInv, OneCarrier
<1>6. /\ status'[j] # "none"
      /\ \A k \in Jobs \ {j} : status'[k] = status[k]
  BY DEF JobTypes
<1>7. QED
  BY <1>3, <1>4, <1>5, <1>6, HandOver

LEMMA RequestKeepsCarriers ==
  ASSUME TypeInv, CarrierInv, Untroubled, Undisturbed, NEW r \in Requests, RequestStep(r)
  PROVE  CarrierInv'
<1>t. JobTypes /\ BrokerTypes /\ RequestTypes /\ Engaged
  BY DEF TypeInv, TypeOK
<1>1. CASE \/ ReturnExisting(r) \/ InsufficientCredits(r) \/ CancelStale(r) \/ NoneActive(r)
           \/ DispatchRefused(r) \/ Compensate(r) \/ DispatchLost(r)
  <2>1. UNCHANGED queue
    BY <1>1 DEF ReturnExisting, CancelStale, NoneActive, InsufficientCredits, DispatchRefused,
       Compensate, DispatchLost, brokerVars, Disturb, Untroubled
  <2>2. \A w \in Workers : wjob'[w] \in {0, wjob[w]}
    BY <1>1 DEF ReturnExisting, CancelStale, NoneActive, InsufficientCredits, DispatchRefused,
       Compensate, DispatchLost, workerVars
  <2>3. \A q \in Requests : rjob'[q] \in {0, rjob[q]}
    BY <1>t, <1>1 DEF ReturnExisting, CancelStale, NoneActive, InsufficientCredits,
       DispatchRefused, Compensate, DispatchLost, RequestDone, RequestTypes
  <2>4. \A k \in Jobs : status'[k] = "none" => status[k] = "none"
    BY <1>t, <1>1 DEF ReturnExisting, CancelStale, NoneActive, InsufficientCredits,
       DispatchRefused, Compensate, DispatchLost, jobVars, JobTypes
  <2>5. QED
    BY <1>t, <2>1, <2>2, <2>3, <2>4, Released
<1>2. CASE ChargeAndCreate(r)
  BY <1>t, <1>2, RequestCreates DEF ChargeAndCreate, brokerVars, workerVars
<1>3. CASE Dispatch(r)
  BY <1>t, <1>3, RequestLetsGo
     DEF Dispatch, Sent, RequestDone, Engaged, Untroubled, Disturb, jobVars, workerVars
<1>4. QED
  BY <1>1, <1>2, <1>3 DEF RequestStep

\* Only a request's first commit brings a row into being.
LEMMA RowsStay ==
  ASSUME TypeInv, NEW w \in Workers, WorkerStep(w) \/ Die(w)
  PROVE  \A k \in Jobs : status'[k] = "none" => status[k] = "none"
<1>t. JobTypes /\ Engaged
  BY DEF TypeInv, TypeOK
<1>1. CASE UNCHANGED status
  BY <1>1
<1>2. ASSUME NEW j \in Jobs, NEW s \in JobState, status' = [status EXCEPT ![j] = s]
      PROVE  \A k \in Jobs : status'[k] = "none" => status[k] = "none"
  BY <1>t, <1>2 DEF JobTypes, JobState
<1>3. ASSUME NEW s, NEW key, Fail(w, s, key), wjob[w] \in Jobs
      PROVE  \A k \in Jobs : status'[k] = "none" => status[k] = "none"
  BY <1>1, <1>2, <1>3 DEF Fail, JobState
<1>4. CASE Start(w)
  BY <1>t, <1>1, <1>2, <1>3, <1>4 DEF Start, Engaged, JobTypes, JobState
<1>5. CASE Extract(w) \/ Inpaint(w) \/ WorkFails(w)
  BY <1>t, <1>1, <1>2, <1>3, <1>5 DEF Extract, Inpaint, Advance, WorkFails, Engaged, JobState
<1>6. CASE Persist(w)
  BY <1>t, <1>1, <1>2, <1>3, <1>6 DEF Persist, Engaged, JobState
<1>7. CASE MaskMissing(w)
  BY <1>1, <1>2, <1>7 DEF MaskMissing, JobState
<1>8. QED
  BY <1>1, <1>4, <1>5, <1>6, <1>7 DEF WorkerStep, Fetch, Acquire, LockBusy, Encode, ReleaseGet,
     ReleaseDelete, Ack, Die, jobVars

LEMMA WorkerKeepsCarriers ==
  ASSUME TypeInv, CarrierInv, NEW w \in Workers, WorkerStep(w) \/ Die(w)
  PROVE  CarrierInv'
<1>t. JobTypes /\ BrokerTypes /\ WorkerTypes /\ Engaged
  BY DEF TypeInv, TypeOK
<1>r. UNCHANGED rjob /\ \A k \in Jobs : status'[k] = "none" => status[k] = "none"
  <2>1. UNCHANGED rjob
    BY DEF WorkerStep, Fetch, MaskMissing, Acquire, LockBusy, Start, Extract, Inpaint, Encode,
       Persist, WorkFails, ReleaseGet, ReleaseDelete, Ack, Die, Advance, requestVars
  <2>2. QED
    BY <2>1, RowsStay
\* The worker has a job, so the job has a row.
<1>n. pc[w] # "idle" => wjob[w] \in Jobs /\ status[wjob[w]] # "none"
  <2>1. ASSUME pc[w] # "idle" PROVE wjob[w] \in Jobs
    BY <1>t, <2>1 DEF Engaged
  <2>2. ASSUME wjob[w] \in Jobs PROVE Carriers(wjob[w]) # {}
    BY <2>2, WorkerCarries
  <2>3. QED
    BY <2>1, <2>2 DEF CarrierInv, Fresh
<1>1. CASE \/ Acquire(w) \/ Start(w) \/ Extract(w) \/ Inpaint(w) \/ Encode(w) \/ Persist(w)
           \/ WorkFails(w) \/ ReleaseGet(w) \/ ReleaseDelete(w)
  <2>1. UNCHANGED <<queue, wjob>>
    BY <1>1 DEF Acquire, Start, Extract, Inpaint, Encode, Persist, WorkFails, ReleaseGet,
       ReleaseDelete, Advance, brokerVars
  <2>2. QED
    BY <1>t, <1>r, <2>1, Released
\* The worker lets go of its job without a message: its work is done, the job is lost.
<1>2. ASSUME pc[w] # "idle", UNCHANGED queue, wjob' = [wjob EXCEPT ![w] = 0]
      PROVE  CarrierInv'
  BY <1>t, <1>r, <1>2, Released DEF WorkerTypes
<1>3. ASSUME pc[w] # "idle", Requeued(wjob[w], tries[w]), WorkerIdle(w), UNCHANGED status
      PROVE  CarrierInv'
  <2>1. CASE tries[w] < MaxTries
    <3>1. tries[w] + 1 \in 0..MaxTries
      BY <1>t, <2>1 DEF WorkerTypes
    <3>2. QED
      BY <1>t, <1>r, <1>n, <1>3, <2>1, <3>1, WorkerHandsBack DEF Requeued, WorkerIdle
  <2>2. CASE ~(tries[w] < MaxTries)
    BY <1>2, <1>3, <2>2 DEF Requeued, WorkerIdle
  <2>3. QED
    BY <2>1, <2>2
<1>4. CASE LockBusy(w)
  BY <1>3, <1>4 DEF LockBusy, jobVars
<1>5. CASE Ack(w)
  BY <1>2, <1>3, <1>5 DEF Ack, WorkerIdle, jobVars
<1>6. CASE Die(w)
  <2>1. tries[w] \in 0..MaxTries
    BY <1>t DEF WorkerTypes
  <2>2. QED
    BY <1>t, <1>r, <1>n, <1>2, <1>6, <2>1, WorkerHandsBack DEF Die, WorkerIdle, jobVars
<1>7. CASE Fetch(w)
  <2>1. PICK j \in Jobs, n \in 0..MaxTries :
          /\ queue[j][n] > 0
          /\ queue' = [queue EXCEPT ![j][n] = @ - 1]
          /\ wjob' \in {wjob, [wjob EXCEPT ![w] = j]}
    BY <1>7 DEF Fetch, workerVars
  <2>2. QED
    BY <1>t, <1>r, <2>1, WorkerTakes
<1>8. CASE MaskMissing(w)
  <2>1. PICK j \in Jobs, n \in 0..MaxTries :
          /\ queue[j][n] > 0
          /\ queue' = [queue EXCEPT ![j][n] = @ - 1]
          /\ wjob' \in {wjob, [wjob EXCEPT ![w] = j]}
    BY <1>8 DEF MaskMissing, workerVars
  <2>2. QED
    BY <1>t, <1>r, <2>1, WorkerTakes
<1>9. QED
  BY <1>1, <1>4, <1>5, <1>6, <1>7, <1>8 DEF WorkerStep

\* Where no publish is ambiguous, no job ages and none is re-armed, never more than one
\* message, worker or request is about a job.
LEMMA CarriersInductive ==
  ASSUME TypeInv, CarrierInv, Untroubled, Undisturbed, [Next]_vars
  PROVE  CarrierInv'
<1>t. JobTypes /\ BrokerTypes
  BY DEF TypeInv, TypeOK
<1>1. ASSUME UNCHANGED <<queue, wjob, rjob>>,
             \A k \in Jobs : status'[k] = "none" => status[k] = "none"
      PROVE  CarrierInv'
  BY <1>t, <1>1, Released
<1>2. ASSUME NEW j \in Jobs,
             LockExpires(j) \/ AdminCancel(j) \/ AdminRetry(j) \/ Reenqueue(j) \/ Age(j)
      PROVE  CarrierInv'
  <2>1. CASE LockExpires(j) \/ AdminCancel(j) \/ Age(j)
    BY <1>t, <1>1, <2>1 DEF LockExpires, AdminCancel, Age, JobTypes, jobVars, brokerVars,
       workerVars, requestVars
  <2>2. CASE AdminRetry(j) \/ Reenqueue(j)
    BY <2>2 DEF AdminRetry, Reenqueue, Untroubled, Undisturbed, Disturb
  <2>3. QED
    BY <1>2, <2>1, <2>2
<1>3. CASE DeleteProject \/ DeleteMask \/ PutMask \/ ResetCredits
  BY <1>t, <1>1, <1>3 DEF DeleteProject, DeleteMask, PutMask, ResetCredits, JobTypes, jobVars,
     brokerVars, workerVars, requestVars
<1>4. CASE UNCHANGED vars
  BY <1>1, <1>4 DEF vars, jobVars, brokerVars, workerVars, requestVars
<1>5. QED
  BY <1>2, <1>3, <1>4, RequestKeepsCarriers, WorkerKeepsCarriers DEF Next

\* Who still has a job's outcome in hand finds it open: nobody else has decided it.
Decided == {"failed", "completed"}
StillOpen ==
  /\ \A w \in Workers : pc[w] \in {"fetched"} \cup Working => status[wjob[w]] \notin Decided
  /\ \A r \in Requests : rpc[r] \in {"publish", "compensate"} => status[rjob[r]] \notin Decided

\* A worker about to commit can only find its job encoding or cancelled, so that the
\* failing commit, which would keep the output row, is never a legal transition.
EncodedOrCancelled ==
  \A w \in Workers :
    pc[w] \in {"encode", "persist"} => status[wjob[w]] \in {"encoding", "cancelled"}

\* One outcome per job, read off its status.
OneOutcome ==
  /\ \A j \in Jobs : /\ refunds[j] <= 1
                     /\ refunds[j] > 0 => status[j] = "failed"
                     /\ j \in delivered => status[j] = "completed"
  /\ recorded \subseteq delivered

OutcomeInv == StillOpen /\ EncodedOrCancelled /\ OneOutcome

\* A refund of a job that has had none.
LEMMA FirstRefund ==
  ASSUME CreditTypes, NEW j \in Jobs, refunds[j] = 0,
         RefundUntagged(j) \/ RefundTagged(j) \/ UNCHANGED creditVars
  PROVE  refunds'[j] <= 1 /\ \A k \in Jobs \ {j} : refunds'[k] = refunds[k]
  BY DEF CreditTypes, RefundUntagged, RefundTagged, Refunded, creditVars

\* A job neither failed nor completed was neither refunded nor delivered.
LEMMA OpenMeansNoOutcome ==
  ASSUME CreditTypes, OneOutcome, NEW j \in Jobs, status[j] \notin Decided
  PROVE  refunds[j] = 0 /\ j \notin delivered
<1>1. refunds[j] \in Nat
  BY DEF CreditTypes
<1>2. QED
  BY <1>1 DEF OneOutcome, Decided

\* Steps that decide nothing: rows change to cancelled at most, nobody comes to hold a
\* job, nothing is refunded or delivered.
LEMMA UndecidedSteps ==
  ASSUME TypeInv, OutcomeInv, UNCHANGED <<refunds, delivered, recorded>>,
         \A j \in Jobs : \/ status'[j] = status[j]
                         \/ status[j] \notin Decided /\ status'[j] = "cancelled",
         \A w \in Workers : pc'[w] \in {"fetched"} \cup Working =>
                              pc'[w] = pc[w] /\ wjob'[w] = wjob[w],
         \A r \in Requests : rpc'[r] \in {"publish", "compensate"} =>
                              rpc[r] \in {"publish", "compensate"} /\ rjob'[r] = rjob[r]
  PROVE  OutcomeInv'
<1>t. Engaged /\ CreditTypes
  BY DEF TypeInv, TypeOK
<1>1. StillOpen'
  BY <1>t DEF OutcomeInv, StillOpen, Engaged, Decided
<1>2. EncodedOrCancelled'
  BY <1>t DEF OutcomeInv, EncodedOrCancelled, Engaged, Decided
<1>3. OneOutcome'
  BY <1>t DEF OutcomeInv, OneOutcome, CreditTypes, Decided
<1>4. QED
  BY <1>1, <1>2, <1>3 DEF OutcomeInv

\* One worker's step on its own job, alone with it.
LEMMA HolderSteps ==
  ASSUME TypeInv, CarrierInv, OutcomeInv, NEW w \in Workers, NEW j \in Jobs, wjob[w] = j,
         UNCHANGED <<wjob, rpc, rjob>>,
         \A v \in Workers \ {w} : pc'[v] = pc[v],
         \A k \in Jobs \ {j} : status'[k] = status[k] /\ refunds'[k] = refunds[k],
         pc'[w] \in {"fetched"} \cup Working => status'[j] \notin Decided,
         pc'[w] \in {"encode", "persist"} => status'[j] \in {"encoding", "cancelled"},
         refunds'[j] <= 1, refunds'[j] > 0 => status'[j] = "failed",
         j \in delivered' => status'[j] = "completed",
         delivered \subseteq delivered', delivered' \subseteq delivered \cup {j},
         recorded' \subseteq delivered'
  PROVE  OutcomeInv'
<1>t. BrokerTypes /\ Engaged
  BY DEF TypeInv, TypeOK
<1>1. /\ \A v \in Workers \ {w} : wjob[v] # j
      /\ \A r \in Requests : rjob[r] # j
  BY <1>t, WorkerCarriesAlone DEF CarrierInv
<1>2. StillOpen'
  <2>1. ASSUME NEW v \in Workers, pc'[v] \in {"fetched"} \cup Working
        PROVE  status'[wjob[v]] \notin Decided
    BY <1>t, <1>1, <2>1 DEF OutcomeInv, StillOpen, Engaged
  <2>2. ASSUME NEW r \in Requests, rpc[r] \in {"publish", "compensate"}
        PROVE  status'[rjob[r]] \notin Decided
    BY <1>t, <1>1, <2>2 DEF OutcomeInv, StillOpen, Engaged
  <2>3. QED
    BY <2>1, <2>2 DEF StillOpen
<1>3. EncodedOrCancelled'
  BY <1>t, <1>1 DEF OutcomeInv, EncodedOrCancelled, Engaged
<1>4. OneOutcome'
  BY DEF OutcomeInv, OneOutcome
<1>5. QED
  BY <1>2, <1>3, <1>4 DEF OutcomeInv

\* _fail by the one worker that has the job: the refund is the first.
LEMMA FailDecides ==
  ASSUME TypeInv, CarrierInv, OutcomeInv, NEW w \in Workers, NEW s,
         NEW key \in BOOLEAN, pc[w] \in Working, Fail(w, s, key),
         s \notin Terminal \/ s = status[wjob[w]],
         ~key \/ ~TransitionOK(s, "failed"),
         UNCHANGED <<wjob, rpc, rjob, delivered>>
  PROVE  OutcomeInv'
<1>t. JobTypes /\ CreditTypes /\ WorkerTypes /\ Engaged
  BY DEF TypeInv, TypeOK
<1>0. PICK j \in Jobs : j = wjob[w]
  BY <1>t DEF Engaged
<1>1. pc' = [pc EXCEPT ![w] = "release"]
  BY DEF Fail, Go
<1>2. pc'[w] = "release" /\ \A v \in Workers \ {w} : pc'[v] = pc[v]
  BY <1>t, <1>1 DEF WorkerTypes
<1>3. status[j] \notin Decided
  BY <1>0 DEF OutcomeInv, StillOpen
<1>4. refunds[j] = 0 /\ j \notin delivered
  BY <1>t, <1>3, OpenMeansNoOutcome DEF OutcomeInv
<1>5. CASE TransitionOK(s, "failed")
  <2>1. status' = [status EXCEPT ![j] = "failed"] /\ UNCHANGED recorded
    BY <1>0, <1>5 DEF Fail
  <2>2. s \notin Terminal
    BY <1>0, <1>3, <1>5 DEF Decided, TransitionOK, CanTransition, Transitions
  <2>3. refunds'[j] <= 1 /\ \A k \in Jobs \ {j} : refunds'[k] = refunds[k]
    <3>1. RefundTagged(j)
      BY <1>0, <1>5, <2>2 DEF Fail
    <3>2. QED
      BY <1>t, <1>4, <3>1, FirstRefund
  <2>4. status'[j] = "failed" /\ \A k \in Jobs \ {j} : status'[k] = status[k]
    BY <1>t, <2>1 DEF JobTypes
  <2>5. recorded' \subseteq delivered'
    BY <2>1 DEF OutcomeInv, OneOutcome
  <2>6. QED
    BY <1>0, <1>2, <1>4, <2>3, <2>4, <2>5, HolderSteps
<1>6. CASE ~TransitionOK(s, "failed")
  <2>1. UNCHANGED <<status, recorded, refunds>>
    BY <1>6 DEF Fail, creditVars
  <2>2. recorded' \subseteq delivered'
    BY <2>1 DEF OutcomeInv, OneOutcome
  <2>3. QED
    BY <1>0, <1>2, <1>4, <2>1, <2>2, HolderSteps
<1>7. QED
  BY <1>5, <1>6

LEMMA WorkerDecides ==
  ASSUME TypeInv, CarrierInv, OutcomeInv, NEW w \in Workers, WorkerStep(w) \/ Die(w)
  PROVE  OutcomeInv'
<1>t. JobTypes /\ CreditTypes /\ WorkerTypes /\ BrokerTypes /\ Engaged
  BY DEF TypeInv, TypeOK
<1>r. UNCHANGED <<rpc, rjob>>
  BY DEF WorkerStep, Fetch, MaskMissing, Acquire, LockBusy, Start, Extract, Inpaint, Encode,
     Persist, WorkFails, ReleaseGet, ReleaseDelete, Ack, Die, Advance, requestVars
\* The worker steps on without deciding.
<1>1. ASSUME NEW j \in Jobs, wjob[w] = j, pc[w] \in {"fetched"} \cup Working,
             NEW next \in WorkerSteps, Go(w, next),
             status' = status \/ \E s \in JobState \ Decided : status' = [status EXCEPT ![j] = s],
             next \in {"encode", "persist"} => status'[j] \in {"encoding", "cancelled"},
             UNCHANGED <<wjob, refunds, delivered, recorded>>
      PROVE  OutcomeInv'
  <2>1. pc'[w] = next /\ \A v \in Workers \ {w} : pc'[v] = pc[v]
    BY <1>t, <1>1 DEF Go, WorkerTypes
  <2>2. status[j] \notin Decided
    BY <1>1 DEF OutcomeInv, StillOpen
  <2>3. status'[j] \notin Decided /\ \A k \in Jobs \ {j} : status'[k] = status[k]
    BY <1>t, <1>1, <2>2 DEF JobTypes
  <2>4. refunds[j] = 0 /\ j \notin delivered /\ recorded \subseteq delivered
    BY <1>t, <2>2, OpenMeansNoOutcome DEF OutcomeInv, OneOutcome
  <2>5. QED
    BY <1>1, <1>r, <2>1, <2>3, <2>4, HolderSteps
<1>2. CASE Acquire(w)
  BY <1>t, <1>1, <1>2 DEF Acquire, Engaged, jobVars, projectVars, creditVars
<1>3. CASE Encode(w)
  <2>1. wjob[w] \in Jobs /\ status[wjob[w]] \in {"encoding", "cancelled"}
    BY <1>t, <1>3 DEF Encode, Engaged, OutcomeInv, EncodedOrCancelled
  <2>2. QED
    BY <1>1, <1>3, <2>1 DEF Encode, jobVars, creditVars
<1>4. CASE Start(w)
  <2>1. wjob[w] \in Jobs /\ seen[w] \notin Terminal
    BY <1>t, <1>4 DEF Start, Engaged
  <2>2. CASE TransitionOK(seen[w], "processing")
    <3>1. status' = status \/ status' = [status EXCEPT ![wjob[w]] = "processing"]
      BY <1>t, <1>4, <2>1, <2>2 DEF Start, JobTypes
    <3>2. Go(w, "extract") /\ UNCHANGED <<wjob, refunds, delivered, recorded>>
      BY <1>4, <2>2 DEF Start, creditVars
    <3>3. QED
      BY <1>1, <1>4, <2>1, <3>1, <3>2 DEF Start, JobState, Decided
  <2>3. CASE ~TransitionOK(seen[w], "processing")
    <3>1. pc[w] \in Working /\ Fail(w, seen[w], FALSE) /\ UNCHANGED <<wjob, delivered>>
      BY <1>4, <2>3 DEF Start
    <3>2. QED
      BY <1>r, <2>1, <3>1, FALSE \in BOOLEAN, FailDecides
  <2>4. QED
    BY <2>2, <2>3
<1>5. ASSUME NEW from \in Working, NEW target \in {"processing", "encoding"},
             NEW next \in Working, Advance(w, from, target, next),
             next = "encode" => target = "encoding", next # "persist"
      PROVE  OutcomeInv'
  <2>1. wjob[w] \in Jobs
    BY <1>t, <1>5 DEF Advance, Engaged
  <2>2. CASE TransitionOK(status[wjob[w]], target)
    <3>1. status' = [status EXCEPT ![wjob[w]] = target] /\ Go(w, next)
      BY <1>5, <2>2 DEF Advance
    <3>2. UNCHANGED <<wjob, refunds, delivered, recorded>>
      BY <1>5, <2>2 DEF Advance, creditVars
    <3>3. status'[wjob[w]] = target
      BY <1>t, <2>1, <3>1 DEF JobTypes
    <3>4. QED
      BY <1>1, <1>5, <2>1, <3>1, <3>2, <3>3 DEF Advance, JobState, Decided
  <2>3. CASE ~TransitionOK(status[wjob[w]], target)
    <3>1. /\ pc[w] \in Working /\ Fail(w, status[wjob[w]], FALSE)
          /\ UNCHANGED <<wjob, delivered>>
      BY <1>5, <2>3 DEF Advance
    <3>2. QED
      BY <1>r, <3>1, FALSE \in BOOLEAN, FailDecides
  <2>4. QED
    BY <2>2, <2>3
<1>6. CASE Extract(w) \/ Inpaint(w)
  BY <1>5, <1>6 DEF Extract, Inpaint
<1>7. CASE Persist(w)
  <2>1. PICK j \in Jobs : j = wjob[w]
    BY <1>t, <1>7 DEF Persist, Engaged
  <2>2. status[j] \in {"encoding", "cancelled"}
    BY <1>7, <2>1 DEF Persist, OutcomeInv, EncodedOrCancelled
  <2>3. CASE TransitionOK(status[j], "completed")
    <3>1. /\ status' = [status EXCEPT ![j] = "completed"] /\ Go(w, "release")
          /\ delivered' = delivered \cup {j} /\ recorded' = recorded \cup {j}
          /\ UNCHANGED <<wjob, refunds>>
      BY <1>7, <2>1, <2>3 DEF Persist, creditVars
    <3>2. pc'[w] = "release" /\ \A v \in Workers \ {w} : pc'[v] = pc[v]
      BY <1>t, <3>1 DEF Go, WorkerTypes
    <3>3. status'[j] = "completed" /\ \A k \in Jobs \ {j} : status'[k] = status[k]
      BY <1>t, <3>1 DEF JobTypes
    <3>4. refunds[j] = 0 /\ recorded \subseteq delivered
      BY <1>t, <2>2, OpenMeansNoOutcome DEF OutcomeInv, OneOutcome, Decided
    <3>5. QED
      BY <1>r, <2>1, <3>1, <3>2, <3>3, <3>4, HolderSteps
  <2>4. CASE ~TransitionOK(status[j], "completed")
    <3>1. ~TransitionOK(status[j], "failed")
      BY <2>2, <2>4 DEF TransitionOK, CanTransition, Transitions
    <3>2. QED
      <4>1. /\ pc[w] \in Working /\ Fail(w, status[wjob[w]], TRUE)
            /\ UNCHANGED <<wjob, delivered>>
        BY <1>7, <2>1, <2>4 DEF Persist
      <4>2. QED
        BY <1>r, <2>1, <3>1, <4>1, TRUE \in BOOLEAN, FailDecides
  <2>5. QED
    BY <2>3, <2>4
<1>8. CASE WorkFails(w)
  <2>1. /\ pc[w] \in Working /\ Fail(w, status[wjob[w]], FALSE)
        /\ UNCHANGED <<wjob, delivered>>
    BY <1>8 DEF WorkFails
  <2>2. QED
    BY <1>r, <2>1, FALSE \in BOOLEAN, FailDecides
\* The worker is out of it, or lets go.
<1>9. ASSUME UNCHANGED <<status, refunds, delivered, recorded>>,
             pc'[w] \notin {"fetched"} \cup Working,
             \A v \in Workers \ {w} : pc'[v] = pc[v] /\ wjob'[v] = wjob[v]
      PROVE  OutcomeInv'
  BY <1>9, <1>r, UndecidedSteps
<1>10. CASE LockBusy(w) \/ ReleaseGet(w) \/ ReleaseDelete(w) \/ Ack(w) \/ Die(w)
  <2>1. UNCHANGED <<status, refunds, delivered, recorded>>
    BY <1>10 DEF LockBusy, ReleaseGet, ReleaseDelete, Ack, Die, jobVars, projectVars, creditVars
  <2>2. /\ pc'[w] \notin {"fetched"} \cup Working
        /\ \A v \in Workers \ {w} : pc'[v] = pc[v] /\ wjob'[v] = wjob[v]
    BY <1>t, <1>10 DEF LockBusy, ReleaseGet, ReleaseDelete, Ack, Die, WorkerIdle, Go, WorkerTypes
  <2>3. QED
    BY <1>9, <2>1, <2>2
<1>11. CASE Fetch(w)
  <2>0. pc[w] = "idle" /\ UNCHANGED <<status, refunds, delivered, recorded>>
    BY <1>11 DEF Fetch, jobVars, projectVars, creditVars
  <2>1. PICK j \in Jobs, n \in 0..MaxTries :
          /\ queue[j][n] > 0
          /\ IF status[j] \in Terminal
               THEN UNCHANGED workerVars
               ELSE Go(w, "fetched") /\ wjob' = [wjob EXCEPT ![w] = j]
    BY <1>11 DEF Fetch
  <2>2. CASE status[j] \in Terminal
    BY <1>9, <2>0, <2>1, <2>2 DEF workerVars
  <2>3. CASE status[j] \notin Terminal
    <3>1. /\ pc'[w] = "fetched" /\ wjob'[w] = j
          /\ \A v \in Workers \ {w} : pc'[v] = pc[v] /\ wjob'[v] = wjob[v]
      BY <1>t, <2>1, <2>3 DEF Go, WorkerTypes
    <3>2. StillOpen' /\ EncodedOrCancelled'
      BY <1>r, <2>0, <2>3, <3>1 DEF OutcomeInv, StillOpen, EncodedOrCancelled, Decided
    <3>3. OneOutcome'
      BY <2>0 DEF OutcomeInv, OneOutcome
    <3>4. QED
      BY <3>2, <3>3 DEF OutcomeInv
  <2>4. QED
    BY <2>2, <2>3
<1>12. CASE MaskMissing(w)
  <2>0. pc[w] = "idle" /\ UNCHANGED <<refunds, delivered, recorded>>
    BY <1>12 DEF MaskMissing, projectVars, creditVars
  <2>1. PICK j \in Jobs, n \in 0..MaxTries :
          /\ queue[j][n] > 0
          /\ IF TransitionOK(status[j], "failed")
               THEN status' = [status EXCEPT ![j] = "failed"] /\ UNCHANGED workerVars
               ELSE /\ Go(w, "ack") /\ wjob' = [wjob EXCEPT ![w] = j]
                    /\ UNCHANGED status
    BY <1>12 DEF MaskMissing
  <2>2. CASE ~TransitionOK(status[j], "failed")
    <3>1. /\ pc'[w] = "ack" /\ status' = status
          /\ \A v \in Workers \ {w} : pc'[v] = pc[v] /\ wjob'[v] = wjob[v]
      BY <1>t, <2>1, <2>2 DEF Go, WorkerTypes
    <3>2. QED
      BY <1>9, <2>0, <3>1
  <2>3. CASE TransitionOK(status[j], "failed")
    <3>1. /\ status'[j] = "failed" /\ UNCHANGED workerVars
          /\ \A k \in Jobs \ {j} : status'[k] = status[k]
      BY <1>t, <2>1, <2>3 DEF JobTypes
    <3>2. status[j] # "completed"
      BY <2>3 DEF TransitionOK, CanTransition, Transitions
    <3>3. (\A v \in Workers : wjob[v] # j) /\ (\A r \in Requests : rjob[r] # j)
      BY <1>t, <2>1, MessageCarriesAlone DEF CarrierInv
    <3>4. StillOpen'
      BY <1>t, <1>r, <3>1, <3>3 DEF OutcomeInv, StillOpen, Engaged, workerVars
    <3>5. EncodedOrCancelled'
      BY <1>t, <3>1, <3>3 DEF OutcomeInv, EncodedOrCancelled, Engaged, workerVars
    <3>6. OneOutcome'
      BY <2>0, <3>1, <3>2 DEF OutcomeInv, OneOutcome
    <3>7. QED
      BY <3>4, <3>5, <3>6 DEF OutcomeInv
  <2>4. QED
    BY <2>2, <2>3
<1>13. QED
  BY <1>2, <1>3, <1>4, <1>6, <1>7, <1>8, <1>10, <1>11, <1>12 DEF WorkerStep

LEMMA RequestDecides ==
  ASSUME TypeInv, CarrierInv, OutcomeInv, Undisturbed, NEW r \in Requests, RequestStep(r)
  PROVE  OutcomeInv'
<1>t. JobTypes /\ CreditTypes /\ RequestTypes /\ BrokerTypes /\ Engaged
  BY DEF TypeInv, TypeOK
<1>1. CASE ReturnExisting(r) \/ InsufficientCredits(r) \/ NoneActive(r) \/ Dispatch(r)
           \/ DispatchRefused(r) \/ DispatchLost(r)
  <2>1. UNCHANGED <<status, refunds, delivered, recorded, pc, wjob>>
    BY <1>1 DEF ReturnExisting, InsufficientCredits, NoneActive, Dispatch, DispatchRefused,
       DispatchLost, jobVars, creditVars, projectVars, workerVars
  <2>2. \A q \in Requests : rpc'[q] \in {"publish", "compensate"} =>
                             rpc[q] \in {"publish", "compensate"} /\ rjob'[q] = rjob[q]
    BY <1>t, <1>1 DEF ReturnExisting, InsufficientCredits, NoneActive, Dispatch, DispatchRefused,
       DispatchLost, RequestDone, RequestTypes
  <2>3. QED
    BY <2>1, <2>2, UndecidedSteps
<1>2. CASE CancelStale(r)
  BY <1>2 DEF CancelStale, Stale, Undisturbed
<1>3. CASE ChargeAndCreate(r)
  <2>1. PICK j \in Jobs : /\ status[j] = "none"
                          /\ status' = [status EXCEPT ![j] = "processing_queued"]
                          /\ rjob' = [rjob EXCEPT ![r] = j]
    BY <1>3 DEF ChargeAndCreate
  <2>2. /\ rpc' = [rpc EXCEPT ![r] = "publish"]
        /\ UNCHANGED <<refunds, delivered, recorded, pc, wjob>>
    BY <1>3 DEF ChargeAndCreate, workerVars
  <2>3. /\ status'[j] = "processing_queued"
        /\ \A k \in Jobs \ {j} : status'[k] = status[k]
        /\ rjob'[r] = j
        /\ \A q \in Requests \ {r} : rpc'[q] = rpc[q] /\ rjob'[q] = rjob[q]
    BY <1>t, <2>1, <2>2 DEF JobTypes, RequestTypes
  <2>4. \A w \in Workers : wjob[w] # j
    BY <2>1, WorkerCarries DEF CarrierInv, Fresh
  <2>5. StillOpen'
    BY <1>t, <2>2, <2>3, <2>4 DEF OutcomeInv, StillOpen, Engaged, Decided
  <2>6. EncodedOrCancelled'
    BY <1>t, <2>2, <2>3, <2>4 DEF OutcomeInv, EncodedOrCancelled, Engaged
  <2>7. OneOutcome'
    BY <2>1, <2>2, <2>3 DEF OutcomeInv, OneOutcome
  <2>8. QED
    BY <2>5, <2>6, <2>7 DEF OutcomeInv
<1>4. CASE Compensate(r)
  <2>1. PICK j \in Jobs : j = rjob[r]
    BY <1>t, <1>4 DEF Compensate, Engaged
  <2>2. status[j] \notin Decided
    BY <1>4, <2>1 DEF Compensate, OutcomeInv, StillOpen
  <2>3. refunds[j] = 0 /\ j \notin delivered
    BY <1>t, <2>2, OpenMeansNoOutcome DEF OutcomeInv
  <2>4. refunds'[j] <= 1 /\ \A k \in Jobs \ {j} : refunds'[k] = refunds[k]
    BY <1>t, <1>4, <2>1, <2>3, FirstRefund DEF Compensate
  <2>5. /\ status'[j] = "failed" /\ \A k \in Jobs \ {j} : status'[k] = status[k]
        /\ rpc'[r] = "idle"
        /\ \A q \in Requests \ {r} : rpc'[q] = rpc[q] /\ rjob'[q] = rjob[q]
    BY <1>t, <1>4, <2>1 DEF Compensate, RequestDone, JobTypes, RequestTypes
  <2>6. UNCHANGED <<delivered, recorded, pc, wjob>>
    BY <1>4 DEF Compensate, projectVars, workerVars
  <2>7. (\A w \in Workers : wjob[w] # j) /\ (\A q \in Requests \ {r} : rjob[q] # j)
    BY <1>t, <2>1, RequestCarriesAlone DEF CarrierInv
  <2>8. StillOpen'
    BY <1>t, <2>5, <2>6, <2>7 DEF OutcomeInv, StillOpen, Engaged
  <2>9. EncodedOrCancelled'
    BY <1>t, <2>5, <2>6, <2>7 DEF OutcomeInv, EncodedOrCancelled, Engaged
  <2>10. OneOutcome'
    BY <2>3, <2>4, <2>5, <2>6 DEF OutcomeInv, OneOutcome
  <2>11. QED
    BY <2>8, <2>9, <2>10 DEF OutcomeInv
<1>5. QED
  BY <1>1, <1>2, <1>3, <1>4 DEF RequestStep

LEMMA OutcomeInductive ==
  ASSUME TypeInv, CarrierInv, OutcomeInv, Undisturbed, Untroubled, [Next]_vars
  PROVE  OutcomeInv'
<1>t. JobTypes
  BY DEF TypeInv, TypeOK
<1>1. ASSUME NEW j \in Jobs,
             LockExpires(j) \/ AdminCancel(j) \/ AdminRetry(j) \/ Reenqueue(j) \/ Age(j)
      PROVE  OutcomeInv'
  <2>1. CASE LockExpires(j) \/ AdminCancel(j) \/ Age(j)
    <3>1. \A k \in Jobs : \/ status'[k] = status[k]
                          \/ status[k] \notin Decided /\ status'[k] = "cancelled"
      BY <1>t, <2>1 DEF LockExpires, AdminCancel, Age, JobTypes, jobVars, Decided
    <3>2. UNCHANGED <<refunds, delivered, recorded, pc, wjob, rpc, rjob>>
      BY <2>1 DEF LockExpires, AdminCancel, Age, projectVars, creditVars, workerVars, requestVars
    <3>3. QED
      BY <3>1, <3>2, UndecidedSteps
  <2>2. CASE AdminRetry(j) \/ Reenqueue(j)
    BY <2>2 DEF AdminRetry, Reenqueue, Untroubled, Undisturbed, Disturb
  <2>3. QED
    BY <1>1, <2>1, <2>2
<1>2. CASE DeleteProject \/ DeleteMask \/ PutMask \/ ResetCredits
  <2>1. \A k \in Jobs : \/ status'[k] = status[k]
                        \/ status[k] \notin Decided /\ status'[k] = "cancelled"
    BY <1>t, <1>2 DEF DeleteProject, DeleteMask, PutMask, ResetCredits, jobVars, Decided
  <2>2. UNCHANGED <<refunds, delivered, recorded, pc, wjob, rpc, rjob>>
    BY <1>2 DEF DeleteProject, DeleteMask, PutMask, ResetCredits, projectVars, creditVars,
       workerVars, requestVars
  <2>3. QED
    BY <2>1, <2>2, UndecidedSteps
<1>3. CASE UNCHANGED vars
  BY <1>3, UndecidedSteps DEF vars, jobVars, projectVars, creditVars, workerVars, requestVars
<1>4. QED
  BY <1>1, <1>2, <1>3, RequestDecides, WorkerDecides DEF Next

LEMMA OutcomeAlways ==
  ASSUME "ambiguous" \notin Disturbances, "age" \notin Disturbances,
         "retry" \notin Disturbances
  PROVE  Spec => []DeliveredXorRefunded /\ []RecordedOnlyIfDelivered
<1>0. Untroubled
  BY DEF Untroubled
<1>1. Init => CarrierInv /\ Undisturbed /\ OutcomeInv
  <2> SUFFICES ASSUME Init PROVE CarrierInv /\ Undisturbed /\ OutcomeInv
    OBVIOUS
  <2>1. \A j \in Jobs : Carriers(j) = {} /\ \A n \in 0..MaxTries : queue[j][n] = 0
    BY DEF Init, Carriers, Jobs
  <2>2. CarrierInv
    BY <2>1 DEF CarrierInv, OneCarrier, Fresh
  <2>3. Undisturbed /\ OutcomeInv
    BY DEF Init, Undisturbed, OutcomeInv, StillOpen, EncodedOrCancelled, OneOutcome
  <2>4. QED
    BY <2>2, <2>3
<1>2. TypeInv /\ (CarrierInv /\ Undisturbed /\ OutcomeInv) /\ [Next]_vars
        => (CarrierInv /\ Undisturbed /\ OutcomeInv)'
  BY <1>0, CarriersInductive, UndisturbedInductive, OutcomeInductive
<1>3. TypeInv /\ OutcomeInv => DeliveredXorRefunded /\ RecordedOnlyIfDelivered
  BY DEF TypeInv, TypeOK, CreditTypes, OutcomeInv, OneOutcome, DeliveredXorRefunded,
     RecordedOnlyIfDelivered
<1>4. QED
  BY <1>1, <1>2, <1>3, TypesAlways, PTL DEF Spec

\* Where no publish is ambiguous, no job waits for _STALE_QUEUE_SECONDS and none is
\* re-armed, a job is paid back at most once, and never when its video was delivered:
\* the job's one carrier decides it once.  Crashes, lost and refused publishes, hard
\* kills, cancellations, deletions and a deleted mask are all allowed, and the lock may
\* lapse: with one carrier it is not what keeps two workers from refunding twice.
THEOREM PaidBackOrDelivered ==
  ASSUME "ambiguous" \notin Disturbances, "age" \notin Disturbances,
         "retry" \notin Disturbances
  PROVE  Spec => []DeliveredXorRefunded
<1>1. QED
  BY OutcomeAlways, PTL

\* Under the same hypotheses the row and the key that _fail's commit would keep are
\* never kept: a worker whose last transition is refused finds its job cancelled, and
\* from there mark_failed raises and nothing commits.
THEOREM OutputRowsAreDelivered ==
  ASSUME "ambiguous" \notin Disturbances, "age" \notin Disturbances,
         "retry" \notin Disturbances
  PROVE  Spec => []RecordedOnlyIfDelivered
<1>1. QED
  BY OutcomeAlways, PTL
============================================================================
