-------------------------- MODULE PipelineProofs --------------------------
(***************************************************************************)
(* What the pipeline guarantees for any number of workers, requests, jobs  *)
(* and disturbances.                                                       *)
(***************************************************************************)
EXTENDS PipelineProperties, TLAPS

\* A worker under way has a job, one it found unfinished, and a request that has
\* charged the user has the job it created.
Engaged ==
  /\ \A w \in Workers : (pc[w] # "idle" => wjob[w] \in Jobs) /\ seen[w] \notin Terminal
  /\ \A r \in Requests : rpc[r] \in {"publish", "compensate"} => rjob[r] \in Jobs

TypeInv == TypeOK /\ Engaged

USE ConstantsAssumption DEF JobState, Terminal, Working, Releasing, WorkerSteps,
    RequestSteps, Live

----------------------------------------------------------------------------
(* Helpers *)

\* A message more, whichever of its retries it is, leaves the broker well typed.
LEMMA OneMoreMessage ==
  ASSUME BrokerTypes, NEW j \in Jobs, NEW n \in 0..MaxTries, NEW k \in Nat
  PROVE  [queue EXCEPT ![j][n] = @ + k] \in [Jobs -> [0..MaxTries -> Nat]]
  BY DEF BrokerTypes

\* So does one message less.
LEMMA OneLessMessage ==
  ASSUME BrokerTypes, NEW j \in Jobs, NEW n \in 0..MaxTries, queue[j][n] > 0
  PROVE  [queue EXCEPT ![j][n] = @ - 1] \in [Jobs -> [0..MaxTries -> Nat]]
<1>1. queue[j] \in [0..MaxTries -> Nat] /\ queue[j][n] - 1 \in Nat
  BY DEF BrokerTypes
<1>2. QED
  BY <1>1 DEF BrokerTypes

LEMMA SentTypes ==
  ASSUME BrokerTypes, NEW j \in Jobs, NEW k \in Nat, Sent(j, k), UNCHANGED rearm
  PROVE  BrokerTypes'
<1>1. queue' \in [Jobs -> [0..MaxTries -> Nat]]
  BY OneMoreMessage, 0 \in 0..MaxTries DEF Sent
<1>2. QED
  BY <1>1 DEF BrokerTypes, Sent

LEMMA RequeuedTypes ==
  ASSUME BrokerTypes, NEW j \in Jobs, NEW n \in 0..MaxTries, Requeued(j, n), UNCHANGED rearm
  PROVE  BrokerTypes'
<1>1. CASE n < MaxTries
  <2>1. n + 1 \in 0..MaxTries
    BY <1>1
  <2>2. [queue EXCEPT ![j][n + 1] = @ + 1] \in [Jobs -> [0..MaxTries -> Nat]]
    BY <2>1, 1 \in Nat, OneMoreMessage
  <2>3. QED
    BY <1>1, <2>2 DEF BrokerTypes, Requeued
<1>2. CASE ~(n < MaxTries)
  BY <1>2 DEF BrokerTypes, Requeued
<1>3. QED
  BY <1>1, <1>2

LEMMA RefundedTypes ==
  ASSUME CreditTypes, NEW j \in Jobs, Refunded(j)
  PROVE  balance' \in 0..Plan /\ refunds' \in [Jobs -> Nat] /\ settled' \subseteq Jobs
  BY DEF CreditTypes, Refunded

\* _fail keeps the types of everything it may change.
LEMMA FailTypes ==
  ASSUME TypeInv, NEW w \in Workers, NEW s, NEW key \in BOOLEAN,
         wjob[w] \in Jobs, Fail(w, s, key)
  PROVE  /\ status' \in [Jobs -> JobState \cup {"none"}]
         /\ projStatus' \in {"uploaded", "processing_queued", "completed", "failed"}
         /\ outKey' \in BOOLEAN /\ recorded' \subseteq Jobs
         /\ CreditTypes'
         /\ raised' \in [Workers -> BOOLEAN]
         /\ pc' = [pc EXCEPT ![w] = "release"]
<1> DEFINE j == wjob[w]
<1> USE DEF TypeInv, TypeOK, JobTypes, ProjectTypes, WorkerTypes
<1>1. pc' = [pc EXCEPT ![w] = "release"]
  BY DEF Fail, Go
<1>2. CASE TransitionOK(s, "failed")
  <2>1. status' \in [Jobs -> JobState \cup {"none"}]
    BY <1>2 DEF Fail
  <2>2. projStatus' = "failed" /\ outKey' \in BOOLEAN /\ recorded' \subseteq Jobs
    BY <1>2 DEF Fail
  <2>3. CreditTypes'
    <3>1. CASE UNCHANGED creditVars
      BY <3>1 DEF creditVars, CreditTypes
    <3>2. CASE Refunded(j) /\ tagged' \in {tagged, tagged \cup {j}}
      BY <3>2, RefundedTypes DEF CreditTypes
    <3>3. QED
      BY <1>2, <3>1, <3>2 DEF Fail, RefundTagged
  <2>4. raised' = raised
    BY <1>2 DEF Fail
  <2>5. QED
    BY <1>1, <2>1, <2>2, <2>3, <2>4
<1>3. CASE ~TransitionOK(s, "failed")
  BY <1>1, <1>3 DEF Fail, creditVars, CreditTypes
<1>4. QED
  BY <1>2, <1>3

----------------------------------------------------------------------------
(* Type correctness *)

\* The steps of a request keep the types.
LEMMA RequestKeepsTypes ==
  ASSUME TypeInv, NEW r \in Requests, RequestStep(r)
  PROVE  TypeInv'
<1> USE DEF TypeInv, TypeOK, Engaged, jobVars, projectVars, workerVars, RequestDone,
    JobTypes, ProjectTypes, WorkerTypes, RequestTypes
<1>1. CASE ReturnExisting(r)
  BY <1>1 DEF ReturnExisting, creditVars, brokerVars, CreditTypes, BrokerTypes
<1>2. CASE CancelStale(r)
  <2>1. PICK j \in Jobs : /\ j \in ToScan(r)
                          /\ status' = [status EXCEPT ![j] = "cancelled"]
                          /\ RefundUntagged(j)
                          /\ rtodo' = [rtodo EXCEPT ![r] = ToScan(r) \ {j}]
    BY <1>2 DEF CancelStale, NewestLive
  <2>2. CreditTypes'
    BY <2>1, RefundedTypes DEF RefundUntagged, CreditTypes
  <2>3. BrokerTypes'
    BY <1>2 DEF CancelStale, brokerVars, BrokerTypes
  <2>4. RequestTypes'
    BY <1>2, <2>1 DEF CancelStale, ToScan
  <2>5. QED
    BY <1>2, <2>1, <2>2, <2>3, <2>4 DEF CancelStale
<1>3. CASE NoneActive(r)
  BY <1>3 DEF NoneActive, creditVars, brokerVars, CreditTypes, BrokerTypes
<1>4. CASE InsufficientCredits(r)
  BY <1>4 DEF InsufficientCredits, creditVars, brokerVars, CreditTypes, BrokerTypes
<1>5. CASE ChargeAndCreate(r)
  <2>1. CreditTypes'
    BY <1>5 DEF ChargeAndCreate, CreditTypes
  <2>2. BrokerTypes'
    BY <1>5 DEF ChargeAndCreate, brokerVars, BrokerTypes
  <2>3. QED
    BY <1>5, <2>1, <2>2 DEF ChargeAndCreate
<1>6. CASE Dispatch(r)
  <2>1. BrokerTypes'
    BY <1>6, SentTypes DEF Dispatch
  <2>2. CreditTypes'
    BY <1>6 DEF Dispatch, creditVars, CreditTypes
  <2>3. disturb' \in 0..MaxDisturb
    BY <1>6 DEF Dispatch, Disturb
  <2>4. QED
    BY <1>6, <2>1, <2>2, <2>3 DEF Dispatch
<1>7. CASE DispatchRefused(r)
  <2>1. BrokerTypes'
    <3>1. CASE UNCHANGED <<queue, lost>>
      BY <1>7, <3>1 DEF DispatchRefused, BrokerTypes
    <3>2. CASE Sent(rjob[r], 1)
      BY <1>7, <3>2, SentTypes DEF DispatchRefused
    <3>3. QED
      BY <1>7, <3>1, <3>2 DEF DispatchRefused
  <2>2. CreditTypes'
    BY <1>7 DEF DispatchRefused, creditVars, CreditTypes
  <2>3. disturb' \in 0..MaxDisturb
    BY <1>7 DEF DispatchRefused, Disturb
  <2>4. QED
    BY <1>7, <2>1, <2>2, <2>3 DEF DispatchRefused
<1>8. CASE DispatchLost(r)
  BY <1>8 DEF DispatchLost, Disturb, creditVars, CreditTypes, BrokerTypes
<1>9. CASE Compensate(r)
  <2>1. CreditTypes'
    BY <1>9, RefundedTypes DEF Compensate, RefundUntagged, CreditTypes
  <2>2. BrokerTypes'
    BY <1>9 DEF Compensate, brokerVars, BrokerTypes
  <2>3. QED
    BY <1>9, <2>1, <2>2 DEF Compensate
<1>10. QED
  BY <1>1, <1>2, <1>3, <1>4, <1>5, <1>6, <1>7, <1>8, <1>9 DEF RequestStep

\* A worker that stops being busy, or only moves on, keeps the worker types.
LEMMA IdleTypes ==
  ASSUME TypeInv, NEW w \in Workers, WorkerIdle(w),
         lock' \in [Jobs -> Workers \cup {Free, Orphan}], UNCHANGED requestVars
  PROVE  WorkerTypes' /\ Engaged'
  BY DEF TypeInv, TypeOK, WorkerTypes, Engaged, WorkerIdle, Go, requestVars

LEMMA GoTypes ==
  ASSUME TypeInv, NEW w \in Workers, NEW step \in WorkerSteps, Go(w, step),
         pc[w] # "idle", lock' \in [Jobs -> Workers \cup {Free, Orphan}],
         raised' \in [Workers -> BOOLEAN], UNCHANGED <<wjob, seen, tries, requestVars>>
  PROVE  WorkerTypes' /\ Engaged'
  BY DEF TypeInv, TypeOK, WorkerTypes, Engaged, Go, requestVars

\* The steps of a worker keep the types.
LEMMA WorkerKeepsTypes ==
  ASSUME TypeInv, NEW w \in Workers, WorkerStep(w) \/ Die(w)
  PROVE  TypeInv'
<1> USE DEF TypeInv, TypeOK, jobVars, projectVars, requestVars, JobTypes, ProjectTypes,
    RequestTypes
<1>w. WorkerTypes /\ Engaged
  OBVIOUS
<1>1. CASE Fetch(w)
  <2>1. PICK j \in Jobs, n \in 0..MaxTries :
          /\ queue[j][n] > 0
          /\ queue' = [queue EXCEPT ![j][n] = @ - 1]
          /\ IF status[j] \in Terminal
               THEN UNCHANGED workerVars
               ELSE /\ Go(w, "fetched")
                    /\ wjob' = [wjob EXCEPT ![w] = j]
                    /\ seen' = [seen EXCEPT ![w] = status[j]]
                    /\ tries' = [tries EXCEPT ![w] = n]
                    /\ UNCHANGED raised
    BY <1>1 DEF Fetch
  <2>2. BrokerTypes'
    <3>1. [queue EXCEPT ![j][n] = @ - 1] \in [Jobs -> [0..MaxTries -> Nat]]
      BY <2>1, OneLessMessage
    <3>2. QED
      BY <1>1, <2>1, <3>1 DEF Fetch, BrokerTypes
  <2>3. WorkerTypes' /\ Engaged'
    BY <1>1, <2>1 DEF Fetch, WorkerTypes, Engaged, workerVars, Go
  <2>4. QED
    BY <1>1, <2>2, <2>3 DEF Fetch, creditVars, CreditTypes
<1>m. CASE MaskMissing(w)
  <2>1. PICK j \in Jobs, n \in 0..MaxTries :
          /\ queue[j][n] > 0
          /\ queue' = [queue EXCEPT ![j][n] = @ - 1]
          /\ IF TransitionOK(status[j], "failed")
               THEN status' = [status EXCEPT ![j] = "failed"] /\ UNCHANGED workerVars
               ELSE /\ Go(w, "ack")
                    /\ wjob' = [wjob EXCEPT ![w] = j]
                    /\ tries' = [tries EXCEPT ![w] = n]
                    /\ raised' = [raised EXCEPT ![w] = TRUE]
                    /\ UNCHANGED <<status, seen>>
    BY <1>m DEF MaskMissing
  <2>2. BrokerTypes'
    <3>1. [queue EXCEPT ![j][n] = @ - 1] \in [Jobs -> [0..MaxTries -> Nat]]
      BY <2>1, OneLessMessage
    <3>2. QED
      BY <1>m, <2>1, <3>1 DEF MaskMissing, BrokerTypes
  <2>3. WorkerTypes' /\ Engaged'
    <3>1. UNCHANGED <<lock, requestVars>>
      BY <1>m DEF MaskMissing
    <3>2. CASE UNCHANGED workerVars
      BY <1>w, <3>1, <3>2 DEF WorkerTypes, Engaged, workerVars
    <3>3. CASE /\ pc' = [pc EXCEPT ![w] = "ack"] /\ wjob' = [wjob EXCEPT ![w] = j]
               /\ tries' = [tries EXCEPT ![w] = n] /\ raised' = [raised EXCEPT ![w] = TRUE]
               /\ seen' = seen
      <4>1. WorkerTypes'
        BY <1>w, <3>1, <3>3 DEF WorkerTypes
      <4>2. Engaged'
        BY <1>w, <3>1, <3>3 DEF WorkerTypes, Engaged
      <4>3. QED
        BY <4>1, <4>2
    <3>4. QED
      BY <2>1, <3>2, <3>3 DEF Go
  <2>4. status' \in [Jobs -> JobState \cup {"none"}]
    BY <2>1
  <2>5. QED
    BY <1>m, <2>2, <2>3, <2>4 DEF MaskMissing, creditVars, CreditTypes
<1>2. CASE Acquire(w)
  <2>1. lock' \in [Jobs -> Workers \cup {Free, Orphan}]
    BY <1>2, <1>w DEF Acquire, WorkerTypes
  <2>2. WorkerTypes' /\ Engaged'
    BY <1>2, <1>w, <2>1, GoTypes DEF Acquire, WorkerTypes
  <2>3. QED
    BY <1>2, <2>2 DEF Acquire, creditVars, brokerVars, CreditTypes, BrokerTypes
<1>3. CASE LockBusy(w)
  <2>1. BrokerTypes'
    BY <1>3, <1>w, RequeuedTypes DEF LockBusy, WorkerTypes, Engaged
  <2>2. WorkerTypes' /\ Engaged'
    BY <1>3, <1>w, IdleTypes DEF LockBusy, WorkerTypes
  <2>3. QED
    BY <1>3, <2>1, <2>2 DEF LockBusy, creditVars, CreditTypes
<1>4. ASSUME NEW from \in WorkerSteps \ {"idle"}, NEW next \in WorkerSteps,
             NEW target \in JobState, NEW s, NEW key \in BOOLEAN, NEW ok \in BOOLEAN,
             pc[w] = from,
             IF ok THEN /\ status' \in [Jobs -> JobState \cup {"none"}]
                        /\ Go(w, next)
                        /\ projStatus' \in {"completed", projStatus}
                        /\ outKey' \in BOOLEAN /\ recorded' \subseteq Jobs
                        /\ UNCHANGED <<creditVars, raised>>
                   ELSE Fail(w, s, key),
             delivered' \subseteq Jobs,
             UNCHANGED <<old, deleted, mask, stored, brokerVars, lock, wjob, seen, tries,
                         requestVars, disturb>>
      PROVE  TypeInv'
  <2>1. wjob[w] \in Jobs
    BY <1>4, <1>w DEF Engaged
  <2>2. BrokerTypes'
    BY <1>4 DEF brokerVars, BrokerTypes
  <2>3. CASE ok
    <3>1. CreditTypes'
      BY <1>4, <2>3 DEF creditVars, CreditTypes
    <3>2. WorkerTypes' /\ Engaged'
      BY <1>4, <1>w, <2>3, GoTypes DEF WorkerTypes
    <3>3. QED
      BY <1>4, <2>2, <2>3, <3>1, <3>2
  <2>4. CASE ~ok
    <3>1. Fail(w, s, key)
      BY <1>4, <2>4
    <3>2. WorkerTypes' /\ Engaged'
      BY <1>4, <1>w, <2>1, <3>1, FailTypes, GoTypes DEF WorkerTypes, Go
    <3>3. QED
      BY <1>4, <2>1, <2>2, <3>1, <3>2, FailTypes
  <2>5. QED
    BY <2>3, <2>4
<1>5. CASE Start(w)
  <2>1. wjob[w] \in Jobs
    BY <1>5, <1>w DEF Start, Engaged
  <2>2. QED
    BY <1>5, <1>4, <2>1 DEF Start
<1>6. ASSUME NEW from \in WorkerSteps \ {"idle"}, NEW target \in JobState,
             NEW next \in WorkerSteps, Advance(w, from, target, next)
      PROVE  TypeInv'
  <2>1. wjob[w] \in Jobs /\ pc[w] = from
    BY <1>6, <1>w DEF Advance, Engaged
  <2>2. CASE TransitionOK(status[wjob[w]], target)
    <3>1. status' \in [Jobs -> JobState \cup {"none"}]
      BY <1>6, <2>1, <2>2 DEF Advance
    <3>2. QED
      BY <1>6, <2>1, <2>2, <3>1, <1>4, TRUE \in BOOLEAN DEF Advance
  <2>3. CASE ~TransitionOK(status[wjob[w]], target)
    <3>1. Fail(w, status[wjob[w]], FALSE)
      BY <1>6, <2>3 DEF Advance
    <3>2. QED
      BY <1>6, <2>1, <3>1, <1>4, FALSE \in BOOLEAN DEF Advance
  <2>4. QED
    BY <2>2, <2>3
<1>7. CASE Encode(w)
  <2>1. WorkerTypes' /\ Engaged'
    BY <1>7, <1>w, GoTypes DEF Encode, WorkerTypes
  <2>2. QED
    BY <1>7, <2>1 DEF Encode, creditVars, brokerVars, CreditTypes, BrokerTypes
<1>8. CASE Persist(w)
  BY <1>8, <1>w, <1>4 DEF Persist, Engaged
<1>9. CASE WorkFails(w)
  BY <1>9, <1>4 DEF WorkFails
<1>10. CASE ReleaseGet(w)
  <2>1. WorkerTypes' /\ Engaged'
    BY <1>10, <1>w, GoTypes DEF ReleaseGet, WorkerTypes
  <2>2. QED
    BY <1>10, <2>1 DEF ReleaseGet, creditVars, brokerVars, CreditTypes, BrokerTypes
<1>11. CASE ReleaseDelete(w)
  <2>1. lock' \in [Jobs -> Workers \cup {Free, Orphan}]
    BY <1>11, <1>w DEF ReleaseDelete, WorkerTypes
  <2>2. WorkerTypes' /\ Engaged'
    BY <1>11, <1>w, <2>1, GoTypes DEF ReleaseDelete, WorkerTypes
  <2>3. QED
    BY <1>11, <2>2 DEF ReleaseDelete, creditVars, brokerVars, CreditTypes, BrokerTypes
<1>12. CASE Ack(w)
  <2>1. BrokerTypes'
    <3>1. CASE raised[w]
      BY <1>12, <1>w, <3>1, RequeuedTypes DEF Ack, WorkerTypes, Engaged
    <3>2. CASE ~raised[w]
      BY <1>12, <3>2 DEF Ack, BrokerTypes
    <3>3. QED
      BY <3>1, <3>2
  <2>2. WorkerTypes' /\ Engaged'
    BY <1>12, <1>w, IdleTypes DEF Ack, WorkerTypes
  <2>3. QED
    BY <1>12, <2>1, <2>2 DEF Ack, creditVars, CreditTypes
<1>13. CASE Die(w)
  <2>1. BrokerTypes'
    <3>1. CASE queue' = [queue EXCEPT ![wjob[w]][tries[w]] = @ + 1] /\ UNCHANGED lost
      BY <1>13, <1>w, <3>1, OneMoreMessage DEF Die, WorkerTypes, Engaged, BrokerTypes
    <3>2. CASE lost' = lost \cup {wjob[w]} /\ UNCHANGED queue
      BY <1>13, <1>w, <3>2 DEF Die, Engaged, BrokerTypes
    <3>3. QED
      BY <1>13, <3>1, <3>2 DEF Die
  <2>2. lock' \in [Jobs -> Workers \cup {Free, Orphan}]
    BY <1>13, <1>w DEF Die, WorkerTypes
  <2>3. WorkerTypes' /\ Engaged'
    BY <1>13, <2>2, IdleTypes DEF Die
  <2>4. disturb' \in 0..MaxDisturb
    BY <1>13 DEF Die, Disturb
  <2>5. QED
    BY <1>13, <2>1, <2>3, <2>4 DEF Die, creditVars, CreditTypes
<1>14. QED
  BY <1>1, <1>2, <1>3, <1>5, <1>6, <1>7, <1>8, <1>9, <1>10, <1>11, <1>12, <1>13,
     <1>m DEF WorkerStep, Extract, Inpaint

\* So do the administrator, the owner, the clock and Redis.
LEMMA EnvironmentKeepsTypes ==
  ASSUME TypeInv,
         \/ \E j \in Jobs : LockExpires(j) \/ AdminCancel(j) \/ AdminRetry(j)
                            \/ Reenqueue(j) \/ Age(j)
         \/ DeleteProject \/ DeleteMask \/ PutMask
         \/ ResetCredits
  PROVE  TypeInv'
<1> USE DEF TypeInv, TypeOK, Engaged, jobVars, projectVars, creditVars, brokerVars,
    workerVars, requestVars, Disturb, JobTypes, ProjectTypes, CreditTypes, RequestTypes,
    WorkerTypes
<1>1. ASSUME NEW j \in Jobs, LockExpires(j) PROVE TypeInv'
  BY <1>1 DEF LockExpires, BrokerTypes
<1>2. ASSUME NEW j \in Jobs, AdminCancel(j) PROVE TypeInv'
  BY <1>2 DEF AdminCancel, BrokerTypes
<1>3. ASSUME NEW j \in Jobs, AdminRetry(j) PROVE TypeInv'
  BY <1>3 DEF AdminRetry, BrokerTypes
<1>4. ASSUME NEW j \in Jobs, Reenqueue(j) PROVE TypeInv'
  <2>1. BrokerTypes'
    <3>1. CASE Sent(j, 1)
      <4>1. queue' \in [Jobs -> [0..MaxTries -> Nat]]
        BY <3>1, OneMoreMessage, 0 \in 0..MaxTries DEF Sent
      <4>2. QED
        BY <1>4, <3>1, <4>1 DEF Reenqueue, BrokerTypes, Sent
    <3>2. CASE ~Sent(j, 1)
      BY <1>4, <3>2 DEF Reenqueue, BrokerTypes
    <3>3. QED
      BY <3>1, <3>2
  <2>2. QED
    BY <1>4, <2>1 DEF Reenqueue
<1>5. ASSUME NEW j \in Jobs, Age(j) PROVE TypeInv'
  BY <1>5 DEF Age, BrokerTypes
<1>6. CASE DeleteProject
  BY <1>6 DEF DeleteProject, BrokerTypes
<1>7. CASE ResetCredits
  BY <1>7 DEF ResetCredits, BrokerTypes
<1>8. CASE DeleteMask \/ PutMask
  <2>1. CASE DeleteMask
    <3>1. BrokerTypes' /\ CreditTypes'
      BY <2>1 DEF DeleteMask, BrokerTypes
    <3>2. JobTypes' /\ ProjectTypes'
      BY <2>1 DEF DeleteMask
    <3>3. disturb' \in 0..MaxDisturb
      BY <2>1 DEF DeleteMask
    <3>4. RequestTypes'
      BY <2>1, <3>3 DEF DeleteMask
    <3>5. WorkerTypes' /\ Engaged'
      BY <2>1 DEF DeleteMask
    <3>6. QED
      BY <3>1, <3>2, <3>4, <3>5
  <2>2. CASE PutMask
    <3>1. BrokerTypes' /\ CreditTypes'
      BY <2>2 DEF PutMask, BrokerTypes
    <3>2. JobTypes' /\ ProjectTypes' /\ RequestTypes'
      BY <2>2 DEF PutMask
    <3>3. WorkerTypes' /\ Engaged'
      BY <2>2 DEF PutMask
    <3>4. QED
      BY <3>1, <3>2, <3>3
  <2>3. QED
    BY <1>8, <2>1, <2>2
<1>9. QED
  BY <1>1, <1>2, <1>3, <1>4, <1>5, <1>6, <1>7, <1>8

LEMMA TypesInductive == TypeInv /\ [Next]_vars => TypeInv'
<1> SUFFICES ASSUME TypeInv, [Next]_vars PROVE TypeInv'
  OBVIOUS
<1>1. CASE UNCHANGED vars
  BY <1>1 DEF TypeInv, TypeOK, Engaged, vars, jobVars, projectVars, creditVars,
     brokerVars, workerVars, requestVars, JobTypes, ProjectTypes, CreditTypes,
     BrokerTypes, WorkerTypes, RequestTypes
<1>2. CASE Next
  BY <1>2, RequestKeepsTypes, WorkerKeepsTypes, EnvironmentKeepsTypes DEF Next
<1>3. QED
  BY <1>1, <1>2

LEMMA TypesAlways == Spec => []TypeInv
<1>1. Init => TypeInv
  <2> SUFFICES ASSUME Init PROVE TypeInv
    OBVIOUS
  <2> USE DEF Init
  <2>1. JobTypes /\ ProjectTypes
    BY DEF JobTypes, ProjectTypes
  <2>2. CreditTypes /\ BrokerTypes
    BY DEF CreditTypes, BrokerTypes
  <2>3. WorkerTypes
    BY DEF WorkerTypes
  <2>4. RequestTypes
    BY DEF RequestTypes
  <2>5. Engaged
    BY DEF Engaged
  <2>6. QED
    BY <2>1, <2>2, <2>3, <2>4, <2>5 DEF TypeInv, TypeOK
<1>2. QED
  BY <1>1, TypesInductive, PTL DEF Spec

\* Every variable keeps its type; in particular the balance never exceeds the plan's
\* credits nor falls below zero, whatever is charged, refunded and reset.
THEOREM TypeCorrect == Spec => []TypeOK
  BY TypesAlways, PTL DEF TypeInv

----------------------------------------------------------------------------
(* The per-job lock excludes wherever the pool enforces the hard time limit: *)
(* then the key of a worker under way cannot lapse.                        *)

\* Between SETNX and DELETE a worker owns its job's key.  This is what makes
\* LockExclusive inductive: two holders of one key would be one worker.
OwnsItsLock == \A w \in Workers : pc[w] \in Holding => lock[wjob[w]] = w

LockInv == TypeInv /\ OwnsItsLock

USE DEF Holding

\* What the steps that never touch the lock make of a worker's progress: it was
\* under way and is now at another step of the same kind.
HoldingMoves(w) ==
  /\ UNCHANGED <<lock, wjob>>
  /\ pc[w] \in Holding
  /\ \E step \in Holding : Go(w, step)

LEMMA WorkMoves ==
  ASSUME TypeInv, NEW w \in Workers,
         \/ Start(w) \/ Extract(w) \/ Inpaint(w) \/ Encode(w) \/ Persist(w)
         \/ WorkFails(w)
  PROVE  HoldingMoves(w)
<1> USE DEF HoldingMoves
<1>1. CASE Start(w)
  BY <1>1 DEF Start, Fail, Go
<1>2. ASSUME NEW from \in Working, NEW next \in Working, NEW target,
             Advance(w, from, target, next)
      PROVE  HoldingMoves(w)
  BY <1>2 DEF Advance, Fail, Go
<1>3. CASE Extract(w) \/ Inpaint(w)
  BY <1>2, <1>3 DEF Extract, Inpaint
<1>4. CASE Encode(w)
  BY <1>4 DEF Encode, Go
<1>5. CASE Persist(w)
  BY <1>5 DEF Persist, Fail, Go
<1>6. CASE WorkFails(w)
  BY <1>6 DEF WorkFails, Fail, Go
<1>7. QED
  BY <1>1, <1>3, <1>4, <1>5, <1>6

LEMMA LockInductive ==
  ASSUME HardTimeLimit, LockInv, [Next]_vars
  PROVE  OwnsItsLock'
<1> USE DEF LockInv, OwnsItsLock
<1>t. TypeInv /\ WorkerTypes /\ Engaged
  BY DEF TypeInv, TypeOK
<1>1. CASE UNCHANGED <<lock, workerVars>>
  BY <1>1 DEF workerVars
<1>2. ASSUME NEW w \in Workers, WorkerStep(w) \/ Die(w) PROVE OwnsItsLock'
  <2>1. CASE HoldingMoves(w)
    BY <1>t, <2>1 DEF HoldingMoves, Go, WorkerTypes
  <2>2. CASE Fetch(w)
    BY <1>t, <2>2 DEF Fetch, Go, WorkerTypes, workerVars
  <2>3. CASE Acquire(w)
    BY <1>t, <2>3 DEF Acquire, Go, WorkerTypes, Engaged
  <2>4. CASE LockBusy(w) \/ Ack(w)
    BY <1>t, <2>4 DEF LockBusy, Ack, WorkerIdle, Go, WorkerTypes
  <2>5. CASE ReleaseGet(w)
    BY <1>t, <2>5 DEF ReleaseGet, Go, WorkerTypes
  <2>6. CASE ReleaseDelete(w)
    BY <1>t, <2>6 DEF ReleaseDelete, Go, WorkerTypes, Engaged
  <2>7. CASE Die(w)
    BY <1>t, <2>7 DEF Die, WorkerIdle, Go, WorkerTypes, Engaged
  <2>8. CASE MaskMissing(w)
    BY <1>t, <2>8 DEF MaskMissing, Go, WorkerTypes, workerVars
  <2>9. QED
    BY <1>2, <1>t, <2>1, <2>2, <2>3, <2>4, <2>5, <2>6, <2>7, <2>8, WorkMoves DEF WorkerStep
<1>3. ASSUME NEW r \in Requests, RequestStep(r) PROVE OwnsItsLock'
  BY <1>1, <1>3 DEF RequestStep, ReturnExisting, CancelStale, NoneActive,
     InsufficientCredits, ChargeAndCreate, Dispatch, DispatchRefused, DispatchLost,
     Compensate
<1>4. ASSUME NEW j \in Jobs, LockExpires(j) PROVE OwnsItsLock'
  BY <1>t, <1>4 DEF LockExpires, workerVars, WorkerTypes, Engaged
<1>5. ASSUME NEW j \in Jobs, AdminCancel(j) \/ AdminRetry(j) \/ Reenqueue(j) \/ Age(j)
      PROVE  OwnsItsLock'
  BY <1>1, <1>5 DEF AdminCancel, AdminRetry, Reenqueue, Age
<1>6. CASE DeleteProject \/ DeleteMask \/ PutMask \/ ResetCredits
  BY <1>1, <1>6 DEF DeleteProject, DeleteMask, PutMask, ResetCredits
<1>7. CASE UNCHANGED vars
  BY <1>1, <1>7 DEF vars
<1>8. QED
  BY <1>2, <1>3, <1>4, <1>5, <1>6, <1>7 DEF Next

LEMMA LockAlways == ASSUME HardTimeLimit PROVE Spec => []LockInv
<1>1. Init => OwnsItsLock
  BY DEF Init, OwnsItsLock
<1>2. TypeInv /\ OwnsItsLock /\ [Next]_vars => OwnsItsLock'
  BY LockInductive DEF LockInv
<1>3. QED
  BY <1>1, <1>2, TypesAlways, PTL DEF Spec, LockInv

\* job_lock excludes (WORKER-004): however often a message is delivered, whichever
\* workers die, and although the release reads the key and deletes it in two calls.
THEOREM LockExcludes == ASSUME HardTimeLimit PROVE Spec => []LockExclusive
<1>1. LockInv => LockExclusive
  BY DEF LockInv, OwnsItsLock, LockExclusive
<1>2. QED
  BY <1>1, LockAlways, PTL

----------------------------------------------------------------------------
(* The lock implements the abstract mutual exclusion. *)

Holders(j) == {w \in Workers : pc[w] \in Holding /\ wjob[w] = j}
Running == [j \in Jobs |-> Holders(j)]

LEMMA MutexStep ==
  ASSUME HardTimeLimit, LockInv, [Next]_vars
  PROVE  Mutex!Next \/ UNCHANGED Running
<1> USE DEF Holders, Running
<1>t. WorkerTypes /\ Engaged /\ OwnsItsLock
  BY DEF LockInv, TypeInv, TypeOK
<1>n. \A v \in Workers, k \in Jobs : Mutex!Enter(v, k) \/ Mutex!Leave(v, k) => Mutex!Next
  BY DEF Mutex!Next
<1>1. CASE UNCHANGED <<pc, wjob>>
  BY <1>1
<1>2. ASSUME NEW w \in Workers, WorkerStep(w) \/ Die(w)
      PROVE  Mutex!Next \/ UNCHANGED Running
  <2>1. CASE HoldingMoves(w)
    <3>1. \A v \in Workers : pc'[v] \in Holding <=> pc[v] \in Holding
      BY <1>t, <2>1 DEF HoldingMoves, Go, WorkerTypes
    <3>2. QED
      BY <2>1, <3>1 DEF HoldingMoves
  <2>2. ASSUME pc[w] \notin Holding, pc'[w] \notin Holding,
               \A v \in Workers \ {w} : pc'[v] = pc[v] /\ wjob'[v] = wjob[v]
        PROVE  UNCHANGED Running
    BY <2>2
  <2>3. CASE Fetch(w) \/ MaskMissing(w) \/ LockBusy(w) \/ Ack(w)
    <3>1. pc[w] \notin Holding /\ pc'[w] \notin Holding
      BY <1>t, <2>3 DEF Fetch, MaskMissing, LockBusy, Ack, WorkerIdle, Go, WorkerTypes,
         workerVars
    <3>2. \A v \in Workers \ {w} : pc'[v] = pc[v] /\ wjob'[v] = wjob[v]
      BY <1>t, <2>3 DEF Fetch, MaskMissing, LockBusy, Ack, WorkerIdle, Go, WorkerTypes,
         workerVars
    <3>3. QED
      BY <2>2, <3>1, <3>2
  <2>4. CASE Acquire(w)
    <3>0. PICK j \in Jobs : j = wjob[w]
      BY <1>t, <2>4 DEF Acquire, Engaged
    <3>1. lock[j] = Free /\ pc[w] = "fetched"
      BY <2>4, <3>0 DEF Acquire
    <3>2. Holders(j) = {}
      BY <1>t, <3>1 DEF OwnsItsLock
    <3>3. \A k \in Jobs : w \notin Holders(k)
      BY <3>1
    <3>4. pc' = [pc EXCEPT ![w] = "start"] /\ wjob' = wjob
      BY <2>4 DEF Acquire, Go
    <3>5. \A k \in Jobs : Holders(k)' = IF k = j THEN {w} ELSE Holders(k)
      BY <1>t, <3>0, <3>1, <3>2, <3>4 DEF WorkerTypes
    <3>6. Running' = [Running EXCEPT ![j] = {w}]
      BY <3>5
    <3>7. Mutex!Enter(w, j)
      BY <3>1, <3>2, <3>3, <3>6 DEF Mutex!Enter
    <3>8. QED
      BY <1>n, <3>1, <3>7
  <2>5. ASSUME pc[w] \in Holding, pc'[w] \notin Holding,
               \A v \in Workers \ {w} : pc'[v] = pc[v] /\ wjob'[v] = wjob[v]
        PROVE  Mutex!Next
    <3>1. PICK j \in Jobs : j = wjob[w]
      BY <1>t, <2>5 DEF Engaged
    <3>2. Holders(j) = {w}
      BY <1>t, <2>5, <3>1 DEF OwnsItsLock
    <3>3. \A k \in Jobs : Holders(k)' = IF k = j THEN {} ELSE Holders(k)
      BY <2>5, <3>1, <3>2
    <3>4. Running' = [Running EXCEPT ![j] = {}]
      BY <3>3
    <3>5. Mutex!Leave(w, j)
      BY <3>1, <3>2, <3>4 DEF Mutex!Leave
    <3>6. QED
      BY <1>n, <3>1, <3>5
  <2>6. CASE ReleaseGet(w) \/ ReleaseDelete(w)
    <3>1. CASE ReleaseGet(w)
      <4>1. HoldingMoves(w)
        BY <1>t, <3>1 DEF ReleaseGet, HoldingMoves, OwnsItsLock
      <4>2. QED
        BY <2>1, <4>1
    <3>2. CASE ReleaseDelete(w)
      BY <1>t, <2>5, <3>2 DEF ReleaseDelete, Go, WorkerTypes
    <3>3. QED
      BY <2>6, <3>1, <3>2
  <2>7. CASE Die(w)
    <3>1. pc'[w] \notin Holding
      BY <1>t, <2>7 DEF Die, WorkerIdle, Go, WorkerTypes
    <3>2. \A v \in Workers \ {w} : pc'[v] = pc[v] /\ wjob'[v] = wjob[v]
      BY <1>t, <2>7 DEF Die, WorkerIdle, Go, WorkerTypes
    <3>3. QED
      BY <2>2, <2>5, <3>1, <3>2
  <2>8. QED
    BY <1>2, <1>t, <2>1, <2>3, <2>4, <2>6, <2>7, WorkMoves DEF WorkerStep, LockInv
<1>3. ASSUME NEW r \in Requests, RequestStep(r) PROVE UNCHANGED Running
  BY <1>1, <1>3 DEF RequestStep, ReturnExisting, CancelStale, NoneActive,
     InsufficientCredits, ChargeAndCreate, Dispatch, DispatchRefused, DispatchLost,
     Compensate, workerVars
<1>4. ASSUME NEW j \in Jobs, LockExpires(j) \/ AdminCancel(j) \/ AdminRetry(j)
                             \/ Reenqueue(j) \/ Age(j)
      PROVE  UNCHANGED Running
  BY <1>1, <1>4 DEF LockExpires, AdminCancel, AdminRetry, Reenqueue, Age, workerVars
<1>5. CASE DeleteProject \/ DeleteMask \/ PutMask \/ ResetCredits
  BY <1>1, <1>5 DEF DeleteProject, DeleteMask, PutMask, ResetCredits, workerVars
<1>6. CASE UNCHANGED vars
  BY <1>1, <1>6 DEF vars, workerVars
<1>7. QED
  BY <1>2, <1>3, <1>4, <1>5, <1>6 DEF Next

\* The workers, whatever their messages and crashes, implement the abstract lock:
\* every step of theirs enters a job nobody executes, leaves one, or changes nothing.
THEOREM PipelineImplementsMutex == ASSUME HardTimeLimit PROVE Spec => ImplementsJobMutex
<1>1. Init => Mutex!Init
  BY DEF Init, Mutex!Init, Holding
<1>2. LockInv /\ [Next]_vars => [Mutex!Next]_Running
  BY MutexStep
<1>3. QED
  BY <1>1, <1>2, LockAlways, PTL DEF Spec, ImplementsJobMutex, Mutex!Spec, Running, Holders

===========================================================================
