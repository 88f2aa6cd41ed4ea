------------------------ MODULE PipelineProperties ------------------------
(***************************************************************************)
(* What the processing pipeline should guarantee.                          *)
(***************************************************************************)
EXTENDS ProcessingPipeline

Holding == Working \cup Releasing

\* job_lock is a mutual exclusion: no two workers are between SETNX and DELETE of
\* the same job's key, although the release reads and deletes in two calls, keys
\* outlive dead owners and messages come twice.  (WORKER-004)
LockExclusive ==
  \A v, w \in Workers :
    pc[v] \in Holding /\ pc[w] \in Holding /\ wjob[v] = wjob[w] => v = w

\* The same as an abstract specification that the workers' steps implement.
Mutex == INSTANCE JobMutex WITH
  running <- [j \in Jobs |-> {w \in Workers : pc[w] \in Holding /\ wjob[w] = j}]
ImplementsJobMutex == Mutex!Spec

\* A job that reads completed was really delivered, and a project that reads
\* completed names an output object that exists: storage comes before the commit,
\* and the commit changes the job, the project and the output row together.
CompletedHasOutput ==
  /\ \A j \in Jobs : status[j] = "completed" => j \in delivered
  /\ delivered # {} => outKey
  /\ outKey => stored
  /\ projStatus = "completed" => outKey

\* Every job that reads failed has had its credits refunded, whichever of the
\* route, the worker and a dying worker's successor marked it.
FailedIsSettled == \A j \in Jobs : status[j] = "failed" => j \in settled

\* What can still bring an unfinished job to an end.
Carried(j) ==
  \/ \E n \in 0..MaxTries : queue[j][n] > 0
  \/ \E w \in Workers : wjob[w] = j
  \/ \E r \in Requests : rjob[r] = j
  \/ j \in rearm

\* An unfinished job always has a carrier - a message, a worker, a request or an
\* administrator about to publish - unless its last message was given up on.
StuckOnlyIfLost ==
  \A j \in Jobs : status[j] \in Live => Carried(j) \/ j \in lost

\* A finished job changes only by an administrator's retry or through the two places
\* where a stale view of the row is written back: the worker's first transition,
\* read before the lock was taken, and the route's compensation after a publish.
StaleWriter(j) ==
  \/ \E w \in Workers : pc[w] = "start" /\ wjob[w] = j /\ seen[w] \notin Terminal
  \/ \E r \in Requests : rpc[r] = "compensate" /\ rjob[r] = j
FinishedJobsReopenOnlyBy ==
  [][\A j \in Jobs :
       status[j] \in Terminal /\ status'[j] # status[j] =>
         (j \in rearm' /\ status'[j] = "processing_queued") \/ StaleWriter(j)]_vars

\* Nobody is both delivered to and refunded, nor refunded twice, for one job: when
\* workers crash at any point, brokers refuse or lose jobs and jobs are cancelled,
\* but no publish is ambiguous, no job waits 300 s and none is re-armed.
DeliveredXorRefunded ==
  \A j \in Jobs : refunds[j] + (IF j \in delivered THEN 1 ELSE 0) <= 1

\* An output row exists only for a job that was delivered.
RecordedOnlyIfDelivered == recorded \subseteq delivered

\* Every job that is paid for ends: completed, failed or cancelled.
JobsSettle ==
  \A j \in Jobs : status[j] = "processing_queued" ~> status[j] \in Terminal
============================================================================
