----------------------------- MODULE JobMutex -----------------------------
(***************************************************************************)
(* What workers/common.py:job_lock promises (WORKER-004): at most one      *)
(* worker executes a job at a time, and a worker executes one job.         *)
(***************************************************************************)
CONSTANTS Workers, Jobs

VARIABLE running  \* the workers that execute each job

Init == running = [j \in Jobs |-> {}]

Enter(w, j) ==
  /\ running[j] = {}
  /\ \A k \in Jobs : w \notin running[k]
  /\ running' = [running EXCEPT ![j] = {w}]

\* A worker finishes, or dies.
Leave(w, j) ==
  /\ running[j] = {w}
  /\ running' = [running EXCEPT ![j] = {}]

Next == \E w \in Workers, j \in Jobs : Enter(w, j) \/ Leave(w, j)

Spec == Init /\ [][Next]_running
===========================================================================
