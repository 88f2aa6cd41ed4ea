---------------------------- MODULE JobStates ----------------------------
(***************************************************************************)
(* The job state machine of backend/app/services/job_states.py: a table of *)
(* legal edges that every call of repositories/processing.py:transition    *)
(* consults.  Pure: no state of its own.                                   *)
(***************************************************************************)

JobState ==
  {"created", "uploading", "uploaded", "analyzing", "awaiting_review",
   "preview_queued", "preview_processing", "preview_ready",
   "processing_queued", "processing", "encoding",
   "completed", "failed", "cancelled", "expired"}

\* The states after which workers and routes treat a job as finished.
Terminal == {"completed", "failed", "cancelled", "expired"}

Transitions ==
  UNION { {"created"} \X {"processing_queued", "cancelled", "failed"},
          {"processing_queued"} \X {"processing", "analyzing", "cancelled", "failed"},
          {"processing"} \X {"encoding", "failed", "cancelled"},
          {"encoding"} \X {"completed", "failed", "cancelled"},
          {"preview_queued"} \X {"preview_processing", "cancelled", "failed"},
          {"preview_processing"} \X {"preview_ready", "failed", "cancelled"},
          {"uploaded"} \X {"analyzing", "preview_queued", "processing_queued",
                           "cancelled", "expired"},
          {"analyzing"} \X {"awaiting_review", "preview_queued", "processing_queued",
                            "completed", "failed", "cancelled"},
          {"awaiting_review"} \X {"processing_queued", "preview_queued", "cancelled"},
          {"uploading"} \X {"uploaded", "cancelled", "failed"} }

CanTransition(current, target) == <<current, target>> \in Transitions

\* transition() succeeds: either the no-op of an unchanged status or a legal edge.
\* Otherwise it raises ValueError before it touches the row.
TransitionOK(current, target) == current = target \/ CanTransition(current, target)

==========================================================================
