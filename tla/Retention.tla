----------------------------- MODULE Retention -----------------------------
(***************************************************************************)
(* Stored objects and the rows that name them: the periodic retention      *)
(* sweep (workers/tasks/maintenance.py over backend/app/services/          *)
(* retention.py) and an administrator's deletions (backend/app/services/   *)
(* admin_service.py), beside the code that goes on using the objects:      *)
(* uploads and their cancellation (backend/app/api/uploads.py), the        *)
(* processing worker, previews, duplication and deletion of projects.      *)
(*                                                                         *)
(* A sweep reads every project row once, deletes objects one by one and    *)
(* commits all it has changed at the end; an upload stores up to four      *)
(* objects and commits their names at the end.  Every storage call and     *)
(* every commit is therefore a step, and whatever was read before it may   *)
(* be stale.  Time is abstracted to the windows a row has outlived.        *)
(*                                                                         *)
(* Bounds: a project has one job at a time, and a new one (or a retry)     *)
(* waits for a worker that is still at a cancelled one; the previews of    *)
(* one project do not overlap, nor do the requests that complete its       *)
(* uploads, of which one at a time is still to be completed; a cancelled   *)
(* project is not cancelled again.  What overlapping workers do to each    *)
(* other is the subject of ProcessingPipeline.  Images, which a request    *)
(* processes itself, are left out.                                         *)
(***************************************************************************)
EXTENDS Naturals

CONSTANTS
  Projects,   \* project rows, ever
  Uploaded,   \* bound: those that are created by an upload; the others are copies
  Cleaners,   \* sweeps and administrators' deletions that may overlap
  Buckets,    \* the storage buckets looked at
  Operations, \* the optional operations that happen
  MaxOps,     \* bound: how many of them one behaviour contains
  Files,      \* file names that storage keys end in
  Main,       \* the one the project was created with, and every bucket's fixed one
  NoKey       \* a storage key that is NULL

\* What an upload stores, in this order.
UploadBuckets == {"originals", "proxies", "audio", "thumbnails"}
AllBuckets == UploadBuckets \cup {"previews", "outputs"}

\* duplicate, preview, reupload, cancel_upload: owner
\* hold, files, cleanup, drop, retry, cancel_job: administrator
\* fault: a storage call fails;  crash: a request, a worker or a cleaner dies
AllOperations == {"duplicate", "preview", "reupload", "cancel_upload", "hold", "files",
                  "cleanup", "drop", "retry", "cancel_job", "fault", "crash"}

\* A storage key: the project's id and a file name.
Name == Projects \X Files
Owner(n) == n[1]
Own(p) == <<p, Main>>

ASSUME RetentionAssumption ==
  /\ {"originals", "previews", "outputs"} \subseteq Buckets /\ Buckets \subseteq AllBuckets
  /\ Uploaded \subseteq Projects /\ Operations \subseteq AllOperations
  /\ Main \in Files /\ NoKey \notin Projects \X Files /\ MaxOps \in Nat

VARIABLES
  status,   \* VideoProject.status, "none" before the row exists
  deleted,  \* VideoProject.deleted
  hold,     \* VideoProject.legal_hold
  locked,   \* VideoProject.locked
  age,      \* windows since created_at: 0, 1 (6 h), 2 (24 h)
  outAge,   \* windows since completed_at: 0 when NULL, 1, 2 (7 days)
  key,      \* storage keys of the row, or NoKey
  rows,     \* projects that have OutputFile rows
  stored,   \* objects in storage: bucket and key
  upload,   \* Upload rows: none, one that can be completed, or all completed
  up,       \* the request completing one: the bucket it comes to next, or its commit
  want,     \* its storage keys
  made,     \* what it has stored
  had,      \* the columns its row already had as it is to write them
  cancel,   \* the request cancelling one: the Upload row as it was read
  job,      \* status of the project's process job
  wk, wkHad,  \* the worker on that job; had an output key the row it read?
  pv, pvHad,  \* the preview request; had the row it read the key it is to write?
  kind,     \* each cleaner: idle, a sweep, or an administrator's deletion
  plan,     \* each cleaner: artifacts still to delete
  cleared,  \* each cleaner: keys set to NULL on the rows in memory
  due,      \* each cleaner: projects whose output rows come under review
  drop,     \* each cleaner: projects to be soft-deleted
  copied,   \* history: projects that share objects with another one
  purged,   \* history: projects whose files somebody, not the sweep, began to delete
  again,    \* history: projects with a second or a cancelled upload
  abandoned,  \* history: objects whose writer ended before it named them
  left      \* how many of the optional operations are left

projVars == <<status, deleted, hold, locked, age, outAge, key, rows>>
upVars == <<upload, up, want, made, had, cancel>>
workVars == <<job, wk, wkHad>>
prevVars == <<pv, pvHad>>
cleanVars == <<kind, plan, cleared, due, drop>>
pastVars == <<copied, purged, again, abandoned>>
histVars == <<pastVars, left>>
vars == <<projVars, stored, upVars, workVars, prevVars, cleanVars, histVars>>

\* The statuses the code treats as in use.
Active == {"processing_queued", "preview_processing", "preview_ready"}
Statuses == {"none", "uploading", "uploaded", "completed", "failed", "cancelled"} \cup Active
Pending == {"queued", "running"}

Object == Buckets \X Name
Artifact == [proj : Projects, bucket : Buckets, name : Name]

ProjTypes ==
  /\ status \in [Projects -> Statuses]
  /\ deleted \in [Projects -> BOOLEAN]
  /\ hold \in [Projects -> BOOLEAN]
  /\ locked \in [Projects -> BOOLEAN]
  /\ age \in [Projects -> 0..2]
  /\ outAge \in [Projects -> 0..2]
  /\ rows \subseteq Projects

ObjectTypes ==
  /\ key \in [Projects -> [Buckets -> Name \cup {NoKey}]]
  /\ stored \subseteq Object

UploadTypes ==
  /\ upload \in [Projects -> {"none", "open", "completed"}]
  /\ up \in [Projects -> {"idle", "commit"} \cup (UploadBuckets \cap Buckets)]
  /\ want \in [Projects -> [Buckets -> Name]]
  /\ made \in [Projects -> SUBSET Buckets]
  /\ had \in [Projects -> SUBSET (Buckets \cup {"status"})]
  /\ cancel \in [Projects -> {"idle", "open", "completed"}]

WorkTypes ==
  /\ job \in [Projects -> {"none", "queued", "running", "done", "failed", "cancelled"}]
  /\ wk \in [Projects -> {"idle", "busy", "loaded", "put"}]
  /\ wkHad \in [Projects -> BOOLEAN]
  /\ pv \in [Projects -> {"idle", "building", "read", "put"}]
  /\ pvHad \in [Projects -> BOOLEAN]

CleanTypes ==
  /\ kind \in [Cleaners -> {"idle", "sweep", "files"}]
  /\ plan \in [Cleaners -> SUBSET Artifact]
  /\ cleared \in [Cleaners -> SUBSET (Projects \X Buckets)]
  /\ due \in [Cleaners -> SUBSET Projects]
  /\ drop \in [Cleaners -> SUBSET Projects]

HistTypes ==
  /\ copied \subseteq Projects /\ purged \subseteq Projects /\ again \subseteq Projects
  /\ abandoned \subseteq Object /\ left \in 0..MaxOps

TypeOK == ProjTypes /\ ObjectTypes /\ UploadTypes /\ WorkTypes /\ CleanTypes /\ HistTypes

Init ==
  /\ status = [p \in Projects |-> "none"]
  /\ deleted = [p \in Projects |-> FALSE]
  /\ hold = [p \in Projects |-> FALSE]
  /\ locked = [p \in Projects |-> FALSE]
  /\ age = [p \in Projects |-> 0]
  /\ outAge = [p \in Projects |-> 0]
  /\ key = [p \in Projects |-> [b \in Buckets |-> NoKey]]
  /\ rows = {} /\ stored = {}
  /\ upload = [p \in Projects |-> "none"]
  /\ up = [p \in Projects |-> "idle"]
  /\ want = [p \in Projects |-> [b \in Buckets |-> Own(p)]]
  /\ made = [p \in Projects |-> {}] /\ had = [p \in Projects |-> {}]
  /\ cancel = [p \in Projects |-> "idle"]
  /\ job = [p \in Projects |-> "none"]
  /\ wk = [p \in Projects |-> "idle"]
  /\ wkHad = [p \in Projects |-> FALSE]
  /\ pv = [p \in Projects |-> "idle"]
  /\ pvHad = [p \in Projects |-> FALSE]
  /\ kind = [c \in Cleaners |-> "idle"]
  /\ plan = [c \in Cleaners |-> {}] /\ cleared = [c \in Cleaners |-> {}]
  /\ due = [c \in Cleaners |-> {}] /\ drop = [c \in Cleaners |-> {}]
  /\ copied = {} /\ purged = {} /\ again = {} /\ abandoned = {} /\ left = MaxOps

\* One of the optional operations that are left.
Happens(op) == op \in Operations /\ left > 0 /\ left' = left - 1

----------------------------------------------------------------------------
(* The owner *)

\* POST /uploads/initiate: the rows of a new project and its upload.
Initiate(p) ==
  /\ p \in Uploaded /\ status[p] = "none"
  /\ status' = [status EXCEPT ![p] = "uploading"]
  /\ upload' = [upload EXCEPT ![p] = "open"]
  /\ UNCHANGED <<deleted, hold, locked, age, outAge, key, rows, stored, up, want, made, had,
                 cancel, workVars, prevVars, cleanVars, histVars>>

\* The same for a project that exists: one more Upload row, and the project stays as it is.
Reinitiate(p) ==
  /\ Happens("reupload")
  /\ status[p] # "none" /\ ~deleted[p]
  /\ upload' = [upload EXCEPT ![p] = "open"]
  /\ again' = again \cup {p}
  /\ UNCHANGED <<projVars, stored, up, want, made, had, cancel, workVars, prevVars, cleanVars,
                 copied, purged, abandoned>>

\* POST /uploads/{id}/complete: the rows are read.  The original is named after the file;
\* the proxy after the kind of file.
CompleteBegin(p, file, proxy) ==
  LET names == [b \in Buckets |-> IF b = "originals" THEN <<p, file>>
                                  ELSE IF b = "proxies" THEN <<p, proxy>> ELSE Own(p)] IN
  /\ upload[p] = "open" /\ ~deleted[p] /\ up[p] = "idle"
  /\ p \notin again => file = Main /\ proxy = Main
  /\ up' = [up EXCEPT ![p] = "originals"]
  /\ want' = [want EXCEPT ![p] = names]
  /\ had' = [had EXCEPT ![p] = {b \in Buckets : key[p][b] = names[b]}
                                 \cup {c \in {"status"} : status[p] = "uploaded"}]
  /\ UNCHANGED <<projVars, stored, upload, made, cancel, workVars, prevVars, cleanVars,
                 histVars>>

After ==
  LET thumbnails == IF "thumbnails" \in Buckets THEN "thumbnails" ELSE "commit"
      audio == IF "audio" \in Buckets THEN "audio" ELSE thumbnails
  IN [originals |-> IF "proxies" \in Buckets THEN "proxies" ELSE audio,
      proxies |-> audio, audio |-> thumbnails, thumbnails |-> "commit"]

\* One object after the other is stored.  All but the original may fail without failing the
\* request; the audio follows a proxy.
UploadPuts(p) ==
  LET b == up[p] IN
  /\ b \in UploadBuckets
  /\ \/ /\ b = "audio" => "proxies" \in made[p]
        /\ stored' = stored \cup {<<b, want[p][b]>>}
        /\ made' = [made EXCEPT ![p] = @ \cup {b}]
     \/ b # "originals" /\ UNCHANGED <<stored, made>>
  /\ up' = [up EXCEPT ![p] = After[b]]
  /\ UNCHANGED <<projVars, upload, want, had, cancel, workVars, prevVars, cleanVars, histVars>>

UploadOver(p) ==
  /\ up' = [up EXCEPT ![p] = "idle"]
  /\ want' = [want EXCEPT ![p] = [b \in Buckets |-> Own(p)]]
  /\ made' = [made EXCEPT ![p] = {}]
  /\ had' = [had EXCEPT ![p] = {}]

\* The container cannot be probed or exceeds the limits: the original is deleted again, and
\* with it one of the same name that a row may name.
UploadRefused(p) ==
  LET original == want[p]["originals"] IN
  /\ up[p] = After["originals"] /\ made[p] = {"originals"}
  /\ stored' = stored \ {<<"originals", original>>}
  /\ purged' = purged \cup {q \in {p} : \E r \in Projects : key[r]["originals"] = original}
  /\ UploadOver(p)
  /\ UNCHANGED <<projVars, upload, cancel, workVars, prevVars, cleanVars, copied, again,
                 abandoned, left>>

\* The one commit.  Columns the row had at the beginning as they are to be are not written,
\* whatever they hold by now; the audio has no column.
UploadCommits(p) ==
  LET named == made[p] \ (had[p] \cup {"audio"}) IN
  /\ up[p] = "commit"
  /\ key' = [key EXCEPT ![p] = [b \in Buckets |-> IF b \in named THEN want[p][b] ELSE key[p][b]]]
  /\ status' = IF "status" \in had[p] THEN status ELSE [status EXCEPT ![p] = "uploaded"]
  /\ upload' = [upload EXCEPT ![p] = "completed"]
  /\ abandoned' = abandoned \ {<<b, want[p][b]>> : b \in named}
  /\ UploadOver(p)
  /\ UNCHANGED <<deleted, hold, locked, age, outAge, rows, stored, cancel, workVars, prevVars,
                 cleanVars, copied, purged, again, left>>

\* Storage fails or the request dies: what it has stored stays.
UploadDies(p) ==
  /\ Happens("fault") \/ Happens("crash")
  /\ up[p] # "idle"
  /\ abandoned' = abandoned \cup {<<b, want[p][b]>> : b \in made[p]}
  /\ UploadOver(p)
  /\ UNCHANGED <<projVars, stored, upload, cancel, workVars, prevVars, cleanVars, copied, purged,
                 again>>

\* DELETE /uploads/{id}, whether the upload is completed or not: the original the row names
\* is deleted, and the row goes on naming it.
CancelDeletes(p) ==
  /\ Happens("cancel_upload")
  /\ upload[p] # "none" /\ ~deleted[p] /\ status[p] # "cancelled" /\ cancel[p] = "idle"
  /\ cancel' = [cancel EXCEPT ![p] = upload[p]]
  /\ stored' = stored \ {<<"originals", key[p]["originals"]>>}
  /\ purged' = purged \cup {q \in {p} : key[p]["originals"] # NoKey}
  /\ again' = again \cup {p}
  /\ UNCHANGED <<projVars, upload, up, want, made, had, workVars, prevVars, cleanVars, copied,
                 abandoned>>

\* The upload can be completed again.
CancelCommits(p) ==
  /\ cancel[p] # "idle"
  /\ upload' = [upload EXCEPT ![p] = IF cancel[p] = "completed" THEN "open" ELSE @]
  /\ status' = [status EXCEPT ![p] = "cancelled"]
  /\ cancel' = [cancel EXCEPT ![p] = "idle"]
  /\ UNCHANGED <<deleted, hold, locked, age, outAge, key, rows, stored, up, want, made, had,
                 workVars, prevVars, cleanVars, histVars>>

\* It dies in between (the bound counts it with CancelDeletes).
CancelDies(p) ==
  /\ "crash" \in Operations /\ cancel[p] # "idle"
  /\ cancel' = [cancel EXCEPT ![p] = "idle"]
  /\ UNCHANGED <<projVars, stored, upload, up, want, made, had, workVars, prevVars, cleanVars,
                 histVars>>

\* POST /projects/{id}/duplicate: a new row that names the same source objects.
Duplicate(p, q) ==
  /\ Happens("duplicate")
  /\ status[p] # "none" /\ ~deleted[p] /\ key[p]["originals"] # NoKey
  /\ status[q] = "none"
  /\ status' = [status EXCEPT ![q] = "uploaded"]
  /\ key' = [key EXCEPT ![q] = [b \in Buckets |->
               IF b \in {"originals", "proxies", "thumbnails"} THEN key[p][b] ELSE NoKey]]
  /\ copied' = copied \cup {p, q}
  /\ UNCHANGED <<deleted, hold, locked, age, outAge, rows, stored, upVars, workVars, prevVars,
                 cleanVars, purged, again, abandoned>>

\* DELETE /projects/{id}: soft, and pending jobs are cancelled.
Delete(p) ==
  /\ status[p] # "none" /\ ~deleted[p]
  /\ deleted' = [deleted EXCEPT ![p] = TRUE]
  /\ job' = [job EXCEPT ![p] = IF @ \in Pending THEN "cancelled" ELSE @]
  /\ UNCHANGED <<status, hold, locked, age, outAge, key, rows, stored, upVars, wk, wkHad,
                 prevVars, cleanVars, histVars>>

\* _owned_ready_project and gate_processing_allowed: a project that is being uploaded, locked
\* or held is neither processed nor previewed.
Admitted(p) == status[p] \notin {"none", "uploading"} /\ ~deleted[p] /\ ~locked[p] /\ ~hold[p]

\* POST /projects/{id}/process, with no job pending.
Process(p) ==
  /\ Admitted(p) /\ job[p] \notin Pending /\ wk[p] = "idle"
  /\ job' = [job EXCEPT ![p] = "queued"]
  /\ status' = [status EXCEPT ![p] = "processing_queued"]
  /\ UNCHANGED <<deleted, hold, locked, age, outAge, key, rows, stored, upVars, wk, wkHad,
                 prevVars, cleanVars, histVars>>

\* POST /projects/{id}/preview: the status is committed first.
PreviewBegin(p) ==
  /\ Happens("preview")
  /\ Admitted(p) /\ pv[p] = "idle"
  /\ status' = [status EXCEPT ![p] = "preview_processing"]
  /\ pv' = [pv EXCEPT ![p] = "building"]
  /\ UNCHANGED <<deleted, hold, locked, age, outAge, key, rows, stored, upVars, workVars, pvHad,
                 cleanVars, pastVars>>

\* The row is read again and the proxy, or the original, downloaded.  A preview of the
\* same window as before gets the same key.
PreviewReads(p) ==
  /\ pv[p] = "building"
  /\ \E b \in Buckets \cap {"proxies", "originals"} : <<b, key[p][b]>> \in stored
  /\ pv' = [pv EXCEPT ![p] = "read"]
  /\ \E sameWindow \in BOOLEAN :
       pvHad' = [pvHad EXCEPT ![p] = sameWindow /\ key[p]["previews"] # NoKey]
  /\ UNCHANGED <<projVars, stored, upVars, workVars, cleanVars, histVars>>

\* The clip is stored.
PreviewPut(p) ==
  /\ pv[p] = "read"
  /\ stored' = stored \cup {<<"previews", Own(p)>>}
  /\ pv' = [pv EXCEPT ![p] = "put"]
  /\ UNCHANGED <<projVars, upVars, workVars, pvHad, cleanVars, histVars>>

\* SQLAlchemy writes only columns that changed since the row was read: a key that was
\* already set is not written again, whatever the column holds by now.
PreviewReady(p) ==
  /\ pv[p] = "put"
  /\ key' = [key EXCEPT ![p]["previews"] = IF pvHad[p] THEN @ ELSE Own(p)]
  /\ status' = [status EXCEPT ![p] = "preview_ready"]
  /\ pv' = [pv EXCEPT ![p] = "idle"]
  /\ pvHad' = [pvHad EXCEPT ![p] = FALSE]
  /\ UNCHANGED <<deleted, hold, locked, age, outAge, rows, stored, upVars, workVars, cleanVars,
                 histVars>>

\* The source is gone, or ffmpeg or storage fails.
PreviewFails(p) ==
  /\ pv[p] \in {"building", "read"}
  /\ status' = [status EXCEPT ![p] = "failed"]
  /\ pv' = [pv EXCEPT ![p] = "idle"]
  /\ pvHad' = [pvHad EXCEPT ![p] = FALSE]
  /\ UNCHANGED <<deleted, hold, locked, age, outAge, key, rows, stored, upVars, workVars,
                 cleanVars, histVars>>

----------------------------------------------------------------------------
(* The processing worker, as far as it touches storage *)

\* _fail: mark_failed and fail_project; for a cancelled job the former raises and
\* nothing is committed.
JobFails(p) ==
  IF job[p] \in Pending
    THEN /\ job' = [job EXCEPT ![p] = "failed"]
         /\ status' = [status EXCEPT ![p] = "failed"]
         /\ outAge' = [outAge EXCEPT ![p] = 1]
    ELSE UNCHANGED <<job, status, outAge>>

\* The source the row names, or would name.
Source(p) == IF key[p]["originals"] = NoKey THEN Own(p) ELSE key[p]["originals"]

\* The worker downloads it, or fails.
Reads(p) ==
  /\ wk[p] = "idle"
  /\ IF <<"originals", Source(p)>> \in stored
       THEN /\ job' = [job EXCEPT ![p] = "running"]
            /\ wk' = [wk EXCEPT ![p] = "busy"]
            /\ UNCHANGED <<status, outAge>>
       ELSE JobFails(p) /\ UNCHANGED wk
  /\ UNCHANGED <<deleted, hold, locked, age, key, rows, stored, upVars, wkHad, prevVars,
                 cleanVars, histVars>>
WorkerReads(p) == job[p] = "queued" /\ Reads(p)

\* The message of a worker that died is delivered again.
Redelivered(p) == job[p] = "running" /\ Reads(p)

\* Encoded; the project row is read again to check the duration.
WorkerLoads(p) ==
  /\ wk[p] = "busy"
  /\ wk' = [wk EXCEPT ![p] = "loaded"]
  /\ wkHad' = [wkHad EXCEPT ![p] = key[p]["outputs"] # NoKey]
  /\ UNCHANGED <<projVars, stored, upVars, job, prevVars, cleanVars, histVars>>

WorkerPuts(p) ==
  /\ wk[p] = "loaded"
  /\ stored' = stored \cup {<<"outputs", Own(p)>>}
  /\ wk' = [wk EXCEPT ![p] = "put"]
  /\ UNCHANGED <<projVars, upVars, job, wkHad, prevVars, cleanVars, histVars>>

\* The worker is through with the job.
WorkerOver(p) ==
  /\ wk' = [wk EXCEPT ![p] = "idle"]
  /\ wkHad' = [wkHad EXCEPT ![p] = FALSE]

\* The output it has stored is nobody's.
OutputAbandoned(p) ==
  abandoned' = abandoned \cup {<<"outputs", Own(q)>> : q \in {r \in {p} : wk[r] = "put"}}

\* record_output, complete_project and the transition to completed, which raises for a
\* job cancelled in the meantime: then nothing is committed, and the object stays.
WorkerCommits(p) ==
  /\ wk[p] = "put"
  /\ IF job[p] = "running"
       THEN /\ job' = [job EXCEPT ![p] = "done"]
            /\ status' = [status EXCEPT ![p] = "completed"]
            /\ key' = [key EXCEPT ![p]["outputs"] = IF wkHad[p] THEN @ ELSE Own(p)]
            /\ outAge' = [outAge EXCEPT ![p] = 1]
            /\ rows' = rows \cup {p}
            /\ abandoned' = IF wkHad[p] THEN abandoned ELSE abandoned \ {<<"outputs", Own(p)>>}
       ELSE OutputAbandoned(p) /\ UNCHANGED <<job, status, key, outAge, rows>>
  /\ WorkerOver(p)
  /\ UNCHANGED <<deleted, hold, locked, age, stored, upVars, prevVars, cleanVars, copied, purged,
                 again, left>>

\* A step of the job raises, before or after the output is stored.
WorkerFails(p) ==
  /\ wk[p] # "idle"
  /\ JobFails(p)
  /\ OutputAbandoned(p)
  /\ WorkerOver(p)
  /\ UNCHANGED <<deleted, hold, locked, age, key, rows, stored, upVars, prevVars, cleanVars,
                 copied, purged, again, left>>

\* The worker dies, or its commit and with it _fail's fails: the job stays as it is.
WorkerDies(p) ==
  /\ Happens("crash")
  /\ wk[p] # "idle"
  /\ OutputAbandoned(p)
  /\ WorkerOver(p)
  /\ UNCHANGED <<projVars, stored, upVars, job, prevVars, cleanVars, copied, purged, again>>

----------------------------------------------------------------------------
(* The administrator's flags and the clock *)

\* place_legal_hold also locks; remove_legal_hold leaves the lock; unlock removes it.
PlaceHold(p) ==
  /\ Happens("hold") /\ status[p] # "none"
  /\ hold' = [hold EXCEPT ![p] = TRUE]
  /\ locked' = [locked EXCEPT ![p] = TRUE]
  /\ UNCHANGED <<status, deleted, age, outAge, key, rows, stored, upVars, workVars, prevVars,
                 cleanVars, pastVars>>

RemoveHold(p) ==
  /\ hold[p]
  /\ hold' = [hold EXCEPT ![p] = FALSE]
  /\ UNCHANGED <<status, deleted, locked, age, outAge, key, rows, stored, upVars, workVars,
                 prevVars, cleanVars, histVars>>

Unlock(p) ==
  /\ locked[p]
  /\ locked' = [locked EXCEPT ![p] = FALSE]
  /\ UNCHANGED <<status, deleted, hold, age, outAge, key, rows, stored, upVars, workVars,
                 prevVars, cleanVars, histVars>>

\* Mutated form of AdminRetry: the job is put back to created.
AdminRetryCreated(p) ==
  /\ Happens("retry")
  /\ job[p] \in {"failed", "cancelled"} /\ wk[p] = "idle"
  /\ job' = [job EXCEPT ![p] = "created"]
  /\ UNCHANGED <<projVars, stored, upVars, wk, wkHad, prevVars, cleanVars, pastVars>>

\* Retry of a failed or cancelled job; the project's status is left as it is.
AdminRetry(p) ==
  /\ Happens("retry")
  /\ job[p] \in {"failed", "cancelled"} /\ wk[p] = "idle"
  /\ job' = [job EXCEPT ![p] = "queued"]
  /\ UNCHANGED <<projVars, stored, upVars, wk, wkHad, prevVars, cleanVars, pastVars>>

\* Cancellation of a job that has not ended; the project and the worker do not hear of it.
AdminCancel(p) ==
  /\ Happens("cancel_job")
  /\ job[p] \in Pending
  /\ job' = [job EXCEPT ![p] = "cancelled"]
  /\ UNCHANGED <<projVars, stored, upVars, wk, wkHad, prevVars, cleanVars, pastVars>>

GrowOld(p) ==
  /\ status[p] # "none" /\ age[p] < 2
  /\ age' = [age EXCEPT ![p] = @ + 1]
  /\ UNCHANGED <<status, deleted, hold, locked, outAge, key, rows, stored, upVars, workVars,
                 prevVars, cleanVars, histVars>>

\* Seven days since completed_at.
OutputGrowsOld(p) ==
  /\ outAge[p] = 1 /\ age[p] = 2
  /\ outAge' = [outAge EXCEPT ![p] = 2]
  /\ UNCHANGED <<status, deleted, hold, locked, age, key, rows, stored, upVars, workVars,
                 prevVars, cleanVars, histVars>>

----------------------------------------------------------------------------
(* Cleaners *)

Named(p, bs) ==
  {[proj |-> p, bucket |-> b, name |-> key[p][b]] : b \in {x \in bs : key[p][x] # NoKey}}

\* Mutated form of Expired: originals follow the short window of failed projects too.
ExpiredEarly(p, b) ==
  \/ b \in {"originals", "proxies"} /\ age[p] = 2 /\ status[p] \notin Active
  \/ b = "previews" /\ age[p] = 2
  \/ b # "outputs" /\ age[p] >= 1 /\ status[p] = "failed"
  \/ b = "outputs" /\ outAge[p] = 2

\* Mutated form of Expired: projects in use are not spared.
ExpiredInUse(p, b) ==
  \/ b \in {"originals", "proxies", "previews"} /\ age[p] = 2
  \/ b \in {"proxies", "previews"} /\ age[p] >= 1 /\ status[p] = "failed"
  \/ b = "outputs" /\ outAge[p] = 2

\* plan_project_cleanup: which of a live project's artifacts are past their window.
Expired(p, b) ==
  \/ b \in {"originals", "proxies"} /\ age[p] = 2 /\ status[p] \notin Active
  \/ b = "previews" /\ age[p] = 2
  \/ b \in {"proxies", "previews"} /\ age[p] >= 1 /\ status[p] = "failed"
  \/ b = "outputs" /\ outAge[p] = 2

\* Mutated form of Planned: soft-deleted projects are left alone.
PlannedLiveOnly(p) ==
  IF hold[p] \/ deleted[p] THEN {}
  ELSE Named(p, {b \in Buckets \ {"thumbnails"} : Expired(p, b)})

\* Mutated form of Planned: the hold is looked at only for projects that are not deleted.
PlannedDespiteHold(p) ==
  IF deleted[p] THEN Named(p, Buckets \ {"thumbnails"})
  ELSE IF hold[p] THEN {}
  ELSE Named(p, {b \in Buckets \ {"thumbnails"} : Expired(p, b)})

\* A held project is not cleaned, a deleted one loses everything but its thumbnail.
Planned(p) ==
  IF hold[p] THEN {}
  ELSE Named(p, {b \in Buckets \ {"thumbnails"} : deleted[p] \/ Expired(p, b)})

\* The sweep reads every row; the output rows of old projects come under review too.
SweepBegin(c) ==
  /\ kind[c] = "idle"
  /\ kind' = [kind EXCEPT ![c] = "sweep"]
  /\ plan' = [plan EXCEPT ![c] = UNION {Planned(p) : p \in Projects}]
  /\ due' = [due EXCEPT ![c] = {p \in Projects : outAge[p] = 2 /\ key[p]["outputs"] # NoKey}]
  /\ UNCHANGED <<projVars, stored, upVars, workVars, prevVars, cleared, drop, histVars>>

\* _delete_project_files, begun.
FilesBegin(c, p, gone) ==
  /\ kind[c] = "idle"
  /\ status[p] # "none"
  /\ kind' = [kind EXCEPT ![c] = "files"]
  /\ plan' = [plan EXCEPT ![c] = Named(p, Buckets)]
  /\ drop' = [drop EXCEPT ![c] = gone]
  /\ purged' = purged \cup {p}
  /\ UNCHANGED <<projVars, stored, upVars, workVars, prevVars, cleared, due, copied, again,
                 abandoned>>

\* POST /admin/projects/{id}/actions delete_files: no guard.
DeleteFiles(c, p) == Happens("files") /\ FilesBegin(c, p, {})

\* DELETE /admin/projects/{id}: the same, and the row is soft-deleted.
AdminDelete(c, p) == Happens("drop") /\ FilesBegin(c, p, {p})

\* Storage action trigger_cleanup or retry_cleanup: storage_deletion_allowed.
TriggerCleanup(c, p) ==
  /\ Happens("cleanup")
  /\ job[p] \notin Pending /\ ~hold[p] /\ ~locked[p]
  /\ FilesBegin(c, p, {})

\* The cleaner is done with an artifact; its key is NULL on the row in memory, or not.
Handled(c, a, clears) ==
  /\ plan' = [plan EXCEPT ![c] = @ \ {a}]
  /\ cleared' = IF clears THEN [cleared EXCEPT ![c] = @ \cup {<<a.proj, a.bucket>>}]
                          ELSE cleared
  /\ UNCHANGED <<projVars, upVars, workVars, prevVars, kind, due, drop, pastVars>>

\* A project's artifacts are deleted in this order, by sweeps and administrators alike.
Turn == [originals |-> 1, proxies |-> 2, previews |-> 3, outputs |-> 4, thumbnails |-> 5,
         audio |-> 6]
IsNext(a, c) == \A x \in plan[c] : x.proj = a.proj => Turn[a.bucket] <= Turn[x.bucket]

\* storage.delete of one artifact.
DeleteObject(c) ==
  \E a \in plan[c] :
    /\ IsNext(a, c) /\ Handled(c, a, TRUE)
    /\ stored' = stored \ {<<a.bucket, a.name>>}
    /\ UNCHANGED left

\* Mutated form of DeletionFails: the sweep, too, clears keys whatever storage says.
DeletionFailsCareless(c) ==
  \E a \in plan[c] :
    Happens("fault") /\ IsNext(a, c) /\ Handled(c, a, TRUE) /\ UNCHANGED stored

\* It raises: the sweep keeps the key for the next sweep, _delete_project_files clears it
\* nevertheless.
DeletionFails(c) ==
  \E a \in plan[c] :
    /\ Happens("fault") /\ IsNext(a, c)
    /\ Handled(c, a, kind[c] = "files")
    /\ UNCHANGED stored

CleanerIdle(c) ==
  /\ kind' = [kind EXCEPT ![c] = "idle"]
  /\ plan' = [plan EXCEPT ![c] = {}] /\ cleared' = [cleared EXCEPT ![c] = {}]
  /\ due' = [due EXCEPT ![c] = {}] /\ drop' = [drop EXCEPT ![c] = {}]

\* Mutated form of Commit: the keys are not cleared.
CommitKeepsKeys(c) ==
  /\ kind[c] # "idle" /\ plan[c] = {}
  /\ deleted' = [p \in Projects |-> deleted[p] \/ p \in drop[c]]
  /\ CleanerIdle(c)
  /\ UNCHANGED <<status, hold, locked, age, outAge, key, rows, stored, upVars, workVars,
                 prevVars, histVars>>

\* The one commit.  Output rows go only where the key is, at this point, still set on
\* the row in memory: where the deletion failed or was not planned.
Commit(c) ==
  /\ kind[c] # "idle" /\ plan[c] = {}
  /\ key' = [p \in Projects |-> [b \in Buckets |->
               IF <<p, b>> \in cleared[c] THEN NoKey ELSE key[p][b]]]
  /\ rows' = rows \ {p \in due[c] : <<p, "outputs">> \notin cleared[c]}
  /\ deleted' = [p \in Projects |-> deleted[p] \/ p \in drop[c]]
  /\ CleanerIdle(c)
  /\ UNCHANGED <<status, hold, locked, age, outAge, stored, upVars, workVars, prevVars,
                 histVars>>

\* The cleaner dies: the objects are gone, the rows as they were.
Crash(c) ==
  /\ Happens("crash")
  /\ kind[c] # "idle"
  /\ CleanerIdle(c)
  /\ UNCHANGED <<projVars, stored, upVars, workVars, prevVars, pastVars>>

OwnerStep(p) ==
  \/ Initiate(p) \/ Reinitiate(p)
  \/ (\E file, proxy \in Files : CompleteBegin(p, file, proxy)) \/ CancelDeletes(p)
  \/ (\E q \in Projects : Duplicate(p, q)) \/ Delete(p) \/ Process(p) \/ PreviewBegin(p)
UploadStep(p) == UploadPuts(p) \/ UploadRefused(p) \/ UploadCommits(p) \/ CancelCommits(p)
ServerStep(p) ==
  \/ PreviewReads(p) \/ PreviewPut(p) \/ PreviewReady(p) \/ PreviewFails(p)
  \/ WorkerReads(p) \/ WorkerLoads(p) \/ WorkerPuts(p) \/ WorkerCommits(p) \/ WorkerFails(p)
Fault(p) == UploadDies(p) \/ CancelDies(p) \/ WorkerDies(p) \/ Redelivered(p)
AdminStep(p) ==
  PlaceHold(p) \/ RemoveHold(p) \/ Unlock(p) \/ AdminRetry(p) \/ AdminCancel(p)
Time(p) == GrowOld(p) \/ OutputGrowsOld(p)
CleanerStep(c) ==
  \/ SweepBegin(c) \/ DeleteObject(c) \/ DeletionFails(c) \/ Commit(c) \/ Crash(c)
  \/ \E p \in Projects : DeleteFiles(c, p) \/ AdminDelete(c, p) \/ TriggerCleanup(c, p)

Next ==
  \/ \E p \in Projects :
       OwnerStep(p) \/ UploadStep(p) \/ ServerStep(p) \/ Fault(p) \/ AdminStep(p) \/ Time(p)
  \/ \E c \in Cleaners : CleanerStep(c)

Spec == Init /\ [][Next]_vars

\* Time passes, begun work goes on, the beat keeps starting sweeps and they go on.
\* Storage faults and crashes are among the optional operations, so finitely many.
Fairness ==
  /\ \A p \in Projects : WF_vars(UploadStep(p)) /\ WF_vars(ServerStep(p)) /\ WF_vars(Time(p))
  /\ \A c \in Cleaners :
       WF_vars(SweepBegin(c)) /\ WF_vars(DeleteObject(c)) /\ WF_vars(Commit(c))

FairSpec == Spec /\ Fairness
============================================================================
