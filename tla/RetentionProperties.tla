------------------------ MODULE RetentionProperties ------------------------
(***************************************************************************)
(* What retention should guarantee.                                        *)
(***************************************************************************)
EXTENDS Retention

\* The project's row names only its own objects, and nobody but sweeps deletes its files.
Untouched(p) == p \notin copied \cup purged

\* The windows inside which nothing may be cleaned, whatever happens to the project.
InWindow(p, b) ==
  \/ b = "originals" /\ age[p] < 2
  \/ b \in {"proxies", "previews"} /\ age[p] = 0
  \/ b = "thumbnails"

\* The projects whose rows may name the same objects as p's.
Family(p) == {p} \cup (IF p \in copied THEN copied ELSE {})

\* No project that shares p's objects is deleted or has outlived the window, and nobody,
\* administrator or owner, deletes their files.
Safe(p, b) ==
  \A q \in Family(p) : ~deleted[q] /\ q \notin purged /\ InWindow(q, b)

\* While an artifact is safe, the object its row names exists: however many sweeps
\* overlap with uploads, processing, previews and failures, and however stale their view
\* of the rows is.  (STORAGE-006)
InWindowIsKept ==
  \A p \in Projects, b \in Buckets :
    key[p][b] # NoKey /\ Safe(p, b) => <<b, key[p][b]>> \in stored

\* A cleaner is about to delete an object.
Doomed(b, n) ==
  \E c \in Cleaners : \E a \in plan[c] : a.bucket = b /\ a.name = n

\* Once a project is on hold and no cleaner is after an object of its own, none comes after
\* it as long as the hold lasts, except an administrator's deletion or on account of another
\* project that shares it.
HoldHolds ==
  [][\A p \in Projects, file \in Files, b \in Buckets :
       hold[p] /\ hold'[p] /\ ~Doomed(b, <<p, file>>) /\ Untouched(p)'
         => ~Doomed(b, <<p, file>>)']_vars

\* No object is left in storage that no row names, so that no sweep would ever find it.
\* Writers store an object before they commit its name, and clear a name only after its
\* object is gone; the names that are lost all the same are
\*   - of what a request or a worker stored that died, failed or found its job cancelled
\*     before its commit, and of what one that is under way has stored so far;
\*   - of sources of a project with a second upload, which may replace the key, or one that
\*     was cancelled;
\*   - of files that an administrator deletes, whatever storage says;
\*   - of the output of a project that is deleted or so old that a sweep may overlap with its
\*     being written again.
\* Not covered are the two kinds that are unnamed in any case: the audio of an upload, and the
\* previews of all windows but the last.
NameMayBeLost(b, n) ==
  LET p == Owner(n) IN
  \/ p \in purged \/ <<b, n>> \in abandoned
  \/ b # "outputs" /\ (p \in again \/ (up[p] # "idle" /\ b \in made[p]))
  \/ b = "outputs" /\ (wk[p] = "put" \/ deleted[p] \/ age[p] = 2)
NoStrayObjects ==
  \A b \in Buckets \ {"previews", "audio"}, n \in Name :
    <<b, n>> \in stored => key[Owner(n)][b] = n \/ NameMayBeLost(b, n)

\* A row that names an object that is gone does not stay so: a sweep that dies before its
\* commit, or whose deletion fails, is made good by a later one, unless the project is
\* put on hold or is in use at the time.
Dangling(p, b) == key[p][b] # NoKey /\ <<b, key[p][b]>> \notin stored
DanglingIsRepaired ==
  \A p \in Projects, b \in Buckets : Dangling(p, b) ~> 
       (~Dangling(p, b) \/ hold[p] \/ status[p] \in Active)

\* A soft-deleted project that is not on hold ends up naming nothing.
DeletedIsForgotten ==
  \A p \in Projects :
    deleted[p] ~> (hold[p] \/ \A b \in Buckets \ {"thumbnails"} : key[p][b] = NoKey)

\* "A queued/active/awaiting-approval project still needs its source"
\* (backend/app/services/retention.py:116): a queued job's project counts as in use, and its
\* source is in storage with no cleaner after it.
Available(p) ==
  <<"originals", Source(p)>> \in stored /\ ~Doomed("originals", Source(p))
Provided(p) ==
  job[p] = "queued" /\ ~deleted[p] => status[p] \in Active /\ Available(p)

\* The steps that may take it from a queued job: the owner starts a job without a source,
\* uploads another or cancels; a preview fails and the project no longer counts as in use; an
\* administrator retries a job, whose project was not, or deletes the files; a cleaner clears
\* the name; on account of another project that names the object or uploads it, a sweep or an
\* administrator comes after it, or that upload is refused or cancelled.
MayTakeSource(p) ==
  \/ Process(p) /\ ~Available(p)
  \/ UploadRefused(p) \/ UploadCommits(p) \/ CancelDeletes(p) \/ CancelCommits(p)
  \/ PreviewFails(p) \/ AdminRetry(p)
  \/ \E c \in Cleaners :
       \/ DeleteFiles(c, p) \/ AdminDelete(c, p)
       \/ Commit(c) /\ <<p, "originals">> \in cleared[c]
  \/ \E q \in Projects \ {p} :
       /\ Source(p) \in {key[q]["originals"], want[q]["originals"]}
       /\ \/ UploadRefused(q) \/ CancelDeletes(q)
          \/ \E c \in Cleaners :
               SweepBegin(c) \/ DeleteFiles(c, q) \/ AdminDelete(c, q) \/ TriggerCleanup(c, q)

\* No other step does: no sweep, whatever rows it has read and whatever else overlaps with it.
QueuedSourceIsKept ==
  [][\A p \in Projects : Provided(p) => Provided(p)' \/ MayTakeSource(p)]_vars
============================================================================
