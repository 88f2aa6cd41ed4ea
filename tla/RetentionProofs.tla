-------------------------- MODULE RetentionProofs --------------------------
(***************************************************************************)
(* Retention, for every number of projects, cleaners, buckets, file names  *)
(* and operations: types, InWindowIsKept, HoldHolds, NoStrayObjects and    *)
(* QueuedSourceIsKept.                                                     *)
(*                                                                         *)
(* Lemmas named ...Writers say which steps change a variable; an invariant *)
(* is then shown for the writers of the variables it is about.             *)
(***************************************************************************)
EXTENDS RetentionProperties, TLAPS

USE RetentionAssumption DEF AllBuckets, AllOperations, UploadBuckets

\* Storage keys begin with the id of a project.
LEMMA Names ==
  /\ NoKey \notin Name
  /\ \A n \in Name : Owner(n) \in Projects
  /\ \A p \in Projects : Own(p) \in Name /\ Owner(Own(p)) = p
  /\ \A p \in Projects, file \in Files : <<p, file>> \in Name /\ Owner(<<p, file>>) = p
BY DEF Name, Owner, Own

----------------------------------------------------------------------------
(* Types *)

\* What a cleaner makes of the rows is a set of artifacts.
LEMMA NamedType ==
  ASSUME TypeOK, NEW p \in Projects, NEW bs \in SUBSET Buckets
  PROVE  Named(p, bs) \subseteq Artifact
BY DEF TypeOK, ObjectTypes, Named, Artifact

LEMMA PlannedType ==
  ASSUME TypeOK, NEW p \in Projects
  PROVE  Planned(p) \subseteq Artifact
<1>1. {b \in Buckets \ {"thumbnails"} : deleted[p] \/ Expired(p, b)} \in SUBSET Buckets
  OBVIOUS
<1> QED BY <1>1, NamedType DEF Planned

LEMMA TypeInit == Init => TypeOK
<1> SUFFICES ASSUME Init PROVE TypeOK
  OBVIOUS
<1>1. ProjTypes
  BY DEF Init, ProjTypes, Statuses
<1>2. ObjectTypes
  BY DEF Init, ObjectTypes
<1>3. UploadTypes
  BY Names DEF Init, UploadTypes
<1>4. WorkTypes /\ CleanTypes /\ HistTypes
  BY DEF Init, WorkTypes, CleanTypes, HistTypes
<1> QED BY <1>1, <1>2, <1>3, <1>4 DEF TypeOK

\* What an action leaves alone keeps its type.
LEMMA TypesUnchanged ==
  ASSUME TypeOK
  PROVE  /\ UNCHANGED projVars => ProjTypes'
         /\ UNCHANGED <<key, stored>> => ObjectTypes'
         /\ UNCHANGED upVars => UploadTypes'
         /\ UNCHANGED <<workVars, prevVars>> => WorkTypes'
         /\ UNCHANGED cleanVars => CleanTypes'
         /\ UNCHANGED histVars => HistTypes'
<1>1. UNCHANGED projVars => ProjTypes'
  BY DEF TypeOK, ProjTypes, projVars
<1>2. UNCHANGED <<key, stored>> => ObjectTypes'
  BY DEF TypeOK, ObjectTypes
<1>3. UNCHANGED upVars => UploadTypes'
  BY DEF TypeOK, UploadTypes, upVars
<1>4. UNCHANGED <<workVars, prevVars>> => WorkTypes'
  BY DEF TypeOK, WorkTypes, workVars, prevVars
<1>5. UNCHANGED cleanVars => CleanTypes'
  BY DEF TypeOK, CleanTypes, cleanVars
<1>6. UNCHANGED histVars => HistTypes'
  BY DEF TypeOK, HistTypes, histVars, pastVars
<1> QED BY <1>1, <1>2, <1>3, <1>4, <1>5, <1>6

\* A request that completes an upload ends.
LEMMA UploadOverTypes ==
  ASSUME TypeOK, NEW p \in Projects, UploadOver(p),
         upload' \in [Projects -> {"none", "open", "completed"}],
         cancel' = cancel
  PROVE  UploadTypes'
<1>1. [b \in Buckets |-> Own(p)] \in [Buckets -> Name]
  BY Names
<1> QED BY <1>1 DEF TypeOK, UploadTypes, UploadOver

LEMMA OwnerTypes ==
  ASSUME TypeOK, NEW p \in Projects, OwnerStep(p)
  PROVE  TypeOK'
<1>1. CASE Initiate(p)
  <2>1. ProjTypes'
    BY <1>1 DEF TypeOK, ProjTypes, Initiate, Statuses, Active
  <2>2. UploadTypes'
    BY <1>1 DEF TypeOK, UploadTypes, Initiate
  <2> QED BY <1>1, <2>1, <2>2, TypesUnchanged DEF TypeOK, Initiate, projVars, upVars, workVars,
         prevVars, cleanVars, histVars, pastVars
<1>2. CASE Reinitiate(p)
  <2>1. UploadTypes'
    BY <1>2 DEF TypeOK, UploadTypes, Reinitiate
  <2>2. HistTypes'
    BY <1>2 DEF TypeOK, HistTypes, Reinitiate, Happens
  <2> QED BY <1>2, <2>1, <2>2, TypesUnchanged DEF TypeOK, Reinitiate, projVars, upVars, workVars,
         prevVars, cleanVars, histVars, pastVars
<1>3. ASSUME NEW file \in Files, NEW proxy \in Files, CompleteBegin(p, file, proxy) PROVE TypeOK'
  <2> DEFINE names == [b \in Buckets |-> IF b = "originals" THEN <<p, file>>
                                         ELSE IF b = "proxies" THEN <<p, proxy>> ELSE Own(p)]
  <2>1. names \in [Buckets -> Name]
    BY Names
  <2>2. want' = [want EXCEPT ![p] = names]
    BY <1>3 DEF CompleteBegin
  <2>3. want' \in [Projects -> [Buckets -> Name]]
    BY <2>1, <2>2 DEF TypeOK, UploadTypes
  <2>4. had' \in [Projects -> SUBSET (Buckets \cup {"status"})]
    BY <1>3 DEF TypeOK, UploadTypes, CompleteBegin
  <2>5. up' \in [Projects -> {"idle", "commit"} \cup (UploadBuckets \cap Buckets)]
    BY <1>3 DEF TypeOK, UploadTypes, CompleteBegin
  <2>6. UploadTypes'
    BY <1>3, <2>3, <2>4, <2>5 DEF TypeOK, UploadTypes, CompleteBegin
  <2> QED BY <1>3, <2>6, TypesUnchanged DEF TypeOK, CompleteBegin, projVars
<1>4. CASE CancelDeletes(p)
  <2>1. ObjectTypes'
    BY <1>4 DEF TypeOK, ObjectTypes, CancelDeletes, projVars
  <2>2. UploadTypes'
    BY <1>4 DEF TypeOK, UploadTypes, CancelDeletes
  <2>3. HistTypes'
    BY <1>4 DEF TypeOK, HistTypes, CancelDeletes, Happens
  <2> QED BY <1>4, <2>1, <2>2, <2>3, TypesUnchanged DEF TypeOK, CancelDeletes, projVars, upVars,
         workVars, prevVars, cleanVars, histVars, pastVars
<1>5. ASSUME NEW q \in Projects, Duplicate(p, q) PROVE TypeOK'
  <2>1. ProjTypes'
    BY <1>5 DEF TypeOK, ProjTypes, Duplicate, Statuses, Active
  <2>2. ObjectTypes'
    BY <1>5 DEF TypeOK, ObjectTypes, Duplicate
  <2>3. HistTypes'
    BY <1>5 DEF TypeOK, HistTypes, Duplicate, Happens
  <2> QED BY <1>5, <2>1, <2>2, <2>3, TypesUnchanged DEF TypeOK, Duplicate, projVars, upVars,
         workVars, prevVars, cleanVars, histVars, pastVars
<1>6. CASE Delete(p)
  <2>1. ProjTypes'
    BY <1>6 DEF TypeOK, ProjTypes, Delete
  <2>2. WorkTypes'
    BY <1>6 DEF TypeOK, WorkTypes, Delete, Pending, prevVars
  <2> QED BY <1>6, <2>1, <2>2, TypesUnchanged DEF TypeOK, Delete, projVars, upVars, workVars,
         prevVars, cleanVars, histVars, pastVars
<1>7. CASE Process(p)
  <2>1. ProjTypes'
    BY <1>7 DEF TypeOK, ProjTypes, Process, Statuses, Active
  <2>2. WorkTypes'
    BY <1>7 DEF TypeOK, WorkTypes, Process, prevVars
  <2> QED BY <1>7, <2>1, <2>2, TypesUnchanged DEF TypeOK, Process, projVars, upVars, workVars,
         prevVars, cleanVars, histVars, pastVars
<1>8. CASE PreviewBegin(p)
  <2>1. ProjTypes'
    BY <1>8 DEF TypeOK, ProjTypes, PreviewBegin, Statuses, Active
  <2>2. WorkTypes'
    BY <1>8 DEF TypeOK, WorkTypes, PreviewBegin, workVars
  <2>3. HistTypes'
    BY <1>8 DEF TypeOK, HistTypes, PreviewBegin, Happens, pastVars
  <2> QED BY <1>8, <2>1, <2>2, <2>3, TypesUnchanged DEF TypeOK, PreviewBegin, projVars, upVars,
         workVars, prevVars, cleanVars, histVars, pastVars
<1> QED BY <1>1, <1>2, <1>3, <1>4, <1>5, <1>6, <1>7, <1>8 DEF OwnerStep

LEMMA UploadTypesKept ==
  ASSUME TypeOK, NEW p \in Projects, UploadStep(p) \/ Fault(p)
  PROVE  TypeOK'
<1>1. CASE UploadPuts(p)
  <2>1. want[p][up[p]] \in Name /\ up[p] \in Buckets
    BY <1>1 DEF TypeOK, UploadTypes, UploadPuts
  <2>2. stored' \subseteq stored \cup {<<up[p], want[p][up[p]]>>}
    BY <1>1 DEF UploadPuts
  <2>3. ObjectTypes'
    BY <1>1, <2>1, <2>2 DEF TypeOK, ObjectTypes, UploadPuts, Object, projVars
  <2>4. After[up[p]] \in {"commit"} \cup (UploadBuckets \cap Buckets)
    BY <1>1 DEF UploadPuts, After
  <2>5. made' \in [Projects -> SUBSET Buckets]
    BY <1>1, <2>1 DEF TypeOK, UploadTypes, UploadPuts
  <2>6. UploadTypes'
    BY <1>1, <2>4, <2>5 DEF TypeOK, UploadTypes, UploadPuts
  <2> QED BY <1>1, <2>3, <2>6, TypesUnchanged DEF TypeOK, UploadPuts, projVars
<1>2. CASE UploadRefused(p)
  <2>1. ObjectTypes'
    BY <1>2 DEF TypeOK, ObjectTypes, UploadRefused, projVars
  <2>2. UploadTypes'
    BY <1>2, UploadOverTypes DEF TypeOK, UploadTypes, UploadRefused
  <2>3. HistTypes'
    BY <1>2 DEF TypeOK, HistTypes, UploadRefused
  <2> QED BY <1>2, <2>1, <2>2, <2>3, TypesUnchanged DEF TypeOK, UploadRefused
<1>3. CASE UploadCommits(p)
  <2>1. ProjTypes'
    BY <1>3 DEF TypeOK, ProjTypes, UploadCommits, Statuses
  <2>2. [b \in Buckets |-> IF b \in made[p] \ (had[p] \cup {"audio"})
                          THEN want[p][b] ELSE key[p][b]]
          \in [Buckets -> Name \cup {NoKey}]
    BY DEF TypeOK, ObjectTypes, UploadTypes
  <2>3. ObjectTypes'
    BY <1>3, <2>2 DEF TypeOK, ObjectTypes, UploadCommits
  <2>4. upload' \in [Projects -> {"none", "open", "completed"}]
    BY <1>3 DEF TypeOK, UploadTypes, UploadCommits
  <2>5. UploadTypes'
    BY <1>3, <2>4, UploadOverTypes DEF UploadCommits
  <2>6. HistTypes'
    BY <1>3 DEF TypeOK, HistTypes, UploadCommits
  <2> QED BY <1>3, <2>1, <2>3, <2>5, <2>6, TypesUnchanged DEF TypeOK, UploadCommits
<1>4. CASE CancelCommits(p)
  <2>1. ProjTypes'
    BY <1>4 DEF TypeOK, ProjTypes, CancelCommits, Statuses, Active
  <2>2. UploadTypes'
    BY <1>4 DEF TypeOK, UploadTypes, CancelCommits
  <2> QED BY <1>4, <2>1, <2>2, TypesUnchanged DEF TypeOK, CancelCommits, projVars, upVars,
         workVars, prevVars, cleanVars, histVars, pastVars
<1>5. CASE UploadDies(p)
  <2>1. UploadTypes'
    BY <1>5, UploadOverTypes DEF TypeOK, UploadTypes, UploadDies
  <2>2. {<<b, want[p][b]>> : b \in made[p]} \subseteq Object
    BY DEF TypeOK, UploadTypes, Object
  <2>3. HistTypes'
    BY <1>5, <2>2 DEF TypeOK, HistTypes, UploadDies, Happens
  <2> QED BY <1>5, <2>1, <2>3, TypesUnchanged DEF TypeOK, UploadDies, projVars
<1>6. CASE CancelDies(p)
  <2>1. UploadTypes'
    BY <1>6 DEF TypeOK, UploadTypes, CancelDies
  <2> QED BY <1>6, <2>1, TypesUnchanged DEF TypeOK, CancelDies, projVars, upVars, workVars,
         prevVars, cleanVars, histVars, pastVars
<1>7. CASE WorkerDies(p)
  <2>1. WorkTypes'
    BY <1>7 DEF TypeOK, WorkTypes, WorkerDies, WorkerOver, prevVars
  <2>2. HistTypes'
    BY <1>7, Names DEF TypeOK, HistTypes, WorkerDies, Happens, OutputAbandoned, Object
  <2> QED BY <1>7, <2>1, <2>2, TypesUnchanged DEF TypeOK, WorkerDies, projVars, upVars, workVars,
         prevVars, cleanVars, histVars, pastVars
<1>8. CASE Redelivered(p)
  <2>1. ProjTypes'
    BY <1>8 DEF TypeOK, ProjTypes, Redelivered, Reads, JobFails, Statuses
  <2>2. WorkTypes'
    BY <1>8 DEF TypeOK, WorkTypes, Redelivered, Reads, JobFails, prevVars
  <2> QED BY <1>8, <2>1, <2>2, TypesUnchanged DEF TypeOK, Redelivered, Reads, projVars, upVars,
         workVars, prevVars, cleanVars, histVars, pastVars
<1> QED BY <1>1, <1>2, <1>3, <1>4, <1>5, <1>6, <1>7, <1>8 DEF UploadStep, Fault

LEMMA ServerTypes ==
  ASSUME TypeOK, NEW p \in Projects, ServerStep(p)
  PROVE  TypeOK'
<1>1. CASE PreviewReads(p)
  <2>1. WorkTypes'
    BY <1>1 DEF TypeOK, WorkTypes, PreviewReads, workVars
  <2> QED BY <1>1, <2>1, TypesUnchanged DEF TypeOK, PreviewReads, projVars, upVars, workVars,
         prevVars, cleanVars, histVars, pastVars
<1>2. CASE PreviewPut(p)
  <2>1. ObjectTypes'
    BY <1>2, Names DEF TypeOK, ObjectTypes, PreviewPut, Object, projVars
  <2>2. WorkTypes'
    BY <1>2 DEF TypeOK, WorkTypes, PreviewPut, workVars
  <2> QED BY <1>2, <2>1, <2>2, TypesUnchanged DEF TypeOK, PreviewPut, projVars, upVars, workVars,
         prevVars, cleanVars, histVars, pastVars
<1>3. CASE PreviewReady(p)
  <2>1. ProjTypes'
    BY <1>3 DEF TypeOK, ProjTypes, PreviewReady, Statuses, Active
  <2>2. ObjectTypes'
    BY <1>3, Names DEF TypeOK, ObjectTypes, PreviewReady
  <2>3. WorkTypes'
    BY <1>3 DEF TypeOK, WorkTypes, PreviewReady, workVars
  <2> QED BY <1>3, <2>1, <2>2, <2>3, TypesUnchanged DEF TypeOK, PreviewReady, projVars, upVars,
         workVars, prevVars, cleanVars, histVars, pastVars
<1>4. CASE PreviewFails(p)
  <2>1. ProjTypes'
    BY <1>4 DEF TypeOK, ProjTypes, PreviewFails, Statuses, Active
  <2>2. WorkTypes'
    BY <1>4 DEF TypeOK, WorkTypes, PreviewFails, workVars
  <2> QED BY <1>4, <2>1, <2>2, TypesUnchanged DEF TypeOK, PreviewFails, projVars, upVars,
         workVars, prevVars, cleanVars, histVars, pastVars
<1>5. CASE WorkerReads(p)
  <2>1. ProjTypes'
    BY <1>5 DEF TypeOK, ProjTypes, WorkerReads, Reads, JobFails, Statuses
  <2>2. WorkTypes'
    BY <1>5 DEF TypeOK, WorkTypes, WorkerReads, Reads, JobFails, prevVars
  <2> QED BY <1>5, <2>1, <2>2, TypesUnchanged DEF TypeOK, WorkerReads, Reads, projVars, upVars,
         workVars, prevVars, cleanVars, histVars, pastVars
<1>6. CASE WorkerLoads(p)
  <2>1. WorkTypes'
    BY <1>6 DEF TypeOK, WorkTypes, WorkerLoads, prevVars
  <2> QED BY <1>6, <2>1, TypesUnchanged DEF TypeOK, WorkerLoads, projVars, upVars, workVars,
         prevVars, cleanVars, histVars, pastVars
<1>7. CASE WorkerPuts(p)
  <2>1. ObjectTypes'
    BY <1>7, Names DEF TypeOK, ObjectTypes, WorkerPuts, Object, projVars
  <2>2. WorkTypes'
    BY <1>7 DEF TypeOK, WorkTypes, WorkerPuts, prevVars
  <2> QED BY <1>7, <2>1, <2>2, TypesUnchanged DEF TypeOK, WorkerPuts, projVars, upVars, workVars,
         prevVars, cleanVars, histVars, pastVars
<1>8. CASE WorkerCommits(p)
  <2>1. ProjTypes'
    BY <1>8 DEF TypeOK, ProjTypes, WorkerCommits, Statuses, Active
  <2>2. ObjectTypes'
    BY <1>8, Names DEF TypeOK, ObjectTypes, WorkerCommits
  <2>3. WorkTypes'
    BY <1>8 DEF TypeOK, WorkTypes, WorkerCommits, WorkerOver, prevVars
  <2>4. HistTypes'
    BY <1>8, Names DEF TypeOK, HistTypes, WorkerCommits, OutputAbandoned, Object
  <2> QED BY <1>8, <2>1, <2>2, <2>3, <2>4, TypesUnchanged DEF TypeOK, WorkerCommits, projVars,
         upVars, workVars, prevVars, cleanVars, histVars, pastVars
<1>9. CASE WorkerFails(p)
  <2>1. ProjTypes'
    BY <1>9 DEF TypeOK, ProjTypes, WorkerFails, JobFails, Statuses
  <2>2. WorkTypes'
    BY <1>9 DEF TypeOK, WorkTypes, WorkerFails, JobFails, WorkerOver, prevVars
  <2>3. HistTypes'
    BY <1>9, Names DEF TypeOK, HistTypes, WorkerFails, OutputAbandoned, Object
  <2> QED BY <1>9, <2>1, <2>2, <2>3, TypesUnchanged DEF TypeOK, WorkerFails, projVars, upVars,
         workVars, prevVars, cleanVars, histVars, pastVars
<1> QED BY <1>1, <1>2, <1>3, <1>4, <1>5, <1>6, <1>7, <1>8, <1>9 DEF ServerStep

LEMMA AdminTypes ==
  ASSUME TypeOK, NEW p \in Projects, AdminStep(p) \/ Time(p)
  PROVE  TypeOK'
<1>1. CASE PlaceHold(p)
  <2>1. ProjTypes'
    BY <1>1 DEF TypeOK, ProjTypes, PlaceHold
  <2>2. HistTypes'
    BY <1>1 DEF TypeOK, HistTypes, PlaceHold, Happens, pastVars
  <2> QED BY <1>1, <2>1, <2>2, TypesUnchanged DEF TypeOK, PlaceHold, projVars, upVars, workVars,
         prevVars, cleanVars, histVars, pastVars
<1>2. CASE RemoveHold(p)
  <2>1. ProjTypes'
    BY <1>2 DEF TypeOK, ProjTypes, RemoveHold
  <2> QED BY <1>2, <2>1, TypesUnchanged DEF TypeOK, RemoveHold, projVars, upVars, workVars,
         prevVars, cleanVars, histVars, pastVars
<1>3. CASE Unlock(p)
  <2>1. ProjTypes'
    BY <1>3 DEF TypeOK, ProjTypes, Unlock
  <2> QED BY <1>3, <2>1, TypesUnchanged DEF TypeOK, Unlock, projVars, upVars, workVars, prevVars,
         cleanVars, histVars, pastVars
<1>4. CASE AdminRetry(p)
  <2>1. WorkTypes'
    BY <1>4 DEF TypeOK, WorkTypes, AdminRetry, prevVars
  <2>2. HistTypes'
    BY <1>4 DEF TypeOK, HistTypes, AdminRetry, Happens, pastVars
  <2> QED BY <1>4, <2>1, <2>2, TypesUnchanged DEF TypeOK, AdminRetry, projVars, upVars, workVars,
         prevVars, cleanVars, histVars, pastVars
<1>5. CASE AdminCancel(p)
  <2>1. WorkTypes'
    BY <1>5 DEF TypeOK, WorkTypes, AdminCancel, prevVars
  <2>2. HistTypes'
    BY <1>5 DEF TypeOK, HistTypes, AdminCancel, Happens, pastVars
  <2> QED BY <1>5, <2>1, <2>2, TypesUnchanged DEF TypeOK, AdminCancel, projVars, upVars, workVars,
         prevVars, cleanVars, histVars, pastVars
<1>6. CASE GrowOld(p)
  <2>1. ProjTypes'
    BY <1>6 DEF TypeOK, ProjTypes, GrowOld
  <2> QED BY <1>6, <2>1, TypesUnchanged DEF TypeOK, GrowOld, projVars, upVars, workVars, prevVars,
         cleanVars, histVars, pastVars
<1>7. CASE OutputGrowsOld(p)
  <2>1. ProjTypes'
    BY <1>7 DEF TypeOK, ProjTypes, OutputGrowsOld
  <2> QED BY <1>7, <2>1, TypesUnchanged DEF TypeOK, OutputGrowsOld, projVars, upVars, workVars,
         prevVars, cleanVars, histVars, pastVars
<1> QED BY <1>1, <1>2, <1>3, <1>4, <1>5, <1>6, <1>7 DEF AdminStep, Time

LEMMA CleanerTypes ==
  ASSUME TypeOK, NEW c \in Cleaners, CleanerStep(c)
  PROVE  TypeOK'
<1>a. ASSUME NEW a \in plan[c], NEW clears \in BOOLEAN, Handled(c, a, clears)
      PROVE  CleanTypes' /\ ProjTypes' /\ UploadTypes' /\ WorkTypes'
  <2>1. <<a.proj, a.bucket>> \in Projects \X Buckets
    BY DEF TypeOK, CleanTypes, Artifact
  <2>2. plan' \in [Cleaners -> SUBSET Artifact]
    BY <1>a DEF TypeOK, CleanTypes, Handled
  <2>3. cleared' \in [Cleaners -> SUBSET (Projects \X Buckets)]
    BY <1>a, <2>1 DEF TypeOK, CleanTypes, Handled
  <2>4. CleanTypes'
    BY <1>a, <2>2, <2>3 DEF TypeOK, CleanTypes, Handled
  <2> QED BY <1>a, <2>4, TypesUnchanged DEF Handled
<1>1. CASE SweepBegin(c)
  <2>1. UNION {Planned(p) : p \in Projects} \in SUBSET Artifact
    BY PlannedType
  <2>2. CleanTypes'
    BY <1>1, <2>1 DEF TypeOK, CleanTypes, SweepBegin
  <2> QED BY <1>1, <2>2, TypesUnchanged DEF TypeOK, SweepBegin, projVars
<1>2. CASE DeleteObject(c)
  <2> PICK a \in plan[c] : Handled(c, a, TRUE) /\ stored' \subseteq stored /\ left' = left
    BY <1>2 DEF DeleteObject
  <2>1. ObjectTypes'
    BY DEF TypeOK, ObjectTypes, Handled, projVars
  <2>2. HistTypes'
    BY TypesUnchanged DEF Handled, histVars
  <2> QED BY <1>a, <2>1, <2>2 DEF TypeOK
<1>3. CASE DeletionFails(c)
  <2> PICK a \in plan[c] : Handled(c, a, kind[c] = "files") /\ stored' = stored
    BY <1>3 DEF DeletionFails
  <2>1. HistTypes'
    BY <1>3 DEF DeletionFails, Happens, Handled, TypeOK, HistTypes, pastVars
  <2>2. ObjectTypes'
    BY TypesUnchanged DEF Handled, projVars
  <2> QED BY <1>a, <2>1, <2>2 DEF TypeOK
<1>4. CASE Commit(c)
  <2>1. ProjTypes'
    BY <1>4 DEF TypeOK, ProjTypes, Commit
  <2>2. ObjectTypes'
    BY <1>4 DEF TypeOK, ObjectTypes, Commit
  <2>3. CleanTypes'
    BY <1>4 DEF TypeOK, CleanTypes, Commit, CleanerIdle
  <2> QED BY <1>4, <2>1, <2>2, <2>3, TypesUnchanged DEF TypeOK, Commit, upVars, workVars, prevVars,
             histVars
<1>5. CASE Crash(c)
  <2>1. CleanTypes'
    BY <1>5 DEF TypeOK, CleanTypes, Crash, CleanerIdle
  <2>2. HistTypes'
    BY <1>5 DEF TypeOK, HistTypes, Crash, Happens, pastVars
  <2> QED BY <1>5, <2>1, <2>2, TypesUnchanged DEF TypeOK, Crash, projVars
<1>6. ASSUME NEW p \in Projects, DeleteFiles(c, p) \/ AdminDelete(c, p) \/ TriggerCleanup(c, p)
      PROVE  TypeOK'
  <2>1. PICK gone \in SUBSET Projects : FilesBegin(c, p, gone)
    BY <1>6 DEF DeleteFiles, AdminDelete, TriggerCleanup
  <2>2. left' \in 0..MaxOps
    BY <1>6 DEF DeleteFiles, AdminDelete, TriggerCleanup, Happens, TypeOK, HistTypes
  <2>3. Named(p, Buckets) \in SUBSET Artifact
    BY NamedType
  <2>4. CleanTypes'
    BY <2>1, <2>3 DEF FilesBegin, TypeOK, CleanTypes
  <2>5. HistTypes'
    BY <2>1, <2>2 DEF FilesBegin, TypeOK, HistTypes
  <2> QED BY <2>1, <2>4, <2>5, TypesUnchanged DEF TypeOK, FilesBegin, projVars
<1> QED BY <1>1, <1>2, <1>3, <1>4, <1>5, <1>6 DEF CleanerStep

LEMMA TypeStep == TypeOK /\ [Next]_vars => TypeOK'
<1> SUFFICES ASSUME TypeOK, [Next]_vars PROVE TypeOK'
  OBVIOUS
<1>1. CASE UNCHANGED vars
  BY <1>1, TypesUnchanged DEF vars, projVars, TypeOK
<1> QED BY <1>1, OwnerTypes, UploadTypesKept, ServerTypes, AdminTypes, CleanerTypes DEF Next

\* The variables keep their types.
THEOREM TypeCorrect == Spec => []TypeOK
BY TypeInit, TypeStep, PTL DEF Spec

----------------------------------------------------------------------------
(* Which steps change what *)

LEMMA KeyWriters ==
  ASSUME [Next]_vars
  PROVE  \/ UNCHANGED key
         \/ \E p \in Projects : \/ UploadCommits(p) \/ PreviewReady(p) \/ WorkerCommits(p)
                                \/ \E q \in Projects : Duplicate(p, q)
         \/ \E c \in Cleaners : Commit(c)
<1>1. CASE UNCHANGED vars
  BY <1>1 DEF vars, projVars
<1>2. ASSUME NEW p \in Projects, OwnerStep(p), \A q \in Projects : ~Duplicate(p, q)
      PROVE  UNCHANGED key
  BY <1>2 DEF OwnerStep, Initiate, Reinitiate, CompleteBegin, CancelDeletes, Delete, Process,
     PreviewBegin, projVars
<1>3. ASSUME NEW p \in Projects, UploadStep(p), ~UploadCommits(p) PROVE UNCHANGED key
  BY <1>3 DEF UploadStep, UploadPuts, UploadRefused, CancelCommits, projVars
<1>4. ASSUME NEW p \in Projects, ServerStep(p), ~PreviewReady(p), ~WorkerCommits(p)
      PROVE  UNCHANGED key
  BY <1>4 DEF ServerStep, PreviewReads, PreviewPut, PreviewFails, WorkerReads, Reads, WorkerLoads,
     WorkerPuts, WorkerFails, projVars
<1>5. ASSUME NEW p \in Projects, Fault(p) \/ AdminStep(p) \/ Time(p) PROVE UNCHANGED key
  BY <1>5 DEF Fault, UploadDies, CancelDies, WorkerDies, Redelivered, Reads, AdminStep, PlaceHold,
     RemoveHold, Unlock, AdminRetry, AdminCancel, Time, GrowOld, OutputGrowsOld, projVars
<1>6. ASSUME NEW c \in Cleaners, CleanerStep(c), ~Commit(c) PROVE UNCHANGED key
  BY <1>6 DEF CleanerStep, SweepBegin, DeleteObject, DeletionFails, Handled, Crash, DeleteFiles,
     AdminDelete, TriggerCleanup, FilesBegin, projVars
<1> QED BY <1>1, <1>2, <1>3, <1>4, <1>5, <1>6 DEF Next

LEMMA StoredWriters ==
  ASSUME [Next]_vars
  PROVE  \/ UNCHANGED stored
         \/ \E p \in Projects : \/ UploadPuts(p) \/ UploadRefused(p) \/ CancelDeletes(p)
                                \/ PreviewPut(p) \/ WorkerPuts(p)
         \/ \E c \in Cleaners : DeleteObject(c)
<1>1. CASE UNCHANGED vars
  BY <1>1 DEF vars
<1>2. ASSUME NEW p \in Projects, OwnerStep(p), ~CancelDeletes(p) PROVE UNCHANGED stored
  BY <1>2 DEF OwnerStep, Initiate, Reinitiate, CompleteBegin, Duplicate, Delete, Process,
     PreviewBegin
<1>3. ASSUME NEW p \in Projects, UploadStep(p), ~UploadPuts(p), ~UploadRefused(p)
      PROVE  UNCHANGED stored
  BY <1>3 DEF UploadStep, UploadCommits, CancelCommits
<1>4. ASSUME NEW p \in Projects, ServerStep(p), ~PreviewPut(p), ~WorkerPuts(p)
      PROVE  UNCHANGED stored
  BY <1>4 DEF ServerStep, PreviewReads, PreviewReady, PreviewFails, WorkerReads, Reads,
     WorkerLoads, WorkerCommits, WorkerFails
<1>5. ASSUME NEW p \in Projects, Fault(p) \/ AdminStep(p) \/ Time(p) PROVE UNCHANGED stored
  BY <1>5 DEF Fault, UploadDies, CancelDies, WorkerDies, Redelivered, Reads, AdminStep, PlaceHold,
     RemoveHold, Unlock, AdminRetry, AdminCancel, Time, GrowOld, OutputGrowsOld
<1>6. ASSUME NEW c \in Cleaners, CleanerStep(c), ~DeleteObject(c) PROVE UNCHANGED stored
  BY <1>6 DEF CleanerStep, SweepBegin, DeletionFails, Commit, Crash, DeleteFiles, AdminDelete,
     TriggerCleanup, FilesBegin
<1> QED BY <1>1, <1>2, <1>3, <1>4, <1>5, <1>6 DEF Next

LEMMA CleanWriters ==
  ASSUME [Next]_vars
  PROVE  UNCHANGED cleanVars \/ \E c \in Cleaners : CleanerStep(c)
<1>1. CASE UNCHANGED vars
  BY <1>1 DEF vars
<1>2. ASSUME NEW p \in Projects, OwnerStep(p) PROVE UNCHANGED cleanVars
  BY <1>2 DEF OwnerStep, Initiate, Reinitiate, CompleteBegin, CancelDeletes, Duplicate, Delete,
     Process, PreviewBegin
<1>3. ASSUME NEW p \in Projects, UploadStep(p) PROVE UNCHANGED cleanVars
  BY <1>3 DEF UploadStep, UploadPuts, UploadRefused, UploadCommits, CancelCommits
<1>4. ASSUME NEW p \in Projects, ServerStep(p) PROVE UNCHANGED cleanVars
  BY <1>4 DEF ServerStep, PreviewReads, PreviewPut, PreviewReady, PreviewFails, WorkerReads, Reads,
     WorkerLoads, WorkerPuts, WorkerCommits, WorkerFails
<1>5. ASSUME NEW p \in Projects, Fault(p) \/ AdminStep(p) \/ Time(p) PROVE UNCHANGED cleanVars
  BY <1>5 DEF Fault, UploadDies, CancelDies, WorkerDies, Redelivered, Reads, AdminStep, PlaceHold,
     RemoveHold, Unlock, AdminRetry, AdminCancel, Time, GrowOld, OutputGrowsOld
<1> QED BY <1>1, <1>2, <1>3, <1>4, <1>5 DEF Next

\* The requests that complete and cancel uploads.
LEMMA UploadWriters ==
  ASSUME [Next]_vars
  PROVE  \/ UNCHANGED upVars
         \/ \E p \in Projects :
              \/ Initiate(p) \/ Reinitiate(p) \/ UploadPuts(p) \/ UploadRefused(p)
              \/ UploadCommits(p) \/ UploadDies(p) \/ CancelDeletes(p) \/ CancelCommits(p)
              \/ CancelDies(p) \/ \E file, proxy \in Files : CompleteBegin(p, file, proxy)
<1>1. CASE UNCHANGED vars
  BY <1>1 DEF vars
<1>2. ASSUME NEW p \in Projects, OwnerStep(p)
      PROVE  \/ UNCHANGED upVars
             \/ Initiate(p) \/ Reinitiate(p) \/ CancelDeletes(p)
             \/ \E file, proxy \in Files : CompleteBegin(p, file, proxy)
  BY <1>2 DEF OwnerStep, Duplicate, Delete, Process, PreviewBegin
<1>3. ASSUME NEW p \in Projects, UploadStep(p)
      PROVE  UploadPuts(p) \/ UploadRefused(p) \/ UploadCommits(p) \/ CancelCommits(p)
  BY <1>3 DEF UploadStep
<1>4. ASSUME NEW p \in Projects, ServerStep(p) PROVE UNCHANGED upVars
  BY <1>4 DEF ServerStep, PreviewReads, PreviewPut, PreviewReady, PreviewFails, WorkerReads, Reads,
     WorkerLoads, WorkerPuts, WorkerCommits, WorkerFails
<1>5. ASSUME NEW p \in Projects, Fault(p) \/ AdminStep(p) \/ Time(p)
      PROVE  UNCHANGED upVars \/ UploadDies(p) \/ CancelDies(p)
  BY <1>5 DEF Fault, WorkerDies, Redelivered, Reads, AdminStep, PlaceHold,
     RemoveHold, Unlock, AdminRetry, AdminCancel, Time, GrowOld, OutputGrowsOld
<1>6. ASSUME NEW c \in Cleaners, CleanerStep(c) PROVE UNCHANGED upVars
  BY <1>6 DEF CleanerStep, SweepBegin, DeleteObject, DeletionFails, Handled, Commit, Crash,
     DeleteFiles, AdminDelete, TriggerCleanup, FilesBegin
<1> QED BY <1>1, <1>2, <1>3, <1>4, <1>5, <1>6 DEF Next

\* Rows that exist do not disappear; deletion, purging, sharing and time only go one way.
Onward ==
  /\ purged \subseteq purged' /\ copied \subseteq copied' /\ again \subseteq again'
  /\ \A q \in Projects : /\ deleted[q] => deleted'[q]
                         /\ age[q] <= age'[q]
                         /\ status'[q] = "none" => status[q] = "none"

LEMMA OnwardStep == TypeOK /\ [Next]_vars => Onward
<1> SUFFICES ASSUME TypeOK, [Next]_vars PROVE Onward
  OBVIOUS
<1> USE DEF TypeOK, ProjTypes
<1>q. ASSUME UNCHANGED <<deleted, age, copied>>, purged \subseteq purged', again \subseteq again',
             \A q \in Projects : status'[q] = "none" => status[q] = "none"
      PROVE Onward
  BY <1>q DEF Onward
<1>j. ASSUME NEW p \in Projects, JobFails(p)
      PROVE  \A q \in Projects : status'[q] = "none" => status[q] = "none"
  BY <1>j DEF JobFails
<1>1. CASE UNCHANGED vars
  BY <1>1, <1>q DEF vars, projVars, histVars, pastVars
<1>2. ASSUME NEW p \in Projects, OwnerStep(p) PROVE Onward
  <2>1. CASE Initiate(p) \/ Process(p) \/ PreviewBegin(p)
    BY <1>q, <2>1 DEF Initiate, Process, PreviewBegin, histVars, pastVars
  <2>2. CASE Reinitiate(p) \/ CancelDeletes(p)
             \/ \E file, proxy \in Files : CompleteBegin(p, file, proxy)
    BY <1>q, <2>2 DEF Reinitiate, CancelDeletes, CompleteBegin, projVars, histVars, pastVars
  <2>3. ASSUME NEW q \in Projects, Duplicate(p, q) PROVE Onward
    BY <2>3 DEF Duplicate, Onward
  <2>4. CASE Delete(p)
    BY <2>4 DEF Delete, histVars, pastVars, Onward
  <2> QED BY <1>2, <2>1, <2>2, <2>3, <2>4 DEF OwnerStep
<1>3. ASSUME NEW p \in Projects, UploadStep(p) PROVE Onward
  <2>1. CASE UploadPuts(p) \/ UploadRefused(p)
    BY <1>q, <2>1 DEF UploadPuts, UploadRefused, projVars, histVars, pastVars
  <2>2. CASE UploadCommits(p) \/ CancelCommits(p)
    BY <1>q, <2>2 DEF UploadCommits, CancelCommits, histVars, pastVars
  <2> QED BY <1>3, <2>1, <2>2 DEF UploadStep
<1>4. ASSUME NEW p \in Projects, ServerStep(p) PROVE Onward
  <2>1. CASE PreviewReads(p) \/ PreviewPut(p) \/ WorkerLoads(p) \/ WorkerPuts(p)
    BY <1>q, <2>1 DEF PreviewReads, PreviewPut, WorkerLoads, WorkerPuts, projVars, histVars,
       pastVars
  <2>2. CASE PreviewReady(p) \/ PreviewFails(p)
    BY <1>q, <2>2 DEF PreviewReady, PreviewFails, histVars, pastVars
  <2>3. CASE WorkerReads(p)
    BY <1>q, <1>j, <2>3 DEF WorkerReads, Reads, histVars, pastVars
  <2>4. CASE WorkerCommits(p)
    BY <1>q, <2>4 DEF WorkerCommits
  <2>5. CASE WorkerFails(p)
    BY <1>q, <1>j, <2>5 DEF WorkerFails
  <2> QED BY <1>4, <2>1, <2>2, <2>3, <2>4, <2>5 DEF ServerStep
<1>5. ASSUME NEW p \in Projects, Fault(p) PROVE Onward
  <2>1. CASE UploadDies(p) \/ CancelDies(p) \/ WorkerDies(p)
    BY <1>q, <2>1 DEF UploadDies, CancelDies, WorkerDies, projVars, histVars, pastVars
  <2>2. CASE Redelivered(p)
    BY <1>q, <1>j, <2>2 DEF Redelivered, Reads, histVars, pastVars
  <2> QED BY <1>5, <2>1, <2>2 DEF Fault
<1>6. ASSUME NEW p \in Projects, AdminStep(p) PROVE Onward
  BY <1>6, <1>q DEF AdminStep, PlaceHold, RemoveHold, Unlock, AdminRetry, AdminCancel, projVars,
     histVars, pastVars
<1>7. ASSUME NEW p \in Projects, Time(p) PROVE Onward
  BY <1>7 DEF Time, GrowOld, OutputGrowsOld, histVars, pastVars, Onward
<1>8. ASSUME NEW c \in Cleaners, CleanerStep(c) PROVE Onward
  <2>1. CASE SweepBegin(c) \/ DeleteObject(c) \/ DeletionFails(c) \/ Crash(c)
    BY <2>1, <1>q DEF SweepBegin, DeleteObject, DeletionFails, Handled, Crash, projVars, histVars,
       pastVars
  <2>2. CASE Commit(c)
    BY <2>2 DEF Commit, histVars, pastVars, Onward
  <2>3. ASSUME NEW p \in Projects, NEW gone, FilesBegin(c, p, gone) PROVE Onward
    BY <2>3, <1>q DEF FilesBegin, projVars
  <2> QED BY <1>8, <2>1, <2>2, <2>3 DEF CleanerStep, DeleteFiles, AdminDelete, TriggerCleanup
<1> QED BY <1>1, <1>2, <1>3, <1>4, <1>5, <1>6, <1>7, <1>8 DEF Next

\* Plans grow only where a cleaner begins, by names that are on the rows: of projects whose files
\* somebody deletes, and of what is past its window on projects that are not on hold.
LEMMA PlansGrow ==
  ASSUME TypeOK, [Next]_vars, NEW c \in Cleaners, NEW a \in plan'[c], a \notin plan[c]
  PROVE  /\ a.proj \in Projects /\ a.bucket \in Buckets
         /\ key[a.proj][a.bucket] = a.name /\ a.name # NoKey
         /\ cleared'[c] = cleared[c]
         /\ \/ /\ SweepBegin(c) /\ kind'[c] = "sweep" /\ ~hold[a.proj]
               /\ a.bucket # "thumbnails"
               /\ deleted[a.proj] \/ Expired(a.proj, a.bucket)
            \/ /\ a.proj \in purged'
               /\ DeleteFiles(c, a.proj) \/ AdminDelete(c, a.proj) \/ TriggerCleanup(c, a.proj)
<1> DEFINE Claim == /\ a.proj \in Projects /\ a.bucket \in Buckets
                    /\ key[a.proj][a.bucket] = a.name /\ a.name # NoKey
                    /\ cleared'[c] = cleared[c]
                    /\ \/ /\ SweepBegin(c) /\ kind'[c] = "sweep" /\ ~hold[a.proj]
                          /\ a.bucket # "thumbnails"
                          /\ deleted[a.proj] \/ Expired(a.proj, a.bucket)
                       \/ /\ a.proj \in purged'
                          /\ \/ DeleteFiles(c, a.proj) \/ AdminDelete(c, a.proj)
                             \/ TriggerCleanup(c, a.proj)
<1>1. CASE UNCHANGED cleanVars
  BY <1>1 DEF cleanVars
<1>2. ASSUME NEW d \in Cleaners, CleanerStep(d) PROVE Claim
  <2>1. CASE SweepBegin(d)
    <3>1. /\ plan' = [plan EXCEPT ![d] = UNION {Planned(p) : p \in Projects}]
          /\ kind' = [kind EXCEPT ![d] = "sweep"] /\ cleared' = cleared
      BY <2>1 DEF SweepBegin
    <3>2. c = d /\ \E p \in Projects : a \in Planned(p)
      BY <3>1 DEF TypeOK, CleanTypes
    <3>3. PICK p \in Projects : a \in Planned(p)
      BY <3>2
    <3>4. /\ ~hold[p]
          /\ a \in Named(p, {b \in Buckets \ {"thumbnails"} : deleted[p] \/ Expired(p, b)})
      BY <3>3 DEF Planned
    <3>5. /\ a.proj = p /\ a.bucket \in Buckets \ {"thumbnails"}
          /\ deleted[p] \/ Expired(p, a.bucket)
          /\ key[p][a.bucket] = a.name /\ a.name # NoKey
      BY <3>4 DEF Named
    <3> QED BY <2>1, <3>1, <3>2, <3>4, <3>5 DEF TypeOK, CleanTypes
  <2>2. ASSUME NEW p \in Projects, NEW gone, FilesBegin(d, p, gone),
               DeleteFiles(d, p) \/ AdminDelete(d, p) \/ TriggerCleanup(d, p)
        PROVE Claim
    <3>1. /\ plan' = [plan EXCEPT ![d] = Named(p, Buckets)]
          /\ purged' = purged \cup {p} /\ cleared' = cleared
      BY <2>2 DEF FilesBegin
    <3>2. c = d /\ a \in Named(p, Buckets)
      BY <3>1 DEF TypeOK, CleanTypes
    <3>3. /\ a.proj = p /\ a.bucket \in Buckets
          /\ key[p][a.bucket] = a.name /\ a.name # NoKey
      BY <3>2 DEF Named
    <3> QED BY <2>2, <3>1, <3>2, <3>3
  <2>3. CASE DeleteObject(d) \/ DeletionFails(d)
    BY <2>3 DEF DeleteObject, DeletionFails, Handled, TypeOK, CleanTypes
  <2>4. CASE Commit(d) \/ Crash(d)
    BY <2>4 DEF Commit, Crash, CleanerIdle, TypeOK, CleanTypes
  <2> QED BY <1>2, <2>1, <2>2, <2>3, <2>4
          DEF CleanerStep, DeleteFiles, AdminDelete, TriggerCleanup
<1> QED BY <1>1, <1>2, CleanWriters

----------------------------------------------------------------------------
(* Nothing is deleted while it is safe *)

\* Whose objects the rows of p may name.
Related(p, n) == Owner(n) = p \/ (p \in copied /\ Owner(n) \in copied)

\* A name on a row is the row's own, or both projects share their objects.
NamesInv == \A p \in Projects, b \in Buckets : key[p][b] # NoKey => Related(p, key[p][b])

\* What is planned was named by its project's row and is past its window, or the project is
\* deleted or purged; time does not run backwards, so this outlives the row.
PlanInv ==
  \A c \in Cleaners : \A a \in plan[c] :
    /\ Related(a.proj, a.name)
    /\ a.proj \in purged \/ deleted[a.proj] \/ ~InWindow(a.proj, a.bucket)

\* A preview that is stored and not yet named is there.
PutInv ==
  \A p \in Projects :
    pv[p] = "put" /\ Safe(p, "previews") => <<"previews", Own(p)>> \in stored

\* So is what the request completing an upload has stored, under the project's own names.
MadeInv ==
  \A p \in Projects :
    /\ up[p] = "idle" => made[p] = {}
    /\ made[p] \subseteq UploadBuckets
    /\ \A b \in Buckets : Owner(want[p][b]) = p
    /\ \A b \in made[p] : Safe(p, b) => <<b, want[p][b]>> \in stored

IInv == NamesInv /\ PlanInv /\ PutInv /\ MadeInv /\ InWindowIsKept

\* What is safe after a step was safe before it.
LEMMA SafeBefore ==
  ASSUME TypeOK, TypeOK', Onward, NEW p \in Projects, NEW b \in Buckets, Safe(p, b)'
  PROVE  Safe(p, b)
BY DEF TypeOK, ProjTypes, HistTypes, Onward, Safe, Family, InWindow

\* Projects that share an object are safe together.
LEMMA Together ==
  ASSUME NEW p \in Projects, NEW q \in Projects, NEW n, NEW b,
         Related(p, n), Related(q, n), Safe(p, b)
  PROVE  Safe(q, b) /\ q \in Family(p)
BY DEF Related, Safe, Family

LEMMA NamesStep ==
  ASSUME TypeOK, Onward, NamesInv, MadeInv, [Next]_vars
  PROVE  NamesInv'
<1> USE DEF TypeOK, ObjectTypes, UploadTypes
<1> SUFFICES ASSUME NEW p \in Projects, NEW b \in Buckets, key'[p][b] # NoKey
             PROVE  Related(p, key[p][b])'
  BY DEF NamesInv
<1>1. CASE key'[p][b] = key[p][b]
  BY <1>1 DEF NamesInv, Related, Onward
<1>2. ASSUME NEW q \in Projects, UploadCommits(q), key'[p][b] # key[p][b]
      PROVE  Related(p, key[p][b])'
  BY <1>2 DEF UploadCommits, MadeInv, Related
<1>3. ASSUME NEW q \in Projects, PreviewReady(q) \/ WorkerCommits(q), key'[p][b] # key[p][b]
      PROVE  Related(p, key[p][b])'
  <2>1. p = q /\ key'[p][b] = Own(p)
    BY <1>3 DEF PreviewReady, WorkerCommits
  <2> QED BY <2>1, Names DEF Related
<1>4. ASSUME NEW q \in Projects, NEW r \in Projects, Duplicate(q, r), key'[p][b] # key[p][b]
      PROVE  Related(p, key[p][b])'
  <2>1. p = r /\ key'[p][b] = key[q][b] /\ {p, q} \subseteq copied'
    BY <1>4 DEF Duplicate
  <2>2. Related(q, key[q][b])
    BY <1>4, <2>1 DEF NamesInv
  <2>3. Owner(key'[p][b]) \in copied' /\ p \in copied'
    BY <2>1, <2>2 DEF Related, Onward
  <2> QED BY <2>3 DEF Related
<1>5. ASSUME NEW c \in Cleaners, Commit(c) PROVE key'[p][b] = key[p][b]
  BY <1>5 DEF Commit
<1> QED BY <1>1, <1>2, <1>3, <1>4, <1>5, KeyWriters

LEMMA PlanStep ==
  ASSUME TypeOK, TypeOK', Onward, NamesInv, PlanInv, [Next]_vars
  PROVE  PlanInv'
<1> SUFFICES ASSUME NEW c \in Cleaners, NEW a \in plan'[c]
             PROVE  /\ Related(a.proj, a.name)'
                    /\ a.proj \in purged' \/ deleted'[a.proj] \/ ~InWindow(a.proj, a.bucket)'
  BY DEF PlanInv
<1>0. a.proj \in Projects
  BY DEF TypeOK, CleanTypes, Artifact
<1>1. InWindow(a.proj, a.bucket)' => InWindow(a.proj, a.bucket)
  BY <1>0 DEF TypeOK, ProjTypes, Onward, InWindow
<1>2. CASE a \in plan[c]
  BY <1>0, <1>1, <1>2 DEF PlanInv, Related, Onward
<1>3. CASE a \notin plan[c]
  <2>0. a.bucket \in Buckets /\ key[a.proj][a.bucket] = a.name /\ a.name # NoKey
    BY <1>3, PlansGrow
  <2>1. Related(a.proj, a.name)'
    BY <1>0, <2>0 DEF NamesInv, Related, Onward
  <2>2. Expired(a.proj, a.bucket) /\ a.bucket # "thumbnails" => ~InWindow(a.proj, a.bucket)
    BY <1>0 DEF Expired, InWindow, TypeOK, ProjTypes
  <2>3. a.proj \in purged' \/ deleted[a.proj] \/ ~InWindow(a.proj, a.bucket)
    BY <1>3, <2>2, PlansGrow
  <2> QED BY <1>0, <1>1, <2>1, <2>3 DEF Onward
<1> QED BY <1>2, <1>3

\* What is deleted is safe for nobody whose row may name it, except the original of a refused
\* upload that no row names.
LEMMA DeletedIsUnsafe ==
  ASSUME TypeOK, TypeOK', Onward, NamesInv, PlanInv, MadeInv, [Next]_vars,
         NEW b \in Buckets, NEW n \in Name, <<b, n>> \in stored, <<b, n>> \notin stored',
         NEW p \in Projects, Related(p, n), Safe(p, b)'
  PROVE  /\ b = "originals" /\ key[p][b] # n
         /\ \E q \in Projects : UploadRefused(q) /\ n = want[q][b]
<1>s. Safe(p, b)
  BY SafeBefore
<1>r. ASSUME NEW q \in Projects, Related(q, n) PROVE q \in Family(p)'
  BY <1>r DEF Related, Family, Onward
<1>1. ASSUME NEW c \in Cleaners, DeleteObject(c) PROVE FALSE
  <2>1. PICK a \in plan[c] : a.bucket = b /\ a.name = n
    BY <1>1 DEF DeleteObject
  <2>2. /\ a.proj \in Projects /\ Related(a.proj, n)
        /\ a.proj \in purged \/ deleted[a.proj] \/ ~InWindow(a.proj, b)
    BY <2>1 DEF PlanInv, TypeOK, CleanTypes, Artifact
  <2> QED BY <1>s, <2>2, Together DEF Safe, Family
<1>2. ASSUME NEW q \in Projects, UploadRefused(q)
      PROVE  b = "originals" /\ key[p][b] # n /\ n = want[q][b]
  <2>1. /\ b = "originals" /\ n = want[q]["originals"]
        /\ purged' = purged \cup {x \in {q} : \E r \in Projects : key[r]["originals"] = n}
    BY <1>2 DEF UploadRefused
  <2>2. q \notin purged'
    BY <1>r, <2>1 DEF MadeInv, Related, Safe
  <2> QED BY <2>1, <2>2
<1>3. ASSUME NEW q \in Projects, CancelDeletes(q) PROVE FALSE
  <2>1. n = key[q]["originals"] /\ q \in purged'
    BY <1>3, Names DEF CancelDeletes
  <2> QED BY <1>r, <2>1, Names DEF NamesInv, Safe
<1>4. ASSUME NEW q \in Projects, UploadPuts(q) \/ PreviewPut(q) \/ WorkerPuts(q)
      PROVE  FALSE
  BY <1>4 DEF UploadPuts, PreviewPut, WorkerPuts
<1> QED BY <1>1, <1>2, <1>3, <1>4, StoredWriters

LEMMA PreviewPuts ==
  ASSUME TypeOK, [Next]_vars, NEW p \in Projects, pv'[p] = "put", pv[p] # "put"
  PROVE  <<"previews", Own(p)>> \in stored'
<1> USE DEF TypeOK, WorkTypes
<1>1. CASE UNCHANGED prevVars
  BY <1>1 DEF prevVars
<1>2. ASSUME NEW q \in Projects, OwnerStep(q) PROVE UNCHANGED prevVars \/ pv'[p] # "put"
  BY <1>2 DEF OwnerStep, Initiate, Reinitiate, CompleteBegin, CancelDeletes, Duplicate, Delete,
     Process, PreviewBegin
<1>3. ASSUME NEW q \in Projects, UploadStep(q) \/ Fault(q) PROVE UNCHANGED prevVars
  BY <1>3 DEF UploadStep, UploadPuts, UploadRefused, UploadCommits, CancelCommits, Fault,
     UploadDies, CancelDies, WorkerDies, Redelivered, Reads
<1>4. ASSUME NEW q \in Projects, WorkerReads(q) \/ WorkerLoads(q) \/ WorkerPuts(q)
                                 \/ WorkerCommits(q) \/ WorkerFails(q)
      PROVE UNCHANGED prevVars
  BY <1>4 DEF WorkerReads, Reads, WorkerLoads, WorkerPuts, WorkerCommits, WorkerFails
<1>5. ASSUME NEW q \in Projects, PreviewReads(q) \/ PreviewReady(q) \/ PreviewFails(q)
      PROVE pv'[p] # "put"
  BY <1>5 DEF PreviewReads, PreviewReady, PreviewFails
<1>6. ASSUME NEW q \in Projects, PreviewPut(q) PROVE <<"previews", Own(p)>> \in stored'
  BY <1>6 DEF PreviewPut
<1>7. ASSUME NEW q \in Projects, AdminStep(q) \/ Time(q) PROVE UNCHANGED prevVars
  BY <1>7 DEF AdminStep, PlaceHold, RemoveHold, Unlock, AdminRetry, AdminCancel, Time, GrowOld,
     OutputGrowsOld
<1>8. ASSUME NEW c \in Cleaners, CleanerStep(c) PROVE UNCHANGED prevVars
  BY <1>8 DEF CleanerStep, SweepBegin, DeleteObject, DeletionFails, Handled, Commit, Crash,
     DeleteFiles, AdminDelete, TriggerCleanup, FilesBegin
<1> QED BY <1>1, <1>2, <1>3, <1>4, <1>5, <1>6, <1>7, <1>8 DEF Next, vars, ServerStep

LEMMA PutStep ==
  ASSUME TypeOK, TypeOK', Onward, NamesInv, PlanInv, MadeInv, PutInv, [Next]_vars
  PROVE  PutInv'
<1> SUFFICES ASSUME NEW p \in Projects, pv'[p] = "put", Safe(p, "previews")',
                    <<"previews", Own(p)>> \notin stored'
             PROVE  FALSE
  BY DEF PutInv
<1>1. CASE pv[p] = "put"
  <2>1. <<"previews", Own(p)>> \in stored
    BY <1>1, SafeBefore DEF PutInv
  <2>2. Related(p, Own(p)) /\ Own(p) \in Name
    BY Names DEF Related
  <2> QED BY <2>1, <2>2, DeletedIsUnsafe
<1>2. CASE pv[p] # "put"
  BY <1>2, PreviewPuts
<1> QED BY <1>1, <1>2

LEMMA MadeStep ==
  ASSUME TypeOK, TypeOK', Onward, NamesInv, PlanInv, MadeInv, [Next]_vars
  PROVE  MadeInv'
<1> USE DEF TypeOK, UploadTypes
<1> DEFINE Claim(p) == /\ up'[p] = "idle" => made'[p] = {}
                       /\ made'[p] \subseteq UploadBuckets
                       /\ \A b \in Buckets : Owner(want'[p][b]) = p
                       /\ \A b \in made'[p] : Safe(p, b)' => <<b, want'[p][b]>> \in stored'
\* What is stored stays there, or the request that stored it ends.
<1>k. ASSUME NEW p \in Projects, NEW b \in made[p], b \in made'[p], want'[p] = want[p], Safe(p, b)'
      PROVE  <<b, want'[p][b]>> \in stored'
  <2> SUFFICES ASSUME <<b, want[p][b]>> \notin stored' PROVE FALSE
    BY <1>k
  <2>1. b \in Buckets /\ want[p][b] \in Name /\ Related(p, want[p][b])
    BY DEF MadeInv, Related
  <2>2. <<b, want[p][b]>> \in stored
    BY <1>k, <2>1, SafeBefore DEF MadeInv
  <2>3. b = "originals" /\ \E q \in Projects : UploadRefused(q) /\ want[p][b] = want[q][b]
    BY <1>k, <2>1, <2>2, DeletedIsUnsafe
  <2>4. UploadRefused(p)
    BY <2>3 DEF MadeInv
  <2> QED BY <1>k, <2>4 DEF UploadRefused, UploadOver
<1>u. ASSUME NEW p \in Projects, want'[p] = want[p], made'[p] = made[p],
             up'[p] = "idle" => up[p] = "idle"
      PROVE  Claim(p)
  BY <1>u, <1>k DEF MadeInv
<1>o. ASSUME NEW p \in Projects, UploadOver(p), NEW r \in Projects PROVE Claim(r)
  <2>1. CASE r = p
    BY <1>o, <2>1, Names DEF UploadOver
  <2>2. CASE r # p
    BY <1>o, <1>u, <2>2 DEF UploadOver
  <2> QED BY <2>1, <2>2
<1>1. CASE UNCHANGED <<up, want, made>>
  BY <1>1, <1>u DEF MadeInv
<1>2. ASSUME NEW p \in Projects, NEW file \in Files, NEW proxy \in Files,
             CompleteBegin(p, file, proxy)
      PROVE  MadeInv'
  <2> SUFFICES ASSUME NEW r \in Projects PROVE Claim(r)
    BY DEF MadeInv
  <2> DEFINE names == [b \in Buckets |-> IF b = "originals" THEN <<p, file>>
                                         ELSE IF b = "proxies" THEN <<p, proxy>> ELSE Own(p)]
  <2>1. /\ want' = [want EXCEPT ![p] = names] /\ made' = made
        /\ up[p] = "idle" /\ up' = [up EXCEPT ![p] = "originals"]
    BY <1>2 DEF CompleteBegin
  <2>2. \A b \in Buckets : Owner(names[b]) = p
    BY Names
  <2>3. CASE r = p
    <3>1. made'[p] = {}
      BY <2>1 DEF MadeInv
    <3>2. want'[p] = names
      BY <2>1
    <3> QED BY <2>2, <2>3, <3>1, <3>2
  <2>4. CASE r # p
    <3>1. want'[r] = want[r] /\ made'[r] = made[r] /\ up'[r] = up[r]
      BY <2>1, <2>4
    <3> QED BY <1>u, <3>1
  <2> QED BY <2>3, <2>4
<1>3. ASSUME NEW p \in Projects, UploadPuts(p) PROVE MadeInv'
  <2> SUFFICES ASSUME NEW r \in Projects PROVE Claim(r)
    BY DEF MadeInv
  <2>1. /\ want' = want /\ up[p] \in UploadBuckets
        /\ up' = [up EXCEPT ![p] = After[up[p]]] /\ After[up[p]] # "idle"
        /\ \/ made' = made
           \/ /\ made' = [made EXCEPT ![p] = @ \cup {up[p]}]
              /\ stored' = stored \cup {<<up[p], want[p][up[p]]>>}
    BY <1>3 DEF UploadPuts, After
  <2>2. CASE made' = made
    BY <1>u, <2>1, <2>2
  <2>3. CASE made' # made /\ r = p
    BY <1>k, <2>1, <2>3 DEF MadeInv
  <2>4. CASE made' # made /\ r # p
    <3>1. want'[r] = want[r] /\ made'[r] = made[r] /\ up'[r] = up[r]
      BY <2>1, <2>4
    <3> QED BY <1>u, <3>1
  <2> QED BY <2>2, <2>3, <2>4
<1>4. ASSUME NEW p \in Projects, UploadOver(p) PROVE MadeInv'
  BY <1>4, <1>o DEF MadeInv
<1> QED BY <1>1, <1>2, <1>3, <1>4, UploadWriters
        DEF upVars, Initiate, Reinitiate, UploadRefused, UploadCommits, UploadDies, CancelDeletes,
            CancelCommits, CancelDies

LEMMA KeptStep ==
  ASSUME TypeOK, TypeOK', Onward, IInv, [Next]_vars
  PROVE  InWindowIsKept'
<1> USE DEF IInv
<1> SUFFICES ASSUME NEW p \in Projects, NEW b \in Buckets, key'[p][b] # NoKey, Safe(p, b)'
             PROVE  <<b, key'[p][b]>> \in stored'
  BY DEF InWindowIsKept
<1>s. Safe(p, b)
  BY SafeBefore
<1>1. CASE key'[p][b] = key[p][b]
  <2>1. <<b, key[p][b]>> \in stored /\ key[p][b] \in Name /\ Related(p, key[p][b])
    BY <1>1, <1>s DEF InWindowIsKept, NamesInv, TypeOK, ObjectTypes
  <2> QED BY <1>1, <2>1, DeletedIsUnsafe
<1>2. ASSUME NEW q \in Projects, UploadCommits(q), key'[p][b] # key[p][b]
      PROVE  <<b, key'[p][b]>> \in stored'
  <2>1. p = q /\ b \in made[p] /\ key'[p][b] = want[p][b] /\ stored' = stored
    BY <1>2 DEF UploadCommits, TypeOK, ObjectTypes
  <2> QED BY <1>s, <2>1 DEF MadeInv
<1>3. ASSUME NEW q \in Projects, PreviewReady(q), key'[p][b] # key[p][b]
      PROVE  <<b, key'[p][b]>> \in stored'
  <2>1. p = q /\ b = "previews" /\ key'[p][b] = Own(p) /\ stored' = stored /\ pv[p] = "put"
    BY <1>3 DEF PreviewReady, TypeOK, ObjectTypes
  <2> QED BY <1>s, <2>1 DEF PutInv
<1>4. ASSUME NEW q \in Projects, WorkerCommits(q), key'[p][b] # key[p][b]
      PROVE  FALSE
  <2>1. b = "outputs"
    BY <1>4 DEF WorkerCommits, TypeOK, ObjectTypes
  <2> QED BY <1>s, <2>1 DEF Safe, Family, InWindow
<1>5. ASSUME NEW q \in Projects, NEW r \in Projects, Duplicate(q, r), key'[p][b] # key[p][b]
      PROVE  <<b, key'[p][b]>> \in stored'
  <2>1. p = r /\ key'[p][b] = key[q][b] /\ {p, q} \subseteq copied' /\ stored' = stored
    BY <1>5 DEF Duplicate, TypeOK, ObjectTypes
  <2>2. Safe(q, b)'
    BY <2>1 DEF Safe, Family
  <2> QED BY <2>1, <2>2, SafeBefore DEF InWindowIsKept
<1>6. ASSUME NEW c \in Cleaners, Commit(c) PROVE key'[p][b] = key[p][b]
  BY <1>6 DEF Commit
<1> QED BY <1>1, <1>2, <1>3, <1>4, <1>5, <1>6, KeyWriters

LEMMA IInvInit == Init => IInv
<1> SUFFICES ASSUME Init PROVE IInv
  OBVIOUS
<1>1. NamesInv /\ InWindowIsKept
  BY DEF Init, NamesInv, InWindowIsKept
<1>2. PlanInv /\ PutInv
  BY DEF Init, PlanInv, PutInv
<1>3. MadeInv
  BY Names DEF Init, MadeInv
<1> QED BY <1>1, <1>2, <1>3 DEF IInv

LEMMA IInvStep == TypeOK /\ IInv /\ [Next]_vars => IInv'
BY TypeStep, OnwardStep, NamesStep, PlanStep, PutStep, MadeStep, KeptStep DEF IInv

\* While an artifact is safe, the object its row names exists: sweeps that overlap with
\* uploads, processing, previews and each other, and work on stale rows, delete nothing safe.
THEOREM WindowsRespected == Spec => []InWindowIsKept
<1>1. TypeOK /\ IInv /\ [Next]_vars => (TypeOK /\ IInv)'
  BY TypeStep, IInvStep
<1>2. IInv => InWindowIsKept
  BY DEF IInv
<1> QED BY TypeInit, IInvInit, <1>1, <1>2, PTL DEF Spec

----------------------------------------------------------------------------
(* Holds *)

\* While a project is on hold no deletion of its objects begins, except an
\* administrator's or on account of a project that shares them.
THEOREM HoldsRespected == Spec => HoldHolds
<1>1. ASSUME TypeOK, NamesInv, Onward, [Next]_vars, NEW p \in Projects, NEW file \in Files,
             NEW b \in Buckets,
             hold[p], ~Doomed(b, <<p, file>>), Untouched(p)', Doomed(b, <<p, file>>)'
      PROVE  FALSE
  <2>1. PICK c \in Cleaners : \E a \in plan'[c] : a.bucket = b /\ a.name = <<p, file>>
    BY <1>1 DEF Doomed
  <2>2. PICK a \in plan'[c] : a.bucket = b /\ a.name = <<p, file>>
    BY <2>1
  <2>3. a \notin plan[c]
    BY <1>1, <2>2 DEF Doomed
  <2>4. /\ a.proj \in Projects /\ key[a.proj][b] = a.name /\ a.name # NoKey
        /\ ~hold[a.proj] \/ a.proj \in purged'
    BY <1>1, <2>2, <2>3, PlansGrow
  <2>5. Related(a.proj, a.name) /\ Owner(a.name) = p
    BY <1>1, <2>2, <2>4, Names DEF NamesInv
  <2> QED BY <1>1, <2>4, <2>5 DEF Untouched, Related, Onward
<1>2. TypeOK /\ IInv /\ [Next]_vars =>
        [\A p \in Projects, file \in Files, b \in Buckets :
           hold[p] /\ hold'[p] /\ ~Doomed(b, <<p, file>>) /\ Untouched(p)'
             => ~Doomed(b, <<p, file>>)']_vars
  BY <1>1, OnwardStep DEF IInv
<1>3. TypeOK /\ IInv /\ [Next]_vars => (TypeOK /\ IInv)'
  BY TypeStep, IInvStep
<1> QED BY TypeInit, IInvInit, <1>2, <1>3, PTL DEF Spec, HoldHolds

----------------------------------------------------------------------------
(* No stray objects *)

\* The buckets of what an upload stores and names.
Sources == Buckets \ {"previews", "outputs", "audio"}

\* A row that does not exist names nothing, and neither uploads nor cleaners are at it.
RowsInv ==
  /\ \A p \in Projects : status[p] = "none" =>
       /\ upload[p] = "none" /\ up[p] = "idle" /\ cancel[p] = "idle"
       /\ \A b \in Buckets : key[p][b] = NoKey
  /\ \A c \in Cleaners : /\ \A a \in plan[c] : status[a.proj] # "none"
                         /\ \A e \in cleared[c] : status[e[1]] # "none"

\* Only an administrator's deletion clears a key whatever storage says.
FilesInv == \A c \in Cleaners : kind[c] = "files" => \A a \in plan[c] : a.proj \in purged

\* Without a second upload a project's objects have one name each.
PlainInv ==
  /\ \A b \in Buckets, n \in Name :
       <<b, n>> \in stored /\ (b = "outputs" \/ Owner(n) \notin again) => n = Own(Owner(n))
  /\ \A p \in Projects \ again, b \in Buckets : want[p][b] = Own(p)

\* No cleaner is after an artifact.
Unplanned(p, b) ==
  \A c \in Cleaners : /\ <<p, b>> \notin cleared[c]
                      /\ \A a \in plan[c] : ~(a.proj = p /\ a.bucket = b)

\* Until its first upload is completed a project names no source, and what is in storage was
\* put there by the request that is completing it or by one that ended.
FreshInv ==
  \A p \in Projects \ again :
    /\ cancel[p] = "idle"
    /\ up[p] # "idle" => upload[p] = "open" /\ had[p] \cap Sources = {}
    /\ upload[p] = "open" => \A b \in Sources : key[p][b] = NoKey /\ Unplanned(p, b)
    /\ upload[p] # "completed" =>
         \A b \in Sources :
           <<b, Own(p)>> \in stored => b \in made[p] \/ <<b, Own(p)>> \in abandoned

\* From then on a source is named by its own project's row as long as it exists, and a cleaner
\* that has the row's key cleared in memory, or is going to, has deleted or is going to
\* delete this object and not one the row shares with another.
SourceNamed(p, b) ==
  /\ key[p][b] = Own(p)
  /\ \A c \in Cleaners : /\ <<p, b>> \notin cleared[c]
                         /\ \A a \in plan[c] : a.proj = p /\ a.bucket = b => a.name = Own(p)
SourceInv ==
  \A p \in Projects \ (again \cup purged), b \in Sources :
    upload[p] = "completed" /\ <<b, Own(p)>> \in stored \ abandoned => SourceNamed(p, b)

\* The project's output is, or soon will be, subject to deletion.
Past(p) == p \in purged \/ deleted[p] \/ age[p] = 2

\* Until then no cleaner is after the output, and the key the worker found set on its row is
\* still set at the commit that, for that reason, does not write it.
OutputNamed(p) ==
  /\ outAge[p] # 2
  /\ wkHad[p] => key[p]["outputs"] = Own(p)
  /\ <<"outputs", Own(p)>> \in stored =>
       key[p]["outputs"] = Own(p) \/ wk[p] = "put" \/ <<"outputs", Own(p)>> \in abandoned
  /\ Unplanned(p, "outputs")
OutputInv ==
  \A p \in Projects : key[p]["outputs"] \in {Own(p), NoKey} /\ (~Past(p) => OutputNamed(p))

StrayInv == RowsInv /\ FilesInv /\ PlainInv /\ FreshInv /\ SourceInv /\ OutputInv

LEMMA StrayInit == Init => StrayInv
<1> SUFFICES ASSUME Init PROVE StrayInv
  OBVIOUS
<1>1. RowsInv
  BY DEF Init, RowsInv
<1>2. FilesInv /\ PlainInv
  BY DEF Init, FilesInv, PlainInv
<1>3. FreshInv
  BY DEF Init, FreshInv
<1>4. SourceInv
  BY DEF Init, SourceInv
<1>5. ASSUME NEW p \in Projects PROVE key[p]["outputs"] = NoKey /\ OutputNamed(p)
  BY DEF Init, OutputNamed, Unplanned
<1>6. OutputInv
  BY <1>5 DEF OutputInv
<1> QED BY <1>1, <1>2, <1>3, <1>4, <1>6 DEF StrayInv

\* A cleaner notes that a key is to be cleared when it has deleted the object, or, for an
\* administrator, failed to.
LEMMA ClearedGrow ==
  ASSUME TypeOK, [Next]_vars, NEW c \in Cleaners, NEW e \in cleared'[c], e \notin cleared[c]
  PROVE  \E a \in plan[c] : /\ e = <<a.proj, a.bucket>>
                            /\ <<a.bucket, a.name>> \notin stored' \/ kind[c] = "files"
<1> USE DEF TypeOK, CleanTypes
<1>1. CASE UNCHANGED cleanVars
  BY <1>1 DEF cleanVars
<1>2. ASSUME NEW d \in Cleaners, CleanerStep(d)
      PROVE  \E a \in plan[c] : /\ e = <<a.proj, a.bucket>>
                                /\ <<a.bucket, a.name>> \notin stored' \/ kind[c] = "files"
  <2>1. CASE SweepBegin(d)
    BY <2>1 DEF SweepBegin
  <2>2. ASSUME NEW p \in Projects, NEW gone, FilesBegin(d, p, gone) PROVE FALSE
    BY <2>2 DEF FilesBegin
  <2>3. CASE DeleteObject(d)
    <3>1. PICK a \in plan[d] : /\ cleared' = [cleared EXCEPT ![d] = @ \cup {<<a.proj, a.bucket>>}]
                               /\ <<a.bucket, a.name>> \notin stored'
      BY <2>3 DEF DeleteObject, Handled
    <3> QED BY <3>1
  <2>4. CASE DeletionFails(d)
    <3>1. PICK a \in plan[d] : Handled(d, a, kind[d] = "files")
      BY <2>4 DEF DeletionFails
    <3>2. /\ cleared' = [cleared EXCEPT ![d] = @ \cup {<<a.proj, a.bucket>>}]
          /\ kind[d] = "files"
      BY <3>1 DEF Handled
    <3> QED BY <3>2
  <2>5. CASE Commit(d) \/ Crash(d)
    BY <2>5 DEF Commit, Crash, CleanerIdle
  <2> QED BY <1>2, <2>1, <2>2, <2>3, <2>4, <2>5
          DEF CleanerStep, DeleteFiles, AdminDelete, TriggerCleanup
<1> QED BY <1>1, <1>2, CleanWriters

\* An object is no longer somebody's leftover only once it is named.
LEMMA AbandonedWriters ==
  ASSUME [Next]_vars
  PROVE  abandoned \subseteq abandoned' \/ \E p \in Projects : UploadCommits(p) \/ WorkerCommits(p)
<1>1. CASE UNCHANGED vars
  BY <1>1 DEF vars, histVars, pastVars
<1>2. ASSUME NEW p \in Projects, OwnerStep(p) PROVE abandoned' = abandoned
  BY <1>2 DEF OwnerStep, Initiate, Reinitiate, CompleteBegin, CancelDeletes, Duplicate, Delete,
     Process, PreviewBegin, histVars, pastVars
<1>3. ASSUME NEW p \in Projects, UploadStep(p), ~UploadCommits(p) PROVE abandoned' = abandoned
  BY <1>3 DEF UploadStep, UploadPuts, UploadRefused, CancelCommits, histVars, pastVars
<1>4. ASSUME NEW p \in Projects, ServerStep(p), ~WorkerCommits(p)
      PROVE  abandoned \subseteq abandoned'
  BY <1>4 DEF ServerStep, PreviewReads, PreviewPut, PreviewReady, PreviewFails, WorkerReads, Reads,
     WorkerLoads, WorkerPuts, WorkerFails, OutputAbandoned, histVars, pastVars
<1>5. ASSUME NEW p \in Projects, Fault(p) PROVE abandoned \subseteq abandoned'
  BY <1>5 DEF Fault, UploadDies, CancelDies, WorkerDies, Redelivered, Reads, OutputAbandoned,
     histVars, pastVars
<1>6. ASSUME NEW p \in Projects, AdminStep(p) \/ Time(p) PROVE abandoned' = abandoned
  BY <1>6 DEF AdminStep, PlaceHold, RemoveHold, Unlock, AdminRetry, AdminCancel, Time, GrowOld,
     OutputGrowsOld, histVars, pastVars
<1>7. ASSUME NEW c \in Cleaners, CleanerStep(c) PROVE abandoned' = abandoned
  BY <1>7 DEF CleanerStep, SweepBegin, DeleteObject, DeletionFails, Handled, Commit, Crash,
     DeleteFiles, AdminDelete, TriggerCleanup, FilesBegin, histVars, pastVars
<1> QED BY <1>1, <1>2, <1>3, <1>4, <1>5, <1>6, <1>7 DEF Next

LEMMA WorkWriters ==
  ASSUME [Next]_vars
  PROVE  \/ UNCHANGED <<wk, wkHad>>
         \/ \E p \in Projects : \/ Reads(p) \/ WorkerLoads(p) \/ WorkerPuts(p)
                                \/ WorkerCommits(p) \/ WorkerFails(p) \/ WorkerDies(p)
<1>1. CASE UNCHANGED vars
  BY <1>1 DEF vars, workVars
<1>2. ASSUME NEW p \in Projects, OwnerStep(p) PROVE UNCHANGED <<wk, wkHad>>
  BY <1>2 DEF OwnerStep, Initiate, Reinitiate, CompleteBegin, CancelDeletes, Duplicate, Delete,
     Process, PreviewBegin, workVars
<1>3. ASSUME NEW p \in Projects, UploadStep(p) PROVE UNCHANGED <<wk, wkHad>>
  BY <1>3 DEF UploadStep, UploadPuts, UploadRefused, UploadCommits, CancelCommits, workVars
<1>4. ASSUME NEW p \in Projects, ServerStep(p)
      PROVE  \/ UNCHANGED <<wk, wkHad>>
             \/ Reads(p) \/ WorkerLoads(p) \/ WorkerPuts(p) \/ WorkerCommits(p) \/ WorkerFails(p)
  BY <1>4 DEF ServerStep, PreviewReads, PreviewPut, PreviewReady, PreviewFails, WorkerReads,
     workVars
<1>5. ASSUME NEW p \in Projects, Fault(p)
      PROVE  UNCHANGED <<wk, wkHad>> \/ Reads(p) \/ WorkerDies(p)
  BY <1>5 DEF Fault, UploadDies, CancelDies, Redelivered, workVars
<1>6. ASSUME NEW p \in Projects, AdminStep(p) \/ Time(p) PROVE UNCHANGED <<wk, wkHad>>
  BY <1>6 DEF AdminStep, PlaceHold, RemoveHold, Unlock, AdminRetry, AdminCancel, Time, GrowOld,
     OutputGrowsOld, workVars
<1>7. ASSUME NEW c \in Cleaners, CleanerStep(c) PROVE UNCHANGED <<wk, wkHad>>
  BY <1>7 DEF CleanerStep, SweepBegin, DeleteObject, DeletionFails, Handled, Commit, Crash,
     DeleteFiles, AdminDelete, TriggerCleanup, FilesBegin, workVars
<1> QED BY <1>1, <1>2, <1>3, <1>4, <1>5, <1>6, <1>7 DEF Next

\* Outputs outlive their window only on old projects.
LEMMA OutputsAge ==
  ASSUME TypeOK, [Next]_vars, NEW p \in Projects, outAge'[p] = 2, outAge[p] # 2
  PROVE  age'[p] = 2
<1> USE DEF TypeOK, ProjTypes
<1>1. CASE UNCHANGED outAge
  BY <1>1
<1>j. ASSUME NEW q \in Projects, JobFails(q) PROVE FALSE
  BY <1>j DEF JobFails
<1>2. ASSUME NEW q \in Projects, OwnerStep(q) PROVE FALSE
  BY <1>2 DEF OwnerStep, Initiate, Reinitiate, CompleteBegin, CancelDeletes, Duplicate, Delete,
     Process, PreviewBegin, projVars
<1>3. ASSUME NEW q \in Projects, UploadStep(q) PROVE FALSE
  BY <1>3 DEF UploadStep, UploadPuts, UploadRefused, UploadCommits, CancelCommits, projVars
<1>4. ASSUME NEW q \in Projects, ServerStep(q) PROVE FALSE
  BY <1>4, <1>j DEF ServerStep, PreviewReads, PreviewPut, PreviewReady, PreviewFails,
     WorkerReads, Reads,
     WorkerLoads, WorkerPuts, WorkerCommits, WorkerFails, projVars
<1>5. ASSUME NEW q \in Projects, Fault(q) PROVE FALSE
  BY <1>5, <1>j DEF Fault, UploadDies, CancelDies, WorkerDies, Redelivered, Reads, projVars
<1>6. ASSUME NEW q \in Projects, AdminStep(q) \/ GrowOld(q) PROVE FALSE
  BY <1>6 DEF AdminStep, PlaceHold, RemoveHold, Unlock, AdminRetry, AdminCancel, GrowOld, projVars
<1>7. ASSUME NEW q \in Projects, OutputGrowsOld(q) PROVE age'[p] = 2
  BY <1>7 DEF OutputGrowsOld
<1>8. ASSUME NEW c \in Cleaners, CleanerStep(c) PROVE FALSE
  BY <1>8 DEF CleanerStep, SweepBegin, DeleteObject, DeletionFails, Handled, Commit, Crash,
     DeleteFiles, AdminDelete, TriggerCleanup, FilesBegin, projVars
<1> QED BY <1>1, <1>2, <1>3, <1>4, <1>5, <1>6, <1>7, <1>8 DEF Next, Time, vars, projVars

LEMMA RowsStep ==
  ASSUME TypeOK, TypeOK', Onward, RowsInv, [Next]_vars
  PROVE  RowsInv'
<1>1. ASSUME NEW c \in Cleaners, NEW a \in plan'[c] PROVE status'[a.proj] # "none"
  <2>1. a.proj \in Projects
    BY DEF TypeOK, CleanTypes, Artifact
  <2>2. CASE a \in plan[c]
    BY <2>1, <2>2 DEF RowsInv, Onward
  <2>3. CASE a \notin plan[c]
    <3>1. a.bucket \in Buckets /\ key[a.proj][a.bucket] # NoKey
      BY <2>3, PlansGrow
    <3> QED BY <2>1, <3>1 DEF RowsInv, Onward
  <2> QED BY <2>2, <2>3
<1>2. ASSUME NEW c \in Cleaners, NEW e \in cleared'[c] PROVE status'[e[1]] # "none"
  <2>1. CASE e \in cleared[c]
    <3>1. e[1] \in Projects
      BY <2>1 DEF TypeOK, CleanTypes
    <3> QED BY <2>1, <3>1 DEF RowsInv, Onward
  <2>2. CASE e \notin cleared[c]
    <3>1. PICK a \in plan[c] : e = <<a.proj, a.bucket>>
      BY <2>2, ClearedGrow
    <3>2. a.proj \in Projects
      BY DEF TypeOK, CleanTypes, Artifact
    <3> QED BY <3>1, <3>2 DEF RowsInv, Onward
  <2> QED BY <2>1, <2>2
<1> USE DEF TypeOK, ProjTypes, ObjectTypes, UploadTypes
<1>3. ASSUME NEW p \in Projects, status'[p] = "none", NEW b \in Buckets PROVE key'[p][b] = NoKey
  <2>1. /\ status[p] = "none" /\ up[p] = "idle" /\ key[p][b] = NoKey
    BY <1>3 DEF RowsInv, Onward
  <2>2. ASSUME NEW q \in Projects, UploadCommits(q) PROVE key'[p] = key[p]
    BY <2>1, <2>2 DEF UploadCommits
  <2>3. ASSUME NEW q \in Projects, PreviewReady(q) \/ WorkerCommits(q) PROVE key'[p] = key[p]
    BY <1>3, <2>3 DEF PreviewReady, WorkerCommits
  <2>4. ASSUME NEW q \in Projects, NEW r \in Projects, Duplicate(q, r) PROVE key'[p] = key[p]
    BY <1>3, <2>4 DEF Duplicate
  <2>5. ASSUME NEW c \in Cleaners, Commit(c) PROVE key'[p][b] = NoKey
    BY <2>1, <2>5 DEF Commit
  <2> QED BY <2>1, <2>2, <2>3, <2>4, <2>5, KeyWriters
<1>4. ASSUME NEW p \in Projects, status'[p] = "none"
      PROVE  upload'[p] = "none" /\ up'[p] = "idle" /\ cancel'[p] = "idle"
  <2>1. status[p] = "none" /\ upload[p] = "none" /\ up[p] = "idle" /\ cancel[p] = "idle"
    BY <1>4 DEF RowsInv, Onward
  <2>2. CASE UNCHANGED upVars
    BY <2>1, <2>2 DEF upVars
  <2>3. ASSUME NEW q \in Projects, Initiate(q) \/ Reinitiate(q)
        PROVE  q # p /\ UNCHANGED <<up, cancel>> /\ upload' = [upload EXCEPT ![q] = "open"]
    BY <1>4, <2>1, <2>3 DEF Initiate, Reinitiate
  <2>4. ASSUME NEW q \in Projects, NEW file \in Files, NEW proxy \in Files,
               CompleteBegin(q, file, proxy)
        PROVE  q # p /\ UNCHANGED <<upload, cancel>> /\ up' = [up EXCEPT ![q] = "originals"]
    BY <2>1, <2>4 DEF CompleteBegin
  <2>5. ASSUME NEW q \in Projects, UploadPuts(q) \/ UploadRefused(q) \/ UploadDies(q)
        PROVE  UNCHANGED <<upload, cancel>> /\ up'[p] = up[p]
    BY <2>1, <2>5 DEF UploadPuts, UploadRefused, UploadDies, UploadOver
  <2>6. ASSUME NEW q \in Projects, UploadCommits(q)
        PROVE  q # p /\ cancel' = cancel /\ upload'[p] = upload[p] /\ up'[p] = up[p]
    BY <2>1, <2>6 DEF UploadCommits, UploadOver
  <2>7. ASSUME NEW q \in Projects, CancelDeletes(q) \/ CancelCommits(q) \/ CancelDies(q)
        PROVE  upload'[p] = upload[p] /\ up' = up /\ cancel'[p] = cancel[p]
    BY <2>1, <2>7 DEF CancelDeletes, CancelCommits, CancelDies
  <2> QED BY <2>1, <2>2, <2>3, <2>4, <2>5, <2>6, <2>7, UploadWriters
<1> QED BY <1>1, <1>2, <1>3, <1>4 DEF RowsInv

LEMMA FilesStep ==
  ASSUME TypeOK, Onward, FilesInv, [Next]_vars
  PROVE  FilesInv'
<1> USE DEF TypeOK, CleanTypes
<1> SUFFICES ASSUME NEW c \in Cleaners, kind'[c] = "files", NEW a \in plan'[c]
             PROVE  a.proj \in purged'
  BY DEF FilesInv
<1>1. CASE kind[c] = "files" /\ a \in plan[c]
  BY <1>1 DEF FilesInv, Onward
<1>2. CASE a \notin plan[c]
  BY <1>2, PlansGrow
<1>3. CASE kind[c] # "files" /\ a \in plan[c]
  <2>1. CASE UNCHANGED cleanVars
    BY <1>3, <2>1 DEF cleanVars
  <2>2. ASSUME NEW d \in Cleaners, SweepBegin(d) \/ Commit(d) \/ Crash(d) PROVE FALSE
    BY <1>3, <2>2 DEF SweepBegin, Commit, Crash, CleanerIdle
  <2>3. ASSUME NEW d \in Cleaners, DeleteObject(d) \/ DeletionFails(d) PROVE FALSE
    BY <1>3, <2>3 DEF DeleteObject, DeletionFails, Handled
  <2>4. ASSUME NEW d \in Cleaners, NEW p \in Projects, NEW gone, FilesBegin(d, p, gone)
        PROVE  a.proj \in purged'
    <3>1. c = d /\ plan'[c] = Named(p, Buckets) /\ p \in purged'
      BY <1>3, <2>4 DEF FilesBegin
    <3> QED BY <3>1 DEF Named
  <2> QED BY <2>1, <2>2, <2>3, <2>4, CleanWriters
          DEF CleanerStep, DeleteFiles, AdminDelete, TriggerCleanup
<1> QED BY <1>1, <1>2, <1>3

LEMMA PlainStep ==
  ASSUME TypeOK, Onward, MadeInv, PlainInv, [Next]_vars
  PROVE  PlainInv'
<1> USE DEF TypeOK, UploadTypes
<1>1. ASSUME NEW b \in Buckets, NEW n \in Name, <<b, n>> \in stored',
             b = "outputs" \/ Owner(n) \notin again'
      PROVE  n = Own(Owner(n))
  <2>1. CASE <<b, n>> \in stored
    BY <1>1, <2>1 DEF PlainInv, Onward
  <2>2. ASSUME <<b, n>> \notin stored, NEW p \in Projects, UploadPuts(p) PROVE n = Own(Owner(n))
    <3>1. b = up[p] /\ b \in UploadBuckets /\ n = want[p][b]
      BY <1>1, <2>2 DEF UploadPuts
    <3>2. Owner(n) = p /\ p \notin again
      BY <1>1, <3>1 DEF MadeInv, Onward
    <3> QED BY <3>1, <3>2 DEF PlainInv
  <2>3. ASSUME <<b, n>> \notin stored, NEW p \in Projects, PreviewPut(p) \/ WorkerPuts(p)
        PROVE  n = Own(Owner(n))
    BY <1>1, <2>3, Names DEF PreviewPut, WorkerPuts
  <2>4. ASSUME <<b, n>> \notin stored, NEW p \in Projects, UploadRefused(p) \/ CancelDeletes(p)
        PROVE  FALSE
    BY <1>1, <2>4 DEF UploadRefused, CancelDeletes
  <2>5. ASSUME <<b, n>> \notin stored, NEW c \in Cleaners, DeleteObject(c) PROVE FALSE
    BY <1>1, <2>5 DEF DeleteObject
  <2> QED BY <1>1, <2>1, <2>2, <2>3, <2>4, <2>5, StoredWriters
<1>2. ASSUME NEW p \in Projects, p \notin again', NEW b \in Buckets PROVE want'[p][b] = Own(p)
  <2>1. want[p][b] = Own(p)
    BY <1>2 DEF PlainInv, Onward
  <2>2. CASE want' = want
    BY <2>1, <2>2
  <2>3. ASSUME NEW q \in Projects, NEW file \in Files, NEW proxy \in Files,
               CompleteBegin(q, file, proxy)
        PROVE  want'[p][b] = Own(p)
    <3>1. CASE q = p
      BY <1>2, <2>3, <3>1 DEF CompleteBegin, Own, Onward
    <3>2. CASE q # p
      BY <2>1, <2>3, <3>2 DEF CompleteBegin
    <3> QED BY <3>1, <3>2
  <2>4. ASSUME NEW q \in Projects, UploadOver(q) PROVE want'[p][b] = Own(p)
    BY <2>1, <2>4 DEF UploadOver
  <2> QED BY <2>2, <2>3, <2>4, UploadWriters
          DEF upVars, Initiate, Reinitiate, UploadPuts, UploadRefused, UploadCommits, UploadDies,
              CancelDeletes, CancelCommits, CancelDies
<1> QED BY <1>1, <1>2 DEF PlainInv

\* What the requests of p may still come to, as long as it has no second upload.
LEMMA UploadsOnward ==
  ASSUME TypeOK, Onward, RowsInv, MadeInv, FreshInv, [Next]_vars,
         NEW p \in Projects, p \notin again'
  PROVE  /\ cancel'[p] = "idle"
         /\ upload'[p] = "open" => upload[p] = "open" \/ status[p] = "none"
         /\ upload'[p] # "completed" => upload[p] # "completed"
         /\ upload'[p] = "completed" => upload[p] = "completed" \/ UploadCommits(p)
<1> USE DEF TypeOK, UploadTypes
<1> DEFINE Claim == /\ cancel'[p] = "idle"
                    /\ upload'[p] = "open" => upload[p] = "open" \/ status[p] = "none"
                    /\ upload'[p] # "completed" => upload[p] # "completed"
                    /\ upload'[p] = "completed" => upload[p] = "completed" \/ UploadCommits(p)
<1>1. p \notin again /\ cancel[p] = "idle"
  BY DEF FreshInv, Onward
<1>2. CASE UNCHANGED <<upload, cancel>>
  BY <1>1, <1>2
<1>3. ASSUME NEW q \in Projects, Initiate(q) PROVE Claim
  BY <1>1, <1>3 DEF Initiate, RowsInv
<1>4. ASSUME NEW q \in Projects, Reinitiate(q) \/ CancelDeletes(q) PROVE Claim
  BY <1>1, <1>4 DEF Reinitiate, CancelDeletes
<1>5. ASSUME NEW q \in Projects, CancelCommits(q) \/ CancelDies(q) PROVE Claim
  BY <1>1, <1>5 DEF CancelCommits, CancelDies
<1>6. ASSUME NEW q \in Projects, UploadCommits(q) PROVE Claim
  <2>1. cancel' = cancel /\ upload' = [upload EXCEPT ![q] = "completed"]
    BY <1>6 DEF UploadCommits
  <2>2. CASE q = p
    BY <1>1, <1>6, <2>1, <2>2
  <2>3. CASE q # p
    BY <1>1, <2>1, <2>3
  <2> QED BY <2>2, <2>3
<1> QED BY <1>2, <1>3, <1>4, <1>5, <1>6, UploadWriters
        DEF upVars, CompleteBegin, UploadPuts, UploadRefused, UploadDies

\* Neither its columns nor what the request completing its upload has done are lost.
LEMMA HadStep ==
  ASSUME TypeOK, Onward, RowsInv, FreshInv, [Next]_vars, NEW p \in Projects, p \notin again',
         up'[p] # "idle"
  PROVE  upload'[p] = "open" /\ had'[p] \cap Sources = {}
<1> USE DEF TypeOK, UploadTypes
<1>1. p \notin again /\ (up[p] # "idle" => upload[p] = "open" /\ had[p] \cap Sources = {})
  BY DEF FreshInv, Onward
<1>2. CASE UNCHANGED upVars
  BY <1>1, <1>2 DEF upVars
<1>3. ASSUME NEW q \in Projects, Initiate(q) PROVE upload'[p] = "open" /\ had'[p] \cap Sources = {}
  BY <1>1, <1>3 DEF Initiate
<1>4. ASSUME NEW q \in Projects, Reinitiate(q) \/ CancelDeletes(q)
      PROVE  upload'[p] = "open" /\ had'[p] \cap Sources = {}
  BY <1>1, <1>4 DEF Reinitiate, CancelDeletes
<1>5. ASSUME NEW q \in Projects, NEW file \in Files, NEW proxy \in Files,
             CompleteBegin(q, file, proxy)
      PROVE  upload'[p] = "open" /\ had'[p] \cap Sources = {}
  <2>1. CASE q = p
    <3>1. upload'[p] = "open" /\ \A b \in Sources : key[p][b] = NoKey
      BY <1>1, <1>5, <2>1 DEF CompleteBegin, FreshInv
    <3>2. \A b \in Sources : b \in had'[p] =>
            key[p][b] \in {<<p, file>>, <<p, proxy>>, Own(p)}
      BY <1>5, <2>1 DEF CompleteBegin, Sources
    <3>3. <<p, file>> # NoKey /\ <<p, proxy>> # NoKey /\ Own(p) # NoKey
      <4>1. <<p, file>> \in Projects \X Files /\ <<p, proxy>> \in Projects \X Files
        BY <1>5
      <4> QED BY <4>1, RetentionAssumption DEF Own
    <3>4. ASSUME NEW b \in Sources, b \in had'[p] PROVE FALSE
      BY <3>1, <3>2, <3>3, <3>4
    <3> QED BY <3>1, <3>4
  <2>2. CASE q # p
    BY <1>1, <1>5, <2>2 DEF CompleteBegin
  <2> QED BY <2>1, <2>2
<1>6. ASSUME NEW q \in Projects, UploadPuts(q)
      PROVE  upload'[p] = "open" /\ had'[p] \cap Sources = {}
  BY <1>1, <1>6 DEF UploadPuts
<1>7. ASSUME NEW q \in Projects, UploadRefused(q) \/ UploadDies(q) \/ UploadCommits(q)
      PROVE  upload'[p] = "open" /\ had'[p] \cap Sources = {}
  <2>1. q # p /\ up'[p] = up[p] /\ had'[p] = had[p]
    BY <1>7 DEF UploadRefused, UploadDies, UploadCommits, UploadOver
  <2>2. upload'[p] = upload[p]
    BY <1>7, <2>1 DEF UploadRefused, UploadDies, UploadCommits
  <2> QED BY <1>1, <2>1, <2>2
<1>8. ASSUME NEW q \in Projects, CancelCommits(q) \/ CancelDies(q)
      PROVE  upload'[p] = "open" /\ had'[p] \cap Sources = {}
  <2>1. UNCHANGED <<up, had>> /\ (upload'[p] = upload[p] \/ q = p)
    BY <1>8 DEF CancelCommits, CancelDies
  <2>2. q = p => CancelDies(p)
    BY <1>1, <1>8 DEF CancelCommits, FreshInv
  <2> QED BY <1>1, <1>8, <2>1, <2>2 DEF CancelDies
<1> QED BY <1>2, <1>3, <1>4, <1>5, <1>6, <1>7, <1>8, UploadWriters

\* A source that is not named yet does not get a name, or a cleaner, but by the commit.
LEMMA UnnamedStep ==
  ASSUME TypeOK, TypeOK', Onward, RowsInv, FreshInv, MadeInv, [Next]_vars,
         NEW p \in Projects, p \notin again', upload'[p] = "open", NEW b \in Sources
  PROVE  key'[p][b] = NoKey /\ Unplanned(p, b)'
<1>1. b \in Buckets /\ b \notin {"previews", "outputs"} /\ p \notin again
  BY DEF Sources, Onward
<1>2. upload[p] = "open" \/ status[p] = "none"
  BY UploadsOnward
<1>3. key[p][b] = NoKey /\ Unplanned(p, b)
  <2>1. CASE upload[p] = "open"
    BY <1>1, <2>1 DEF FreshInv
  <2>2. CASE status[p] = "none"
    <3>1. key[p][b] = NoKey
      BY <1>1, <2>2 DEF RowsInv
    <3>2. ASSUME NEW c \in Cleaners, <<p, b>> \in cleared[c] PROVE FALSE
      <4>1. <<p, b>>[1] = p
        OBVIOUS
      <4> QED BY <2>2, <3>2, <4>1 DEF RowsInv
    <3>3. ASSUME NEW c \in Cleaners, NEW a \in plan[c], a.proj = p PROVE FALSE
      BY <2>2, <3>3 DEF RowsInv
    <3> QED BY <3>1, <3>2, <3>3 DEF Unplanned
  <2> QED BY <1>2, <2>1, <2>2
<1>4. key'[p][b] = NoKey
  <2> USE DEF TypeOK, ProjTypes, ObjectTypes, UploadTypes
  <2>2. ASSUME NEW q \in Projects, UploadCommits(q) PROVE key'[p] = key[p]
    BY <2>2 DEF UploadCommits
  <2>3. ASSUME NEW q \in Projects, PreviewReady(q) \/ WorkerCommits(q) PROVE key'[p][b] = key[p][b]
    <3>1. CASE PreviewReady(q)
      <4>1. key' = [key EXCEPT ![q]["previews"] = IF pvHad[q] THEN @ ELSE Own(q)]
        BY <3>1 DEF PreviewReady
      <4> QED BY <1>1, <4>1
    <3>2. CASE WorkerCommits(q)
      <4>1. CASE key' = key
        BY <4>1
      <4>2. CASE key' = [key EXCEPT ![q]["outputs"] = IF wkHad[q] THEN @ ELSE Own(q)]
        BY <1>1, <4>2
      <4> QED BY <3>2, <4>1, <4>2 DEF WorkerCommits
    <3> QED BY <2>3, <3>1, <3>2
  <2>4. ASSUME NEW q \in Projects, NEW r \in Projects, Duplicate(q, r) PROVE key'[p] = key[p]
    <3>1. r # p
      BY <2>4 DEF Duplicate, RowsInv, upVars
    <3> QED BY <2>4, <3>1 DEF Duplicate
  <2>5. ASSUME NEW c \in Cleaners, Commit(c) PROVE key'[p][b] = NoKey
    BY <1>1, <1>3, <2>5 DEF Commit
  <2> QED BY <1>3, <2>2, <2>3, <2>4, <2>5, KeyWriters
<1>5. Unplanned(p, b)'
  <2>1. ASSUME NEW c \in Cleaners, NEW a \in plan'[c], a.proj = p, a.bucket = b PROVE FALSE
    <3>1. a \notin plan[c]
      BY <1>3, <2>1 DEF Unplanned
    <3> QED BY <1>3, <2>1, <3>1, PlansGrow
  <2>2. ASSUME NEW c \in Cleaners, <<p, b>> \in cleared'[c] PROVE FALSE
    <3>1. <<p, b>> \notin cleared[c]
      BY <1>3 DEF Unplanned
    <3>2. PICK a \in plan[c] : <<p, b>> = <<a.proj, a.bucket>>
      BY <2>2, <3>1, ClearedGrow
    <3> QED BY <1>3, <3>2 DEF Unplanned
  <2> QED BY <2>1, <2>2 DEF Unplanned
<1> QED BY <1>4, <1>5

\* An object that a request has stored stays on record until it is named.
LEMMA OnRecordStep ==
  ASSUME TypeOK, Onward, MadeInv, PlainInv, FreshInv, [Next]_vars, NEW p \in Projects,
         p \notin again', upload[p] # "completed", upload'[p] # "completed", NEW b \in Sources,
         <<b, Own(p)>> \in stored'
  PROVE  b \in made'[p] \/ <<b, Own(p)>> \in abandoned'
<1> USE DEF TypeOK, UploadTypes
<1>1. /\ b \in Buckets /\ b \notin {"previews", "outputs", "audio"} /\ p \notin again
      /\ \A q \in Projects, x \in Buckets : want[q][x] = Own(p) => q = p
      /\ want[p][b] = Own(p)
  BY Names DEF Sources, Onward, MadeInv, PlainInv
<1>2. CASE <<b, Own(p)>> \notin stored
  <2>1. ASSUME NEW q \in Projects, UploadPuts(q) PROVE b \in made'[p]
    BY <1>1, <1>2, <2>1 DEF UploadPuts
  <2>2. ASSUME NEW q \in Projects, PreviewPut(q) \/ WorkerPuts(q) PROVE FALSE
    BY <1>1, <1>2, <2>2 DEF PreviewPut, WorkerPuts
  <2>3. ASSUME NEW q \in Projects, UploadRefused(q) \/ CancelDeletes(q) PROVE FALSE
    BY <1>2, <2>3 DEF UploadRefused, CancelDeletes
  <2>4. ASSUME NEW c \in Cleaners, DeleteObject(c) PROVE FALSE
    BY <1>2, <2>4 DEF DeleteObject
  <2> QED BY <1>2, <2>1, <2>2, <2>3, <2>4, StoredWriters
<1>3. CASE <<b, Own(p)>> \in abandoned
  <2>1. ASSUME NEW q \in Projects, UploadCommits(q) PROVE <<b, Own(p)>> \in abandoned'
    <3>1. q # p
      BY <2>1 DEF UploadCommits
    <3> QED BY <1>1, <1>3, <2>1, <3>1 DEF UploadCommits
  <2>2. ASSUME NEW q \in Projects, WorkerCommits(q) PROVE <<b, Own(p)>> \in abandoned'
    BY <1>1, <1>3, <2>2 DEF WorkerCommits, OutputAbandoned
  <2> QED BY <1>3, <2>1, <2>2, AbandonedWriters
<1>4. CASE b \in made[p]
  <2>1. CASE UNCHANGED made
    BY <1>4, <2>1
  <2>2. ASSUME NEW q \in Projects, UploadPuts(q) PROVE b \in made'[p]
    BY <1>4, <2>2 DEF UploadPuts
  <2>3. ASSUME NEW q \in Projects, UploadOver(q), q # p PROVE b \in made'[p]
    BY <1>4, <2>3 DEF UploadOver
  <2>4. CASE UploadRefused(p)
    BY <1>1, <1>4, <2>4 DEF UploadRefused
  <2>5. CASE UploadDies(p)
    BY <1>1, <1>4, <2>5 DEF UploadDies
  <2>6. CASE UploadCommits(p)
    BY <2>6 DEF UploadCommits
  <2>7. ASSUME NEW q \in Projects, \/ Initiate(q) \/ Reinitiate(q) \/ CancelDeletes(q)
                                   \/ CancelCommits(q) \/ CancelDies(q)
                                   \/ \E file, proxy \in Files : CompleteBegin(q, file, proxy)
        PROVE  UNCHANGED made
    BY <2>7 DEF Initiate, Reinitiate, CompleteBegin, CancelDeletes, CancelCommits, CancelDies
  <2>8. ASSUME NEW q \in Projects, UploadRefused(q) \/ UploadCommits(q) \/ UploadDies(q)
        PROVE  UploadOver(q)
    BY <2>8 DEF UploadRefused, UploadCommits, UploadDies
  <2>9. UNCHANGED upVars => UNCHANGED made
    BY DEF upVars
  <2> QED BY <2>1, <2>2, <2>3, <2>4, <2>5, <2>6, <2>7, <2>8, <2>9, UploadWriters
<1> QED BY <1>1, <1>2, <1>3, <1>4 DEF FreshInv

LEMMA FreshStep ==
  ASSUME TypeOK, TypeOK', Onward, MadeInv, RowsInv, PlainInv, FreshInv, [Next]_vars
  PROVE  FreshInv'
<1> SUFFICES ASSUME NEW p \in Projects, p \notin again'
             PROVE  /\ cancel'[p] = "idle"
                    /\ up'[p] # "idle" => upload'[p] = "open" /\ had'[p] \cap Sources = {}
                    /\ upload'[p] = "open" =>
                         \A b \in Sources : key'[p][b] = NoKey /\ Unplanned(p, b)'
                    /\ upload'[p] # "completed" =>
                         \A b \in Sources : <<b, Own(p)>> \in stored' =>
                           b \in made'[p] \/ <<b, Own(p)>> \in abandoned'
  BY DEF FreshInv
<1>1. cancel'[p] = "idle" /\ (upload'[p] # "completed" => upload[p] # "completed")
  BY UploadsOnward
<1> QED BY <1>1, HadStep, UnnamedStep, OnRecordStep


\* A source that its row names keeps its name, and is not deleted while the row names another.
LEMMA SourceStep ==
  ASSUME TypeOK, TypeOK', Onward, MadeInv, RowsInv, FilesInv, PlainInv, FreshInv, SourceInv,
         [Next]_vars
  PROVE  SourceInv'
<1> SUFFICES ASSUME NEW p \in Projects, p \notin again', p \notin purged', NEW b \in Sources,
                    upload'[p] = "completed",
                    <<b, Own(p)>> \in stored', <<b, Own(p)>> \notin abandoned'
             PROVE  SourceNamed(p, b)'
  BY DEF SourceInv
<1>1. /\ b \in Buckets /\ b \notin {"previews", "outputs", "audio"}
      /\ p \notin again /\ p \notin purged
      /\ \A q \in Projects, x \in Buckets : want[q][x] = Own(p) => q = p
      /\ want[p][b] = Own(p)
  BY Names DEF Sources, Onward, MadeInv, PlainInv
<1>2. upload[p] = "completed" \/ UploadCommits(p)
  BY UploadsOnward
<1>3. CASE UploadCommits(p)
  <2>1. /\ up[p] = "commit" /\ stored' = stored /\ UNCHANGED cleanVars
        /\ key'[p][b] = IF b \in made[p] \ (had[p] \cup {"audio"}) THEN want[p][b] ELSE key[p][b]
        /\ abandoned' = abandoned \ {<<x, want[p][x]>> : x \in made[p] \ (had[p] \cup {"audio"})}
    BY <1>1, <1>3 DEF UploadCommits, TypeOK, ObjectTypes
  <2>2. upload[p] = "open" /\ b \notin had[p] /\ Unplanned(p, b)
    BY <1>1, <2>1 DEF FreshInv
  <2>3. b \in made[p]
    <3>1. b \in made[p] \/ <<b, Own(p)>> \in abandoned
      BY <1>1, <2>1, <2>2 DEF FreshInv
    <3> QED BY <2>1, <3>1
  <2>4. key'[p][b] = Own(p)
    BY <1>1, <2>1, <2>2, <2>3
  <2> QED BY <2>1, <2>2, <2>4 DEF SourceNamed, Unplanned, cleanVars
<1>4. CASE upload[p] = "completed" /\ ~UploadCommits(p)
  <2>1. <<b, Own(p)>> \in stored
    <3>1. ASSUME NEW q \in Projects, UploadPuts(q) PROVE <<b, Own(p)>> \in stored
      <4> SUFFICES ASSUME <<b, Own(p)>> \notin stored PROVE FALSE
        OBVIOUS
      <4>1. up[q] = b /\ want[q][b] = Own(p)
        BY <3>1 DEF UploadPuts
      <4>2. q = p
        BY <1>1, <4>1
      <4>3. b # "idle"
        BY <3>1, <4>1 DEF UploadPuts
      <4> QED BY <1>1, <1>4, <4>1, <4>2, <4>3 DEF FreshInv
    <3>2. ASSUME NEW q \in Projects, PreviewPut(q) \/ WorkerPuts(q) PROVE <<b, Own(p)>> \in stored
      BY <1>1, <3>2 DEF PreviewPut, WorkerPuts
    <3>3. ASSUME NEW q \in Projects, UploadRefused(q) \/ CancelDeletes(q)
          PROVE  <<b, Own(p)>> \in stored
      BY <3>3 DEF UploadRefused, CancelDeletes
    <3>4. ASSUME NEW c \in Cleaners, DeleteObject(c) PROVE <<b, Own(p)>> \in stored
      BY <3>4 DEF DeleteObject
    <3> QED BY <3>1, <3>2, <3>3, <3>4, StoredWriters
  <2>2. <<b, Own(p)>> \notin abandoned
    <3>1. ASSUME NEW q \in Projects, UploadCommits(q) PROVE <<b, Own(p)>> \notin abandoned
      <4>1. q # p
        BY <1>4, <3>1
      <4>2. abandoned' = abandoned \ {<<x, want[q][x]>> : x \in made[q] \ (had[q] \cup {"audio"})}
        BY <3>1 DEF UploadCommits
      <4> QED BY <1>1, <4>1, <4>2
    <3>2. ASSUME NEW q \in Projects, WorkerCommits(q) PROVE <<b, Own(p)>> \notin abandoned
      BY <1>1, <3>2 DEF WorkerCommits, OutputAbandoned
    <3> QED BY <3>1, <3>2, AbandonedWriters
  <2>3. SourceNamed(p, b)
    BY <1>1, <1>4, <2>1, <2>2 DEF SourceInv
  <2>4. key'[p][b] = Own(p)
    <3> USE DEF TypeOK, ProjTypes, ObjectTypes, UploadTypes
    <3>1. ASSUME NEW q \in Projects, UploadCommits(q) PROVE key'[p] = key[p]
      <4>1. q # p
        BY <1>4, <3>1
      <4> QED BY <3>1, <4>1 DEF UploadCommits
    <3>2. ASSUME NEW q \in Projects, PreviewReady(q) PROVE key'[p][b] = key[p][b]
      <4>1. key' = [key EXCEPT ![q]["previews"] = IF pvHad[q] THEN @ ELSE Own(q)]
        BY <3>2 DEF PreviewReady
      <4> QED BY <1>1, <4>1
    <3>3. ASSUME NEW q \in Projects, WorkerCommits(q) PROVE key'[p][b] = key[p][b]
      <4>1. CASE key' = key
        BY <4>1
      <4>2. CASE key' = [key EXCEPT ![q]["outputs"] = IF wkHad[q] THEN @ ELSE Own(q)]
        BY <1>1, <4>2
      <4> QED BY <3>3, <4>1, <4>2 DEF WorkerCommits
    <3>4. ASSUME NEW q \in Projects, NEW r \in Projects, Duplicate(q, r) PROVE key'[p] = key[p]
      <4>1. r # p
        BY <1>4, <3>4 DEF Duplicate, RowsInv
      <4> QED BY <3>4, <4>1 DEF Duplicate
    <3>5. ASSUME NEW c \in Cleaners, Commit(c) PROVE key'[p][b] = key[p][b]
      BY <1>1, <2>3, <3>5 DEF Commit, SourceNamed
    <3> QED BY <2>3, <3>1, <3>2, <3>3, <3>4, <3>5, KeyWriters DEF SourceNamed
  <2>5. ASSUME NEW c \in Cleaners, NEW a \in plan'[c], a.proj = p, a.bucket = b
        PROVE  a.name = Own(p)
    <3>1. CASE a \in plan[c]
      BY <2>3, <2>5, <3>1 DEF SourceNamed
    <3>2. CASE a \notin plan[c]
      BY <2>3, <2>5, <3>2, PlansGrow DEF SourceNamed
    <3> QED BY <3>1, <3>2
  <2>6. ASSUME NEW c \in Cleaners, <<p, b>> \in cleared'[c] PROVE FALSE
    <3>1. <<p, b>> \notin cleared[c]
      BY <2>3 DEF SourceNamed
    <3>2. PICK a \in plan[c] : /\ <<p, b>> = <<a.proj, a.bucket>>
                               /\ <<a.bucket, a.name>> \notin stored' \/ kind[c] = "files"
      BY <2>6, <3>1, ClearedGrow
    <3>3. a.proj = p /\ a.bucket = b /\ a.name = Own(p)
      BY <2>3, <3>2 DEF SourceNamed
    <3> QED BY <1>1, <3>2, <3>3 DEF FilesInv
  <2> QED BY <2>4, <2>5, <2>6 DEF SourceNamed
<1> QED BY <1>2, <1>3, <1>4

\* The output's key is the project's own, and only a cleaner takes it from the row.
LEMMA OutputKey ==
  ASSUME TypeOK, RowsInv, MadeInv, OutputInv, [Next]_vars, NEW p \in Projects
  PROVE  \/ key'[p]["outputs"] = key[p]["outputs"]
         \/ key'[p]["outputs"] = Own(p) /\ WorkerCommits(p)
         \/ /\ key'[p]["outputs"] = NoKey
            /\ \/ \E c \in Cleaners : Commit(c) /\ <<p, "outputs">> \in cleared[c]
               \/ status[p] = "none"
<1> USE DEF TypeOK, ObjectTypes
<1>0. "outputs" \in Buckets
  OBVIOUS
<1>1. ASSUME NEW q \in Projects, UploadCommits(q) PROVE key'[p]["outputs"] = key[p]["outputs"]
  <2>1. "outputs" \notin made[q]
    BY DEF MadeInv
  <2> QED BY <1>0, <1>1, <2>1 DEF UploadCommits
<1>2. ASSUME NEW q \in Projects, PreviewReady(q) PROVE key'[p]["outputs"] = key[p]["outputs"]
  <2>1. key' = [key EXCEPT ![q]["previews"] = IF pvHad[q] THEN @ ELSE Own(q)]
    BY <1>2 DEF PreviewReady
  <2> QED BY <1>0, <2>1
<1>3. ASSUME NEW q \in Projects, WorkerCommits(q)
      PROVE  key'[p]["outputs"] = key[p]["outputs"] \/ (p = q /\ key'[p]["outputs"] = Own(p))
  <2>1. CASE key' = key
    BY <2>1
  <2>2. CASE key' = [key EXCEPT ![q]["outputs"] = IF wkHad[q] THEN @ ELSE Own(q)]
    BY <1>0, <2>2
  <2> QED BY <1>3, <2>1, <2>2 DEF WorkerCommits
<1>4. ASSUME NEW q \in Projects, NEW r \in Projects, Duplicate(q, r)
      PROVE  \/ key'[p]["outputs"] = key[p]["outputs"]
             \/ key'[p]["outputs"] = NoKey /\ status[p] = "none"
  <2>1. status[r] = "none" /\ key' = [key EXCEPT ![r] = [b \in Buckets |->
               IF b \in {"originals", "proxies", "thumbnails"} THEN key[q][b] ELSE NoKey]]
    BY <1>4 DEF Duplicate
  <2>2. CASE r = p
    BY <1>0, <2>1, <2>2
  <2>3. CASE r # p
    BY <2>1, <2>3
  <2> QED BY <2>2, <2>3
<1>5. ASSUME NEW c \in Cleaners, Commit(c)
      PROVE  \/ key'[p]["outputs"] = key[p]["outputs"]
             \/ key'[p]["outputs"] = NoKey /\ <<p, "outputs">> \in cleared[c]
  BY <1>0, <1>5 DEF Commit
<1> QED BY <1>1, <1>2, <1>3, <1>4, <1>5, KeyWriters

\* No cleaner comes after the output of a live project.
LEMMA OutputUnplanned ==
  ASSUME TypeOK, TypeOK', Onward, [Next]_vars, NEW p \in Projects, ~Past(p)', OutputNamed(p)
  PROVE  Unplanned(p, "outputs")'
<1>1. ~deleted[p] /\ p \notin purged' /\ outAge[p] # 2 /\ Unplanned(p, "outputs")
  BY DEF Past, Onward, OutputNamed
<1>2. ASSUME NEW c \in Cleaners, NEW a \in plan'[c], a.proj = p, a.bucket = "outputs" PROVE FALSE
  <2>1. a \notin plan[c]
    BY <1>1, <1>2 DEF Unplanned
  <2>2. ~Expired(p, "outputs")
    BY <1>1 DEF Expired
  <2> QED BY <1>1, <1>2, <2>1, <2>2, PlansGrow
<1>3. ASSUME NEW c \in Cleaners, <<p, "outputs">> \in cleared'[c] PROVE FALSE
  <2>1. <<p, "outputs">> \notin cleared[c]
    BY <1>1 DEF Unplanned
  <2>2. PICK a \in plan[c] : <<p, "outputs">> = <<a.proj, a.bucket>>
    BY <1>3, <2>1, ClearedGrow
  <2> QED BY <1>1, <2>2 DEF Unplanned
<1> QED BY <1>2, <1>3 DEF Unplanned

LEMMA OutputStep ==
  ASSUME TypeOK, TypeOK', Onward, RowsInv, MadeInv, PlainInv, OutputInv, [Next]_vars
  PROVE  OutputInv'
<1>1. ASSUME NEW p \in Projects PROVE key'[p]["outputs"] \in {Own(p), NoKey}
  BY OutputKey DEF OutputInv
<1>2. ASSUME NEW p \in Projects, ~Past(p)' PROVE OutputNamed(p)'
  <2>1. OutputNamed(p)
    BY <1>2 DEF OutputInv, Past, Onward, TypeOK, ProjTypes
  <2>2. outAge'[p] # 2
    <3>1. age'[p] # 2
      BY <1>2 DEF Past
    <3> QED BY <2>1, <3>1, OutputsAge DEF OutputNamed
  <2>3. Unplanned(p, "outputs")'
    BY <1>2, <2>1, OutputUnplanned
  <2>4. key'[p]["outputs"] = key[p]["outputs"] \/ WorkerCommits(p) \/ key[p]["outputs"] = NoKey
    <3>1. status[p] = "none" => key[p]["outputs"] = NoKey
      BY DEF RowsInv
    <3>2. \A c \in Cleaners : <<p, "outputs">> \notin cleared[c]
      BY <2>1 DEF OutputNamed, Unplanned
    <3> QED BY <3>1, <3>2, OutputKey
  <2>k. key[p]["outputs"] = Own(p) => key'[p]["outputs"] = Own(p)
    BY <2>4, Names, OutputKey, <2>1 DEF OutputNamed, Unplanned, RowsInv
  <2>5. wkHad'[p] => key'[p]["outputs"] = Own(p)
    <3>1. CASE wkHad'[p] = wkHad[p]
      BY <2>1, <2>k, <3>1 DEF OutputNamed
    <3>2. ASSUME NEW q \in Projects, WorkerLoads(q) PROVE wkHad'[p] => key'[p]["outputs"] = Own(p)
      <4>1. wkHad' = [wkHad EXCEPT ![q] = key[q]["outputs"] # NoKey]
        BY <3>2 DEF WorkerLoads
      <4>2. CASE q = p
        <5>1. wkHad'[p] = (key[p]["outputs"] # NoKey)
          BY <4>1, <4>2, Zenon DEF TypeOK, WorkTypes
        <5> QED BY <2>k, <5>1 DEF OutputInv
      <4>3. CASE q # p
        BY <3>1, <4>1, <4>3
      <4> QED BY <4>2, <4>3
    <3>3. ASSUME NEW q \in Projects, WorkerOver(q) PROVE wkHad'[p] => key'[p]["outputs"] = Own(p)
      BY <3>1, <3>3 DEF WorkerOver, TypeOK, WorkTypes
    <3> QED BY <3>1, <3>2, <3>3, WorkWriters
            DEF Reads, WorkerPuts, WorkerCommits, WorkerFails, WorkerDies
  <2>6. ASSUME <<"outputs", Own(p)>> \in stored'
        PROVE  \/ key'[p]["outputs"] = Own(p) \/ wk'[p] = "put"
               \/ <<"outputs", Own(p)>> \in abandoned'
    <3>1. CASE <<"outputs", Own(p)>> \notin stored
      <4>1. ASSUME NEW q \in Projects, WorkerPuts(q) PROVE wk'[p] = "put"
        <5>1. stored' = stored \cup {<<"outputs", Own(q)>>} /\ wk' = [wk EXCEPT ![q] = "put"]
          BY <4>1 DEF WorkerPuts
        <5>2. q = p
          BY <2>6, <3>1, <5>1, Names
        <5> QED BY <5>1, <5>2 DEF TypeOK, WorkTypes
      <4>2. ASSUME NEW q \in Projects, UploadPuts(q) \/ PreviewPut(q) PROVE FALSE
        BY <2>6, <3>1, <4>2 DEF UploadPuts, PreviewPut
      <4>3. ASSUME NEW q \in Projects, UploadRefused(q) \/ CancelDeletes(q) PROVE FALSE
        BY <2>6, <3>1, <4>3 DEF UploadRefused, CancelDeletes
      <4>4. ASSUME NEW c \in Cleaners, DeleteObject(c) PROVE FALSE
        BY <2>6, <3>1, <4>4 DEF DeleteObject
      <4> QED BY <2>6, <3>1, <4>1, <4>2, <4>3, <4>4, StoredWriters
    <3>2. CASE key[p]["outputs"] = Own(p)
      BY <2>k, <3>2
    <3>3. CASE <<"outputs", Own(p)>> \in abandoned
      <4>1. ASSUME NEW q \in Projects, UploadCommits(q) PROVE <<"outputs", Own(p)>> \in abandoned'
        <5>1. abandoned' = abandoned \ {<<x, want[q][x]>> :
                                       x \in made[q] \ (had[q] \cup {"audio"})}
          BY <4>1 DEF UploadCommits
        <5>2. "outputs" \notin made[q]
          BY DEF MadeInv
        <5> QED BY <3>3, <5>1, <5>2
      <4>2. ASSUME NEW q \in Projects, WorkerCommits(q), <<"outputs", Own(p)>> \notin abandoned'
            PROVE  key'[p]["outputs"] = Own(p)
        <5>1. /\ abandoned' = abandoned \ {<<"outputs", Own(q)>>} /\ ~wkHad[q]
              /\ key' = [key EXCEPT ![q]["outputs"] = IF wkHad[q] THEN @ ELSE Own(q)]
          BY <3>3, <4>2 DEF WorkerCommits, OutputAbandoned
        <5>2. q = p
          BY <3>3, <4>2, <5>1, Names
        <5> QED BY <5>1, <5>2 DEF TypeOK, ObjectTypes
      <4> QED BY <3>3, <4>1, <4>2, AbandonedWriters
    <3>4. CASE wk[p] = "put"
      <4> USE DEF TypeOK, WorkTypes
      <4>1. CASE UNCHANGED wk
        BY <3>4, <4>1
      <4>2. ASSUME NEW q \in Projects, Reads(q) \/ WorkerLoads(q) \/ WorkerPuts(q)
            PROVE  wk'[p] = "put"
        <5>1. q # p /\ wk'[p] = wk[p]
          BY <3>4, <4>2 DEF Reads, WorkerLoads, WorkerPuts
        <5> QED BY <3>4, <5>1
      <4>3. ASSUME NEW q \in Projects, WorkerOver(q), q # p PROVE wk'[p] = "put"
        BY <3>4, <4>3 DEF WorkerOver
      <4>4. CASE OutputAbandoned(p)
        BY <3>4, <4>4 DEF OutputAbandoned
      <4>5. CASE WorkerCommits(p) /\ ~OutputAbandoned(p)
        <5>1. key' = [key EXCEPT ![p]["outputs"] = IF wkHad[p] THEN @ ELSE Own(p)]
          BY <4>5 DEF WorkerCommits
        <5>2. key'[p]["outputs"] = IF wkHad[p] THEN key[p]["outputs"] ELSE Own(p)
          BY <5>1 DEF ObjectTypes
        <5> QED BY <2>1, <5>2 DEF OutputNamed
      <4> QED BY <4>1, <4>2, <4>3, <4>4, <4>5, WorkWriters
              DEF WorkerCommits, WorkerFails, WorkerDies
    <3> QED BY <2>1, <3>1, <3>2, <3>3, <3>4 DEF OutputNamed
  <2> QED BY <2>2, <2>3, <2>5, <2>6 DEF OutputNamed
<1> QED BY <1>1, <1>2 DEF OutputInv

LEMMA StrayStep == TypeOK /\ IInv /\ StrayInv /\ [Next]_vars => StrayInv'
BY TypeStep, OnwardStep, RowsStep, FilesStep, PlainStep, FreshStep, SourceStep, OutputStep
   DEF IInv, StrayInv

\* No object is in storage without a name, apart from what requests and workers leave that
\* end without naming it, sources of projects with a second or a cancelled upload, files an
\* administrator deletes, and outputs that a sweep may be after.
THEOREM NothingStranded == Spec => []NoStrayObjects
<1>1. ASSUME TypeOK, IInv, StrayInv, NEW b \in Buckets \ {"previews", "audio"}, NEW n \in Name,
             <<b, n>> \in stored, ~NameMayBeLost(b, n)
      PROVE  key[Owner(n)][b] = n
  <2> DEFINE p == Owner(n)
  <2>1. p \in Projects /\ p \notin purged /\ <<b, n>> \notin abandoned
    BY <1>1, Names DEF NameMayBeLost
  <2>2. CASE b = "outputs"
    <3>1. ~Past(p) /\ wk[p] # "put"
      BY <1>1, <2>1, <2>2 DEF NameMayBeLost, Past
    <3>2. n = Own(p)
      BY <1>1, <2>2 DEF StrayInv, PlainInv
    <3> QED BY <1>1, <2>1, <2>2, <3>1, <3>2 DEF StrayInv, OutputInv, OutputNamed
  <2>3. CASE b # "outputs"
    <3>1. p \notin again /\ ~(up[p] # "idle" /\ b \in made[p]) /\ b \in Sources
      BY <1>1, <2>3 DEF NameMayBeLost, Sources
    <3>2. n = Own(p)
      BY <1>1, <3>1 DEF StrayInv, PlainInv
    <3>3. b \notin made[p]
      BY <1>1, <2>1, <3>1 DEF IInv, MadeInv
    <3>4. upload[p] = "completed"
      BY <1>1, <2>1, <3>1, <3>2, <3>3 DEF StrayInv, FreshInv
    <3> QED BY <1>1, <2>1, <3>1, <3>2, <3>4 DEF StrayInv, SourceInv, SourceNamed
  <2> QED BY <2>2, <2>3
<1>2. TypeOK /\ IInv /\ StrayInv => NoStrayObjects
  BY <1>1 DEF NoStrayObjects
<1>3. TypeOK /\ IInv /\ StrayInv /\ [Next]_vars => (TypeOK /\ IInv /\ StrayInv)'
  BY TypeStep, IInvStep, StrayStep
<1> QED BY TypeInit, IInvInit, StrayInit, <1>2, <1>3, PTL DEF Spec
----------------------------------------------------------------------------
(* Sources of queued jobs *)

\* A project in use whose job stays queued stays in use, but for what its owner does.
LEMMA StaysInUse ==
  ASSUME TypeOK, [Next]_vars, NEW p \in Projects,
         job[p] = "queued", job'[p] = "queued", status[p] \in Active, status'[p] \notin Active
  PROVE  UploadCommits(p) \/ CancelCommits(p) \/ PreviewFails(p)
<1> USE DEF TypeOK, ProjTypes, WorkTypes, Active
<1>1. CASE UNCHANGED status
  BY <1>1
<1>j. ASSUME NEW q \in Projects, JobFails(q) PROVE UNCHANGED status
  BY <1>j DEF JobFails, Pending
<1>2. ASSUME NEW q \in Projects, OwnerStep(q) PROVE FALSE
  <2>1. CASE Initiate(q) \/ \E r \in Projects : Duplicate(q, r)
    BY <2>1 DEF Initiate, Duplicate
  <2>2. CASE Process(q) \/ PreviewBegin(q)
    BY <2>2 DEF Process, PreviewBegin
  <2>3. CASE Reinitiate(q) \/ CancelDeletes(q) \/ Delete(q)
             \/ \E file, proxy \in Files : CompleteBegin(q, file, proxy)
    BY <2>3 DEF Reinitiate, CancelDeletes, Delete, CompleteBegin, projVars
  <2> QED BY <1>2, <2>1, <2>2, <2>3 DEF OwnerStep
<1>3. ASSUME NEW q \in Projects, UploadStep(q) PROVE UploadCommits(p) \/ CancelCommits(p)
  <2>1. CASE UploadPuts(q) \/ UploadRefused(q)
    BY <2>1 DEF UploadPuts, UploadRefused, projVars
  <2>2. CASE UploadCommits(q) \/ CancelCommits(q)
    <3>1. q = p
      BY <2>2 DEF UploadCommits, CancelCommits
    <3> QED BY <2>2, <3>1
  <2> QED BY <1>3, <2>1, <2>2 DEF UploadStep
<1>4. ASSUME NEW q \in Projects, ServerStep(q) PROVE PreviewFails(p)
  <2>1. CASE PreviewReads(q) \/ PreviewPut(q) \/ WorkerLoads(q) \/ WorkerPuts(q)
    BY <2>1 DEF PreviewReads, PreviewPut, WorkerLoads, WorkerPuts, projVars
  <2>2. CASE PreviewReady(q)
    BY <2>2 DEF PreviewReady
  <2>3. CASE PreviewFails(q)
    <3>1. q = p
      BY <2>3 DEF PreviewFails
    <3> QED BY <2>3, <3>1
  <2>4. CASE WorkerReads(q) \/ WorkerFails(q)
    BY <1>j, <2>4 DEF WorkerReads, Reads, WorkerFails
  <2>5. CASE WorkerCommits(q)
    BY <2>5 DEF WorkerCommits
  <2> QED BY <1>4, <2>1, <2>2, <2>3, <2>4, <2>5 DEF ServerStep
<1>5. ASSUME NEW q \in Projects, Fault(q) PROVE FALSE
  BY <1>5, <1>j DEF Fault, UploadDies, CancelDies, WorkerDies, Redelivered, Reads, projVars
<1>6. ASSUME NEW q \in Projects, AdminStep(q) \/ Time(q) PROVE UNCHANGED status
  BY <1>6 DEF AdminStep, PlaceHold, RemoveHold, Unlock, AdminRetry, AdminCancel, Time, GrowOld,
     OutputGrowsOld, projVars
<1>7. ASSUME NEW c \in Cleaners, CleanerStep(c) PROVE UNCHANGED status
  BY <1>7 DEF CleanerStep, SweepBegin, DeleteObject, DeletionFails, Handled, Commit, Crash,
     DeleteFiles, AdminDelete, TriggerCleanup, FilesBegin, projVars
<1> QED BY <1>1, <1>2, <1>3, <1>4, <1>5, <1>6, <1>7 DEF Next, vars, projVars

\* A job comes to be queued when its owner or an administrator puts it there.
LEMMA Queues ==
  ASSUME TypeOK, [Next]_vars, NEW p \in Projects, job'[p] = "queued", job[p] # "queued"
  PROVE  Process(p) \/ AdminRetry(p)
<1> USE DEF TypeOK, WorkTypes
<1>1. CASE UNCHANGED job
  BY <1>1
<1>j. ASSUME NEW q \in Projects, JobFails(q) PROVE job'[p] # "queued"
  BY <1>j DEF JobFails, Pending
<1>2. ASSUME NEW q \in Projects, OwnerStep(q), ~Process(q)
      PROVE  UNCHANGED job \/ job'[p] # "queued"
  BY <1>2 DEF OwnerStep, Initiate, Reinitiate, CompleteBegin, CancelDeletes, Duplicate, Delete,
     PreviewBegin, workVars, Pending
<1>3. ASSUME NEW q \in Projects, UploadStep(q) PROVE UNCHANGED job
  BY <1>3 DEF UploadStep, UploadPuts, UploadRefused, UploadCommits, CancelCommits, workVars
<1>4. ASSUME NEW q \in Projects, ServerStep(q) \/ Fault(q)
      PROVE  UNCHANGED job \/ job'[p] # "queued"
  <2>1. CASE PreviewReads(q) \/ PreviewPut(q) \/ PreviewReady(q) \/ PreviewFails(q)
             \/ WorkerLoads(q) \/ WorkerPuts(q)
    BY <2>1 DEF PreviewReads, PreviewPut, PreviewReady, PreviewFails, WorkerLoads, WorkerPuts,
       workVars
  <2>2. CASE WorkerReads(q) \/ WorkerFails(q) \/ Redelivered(q)
    <3>1. CASE JobFails(q)
      BY <1>j, <3>1
    <3>2. CASE ~JobFails(q)
      BY <2>2, <3>2 DEF WorkerReads, Reads, WorkerFails, Redelivered
    <3> QED BY <3>1, <3>2
  <2>3. CASE WorkerCommits(q)
    BY <2>3 DEF WorkerCommits
  <2>4. CASE UploadDies(q) \/ CancelDies(q) \/ WorkerDies(q)
    BY <2>4 DEF UploadDies, CancelDies, WorkerDies, workVars
  <2> QED BY <1>4, <2>1, <2>2, <2>3, <2>4 DEF ServerStep, Fault
<1>5. ASSUME NEW q \in Projects, Process(q) \/ AdminRetry(q) PROVE Process(p) \/ AdminRetry(p)
  <2>1. q = p
    BY <1>5 DEF Process, AdminRetry
  <2> QED BY <1>5, <2>1
<1>6. ASSUME NEW q \in Projects, AdminStep(q) \/ Time(q), ~AdminRetry(q)
      PROVE UNCHANGED job \/ job'[p] # "queued"
  BY <1>6 DEF AdminStep, PlaceHold, RemoveHold, Unlock, AdminCancel, Time, GrowOld,
     OutputGrowsOld, workVars
<1>7. ASSUME NEW c \in Cleaners, CleanerStep(c) PROVE UNCHANGED job
  BY <1>7 DEF CleanerStep, SweepBegin, DeleteObject, DeletionFails, Handled, Commit, Crash,
     DeleteFiles, AdminDelete, TriggerCleanup, FilesBegin, workVars
<1> QED BY <1>1, <1>2, <1>3, <1>4, <1>5, <1>6, <1>7 DEF Next, vars, workVars

\* The row goes on naming its source.
LEMMA SourceStays ==
  ASSUME TypeOK, [Next]_vars, NEW p \in Projects, status[p] # "none", ~MayTakeSource(p)
  PROVE  key'[p]["originals"] = key[p]["originals"]
<1> USE DEF TypeOK, ObjectTypes
<1>1. CASE UNCHANGED key
  BY <1>1
<1>2. ASSUME NEW q \in Projects, UploadCommits(q) PROVE key'[p] = key[p]
  <2>1. q # p
    BY <1>2 DEF MayTakeSource
  <2> QED BY <1>2, <2>1 DEF UploadCommits
<1>3. ASSUME NEW q \in Projects, PreviewReady(q) \/ WorkerCommits(q)
      PROVE  key'[p]["originals"] = key[p]["originals"]
  BY <1>3 DEF PreviewReady, WorkerCommits
<1>4. ASSUME NEW q \in Projects, NEW r \in Projects, Duplicate(q, r) PROVE key'[p] = key[p]
  BY <1>4 DEF Duplicate
<1>5. ASSUME NEW c \in Cleaners, Commit(c) PROVE key'[p]["originals"] = key[p]["originals"]
  BY <1>5 DEF Commit, MayTakeSource
<1> QED BY <1>1, <1>2, <1>3, <1>4, <1>5, KeyWriters

\* No sweep, and no other step than those that MayTakeSource names, takes the source from a
\* queued job: "a queued project still needs its source"
\* (backend/app/services/retention.py:116).
THEOREM QueuedSourcesAreKept == Spec => QueuedSourceIsKept
<1>1. ASSUME TypeOK, TypeOK', Onward, [Next]_vars, NEW p \in Projects, Provided(p),
             ~MayTakeSource(p), job'[p] = "queued", ~deleted'[p]
      PROVE  status'[p] \in Active /\ Available(p)'
  <2>0. ~deleted[p] /\ Source(p) \in Name
    BY <1>1, Names DEF Onward, TypeOK, ProjTypes, ObjectTypes, Source
  <2>s. PICK source \in Name : source = Source(p)
    BY <2>0
  <2>1. CASE job[p] = "queued"
    <3>1. /\ status[p] \in Active
          /\ <<"originals", source>> \in stored /\ ~Doomed("originals", source)
      BY <1>1, <2>0, <2>1, <2>s DEF Provided, Available
    <3>2. status'[p] \in Active
      BY <1>1, <2>1, <3>1, StaysInUse DEF MayTakeSource
    <3>3. Source(p)' = source
      BY <1>1, <2>s, <3>1, SourceStays DEF Source, Active
    <3>o. ASSUME NEW q \in Projects, source \in {key[q]["originals"], want[q]["originals"]},
                 \/ UploadRefused(q) \/ CancelDeletes(q)
                 \/ \E c \in Cleaners : \/ SweepBegin(c) \/ DeleteFiles(c, q)
                                        \/ AdminDelete(c, q) \/ TriggerCleanup(c, q)
          PROVE  q = p
      BY <1>1, <2>s, <3>o DEF MayTakeSource
    <3>4. <<"originals", source>> \in stored'
      <4> SUFFICES ASSUME <<"originals", source>> \notin stored' PROVE FALSE
        OBVIOUS
      <4>1. ASSUME NEW c \in Cleaners, DeleteObject(c) PROVE FALSE
        BY <3>1, <4>1 DEF DeleteObject, Doomed
      <4>2. ASSUME NEW q \in Projects, UploadRefused(q) \/ CancelDeletes(q) PROVE FALSE
        <5>1. source \in {key[q]["originals"], want[q]["originals"]}
          BY <3>1, <4>2 DEF UploadRefused, CancelDeletes
        <5>2. q = p
          BY <3>o, <4>2, <5>1
        <5> QED BY <1>1, <4>2, <5>2 DEF MayTakeSource
      <4>3. ASSUME NEW q \in Projects, UploadPuts(q) \/ PreviewPut(q) \/ WorkerPuts(q) PROVE FALSE
        BY <3>1, <4>3 DEF UploadPuts, PreviewPut, WorkerPuts
      <4> QED BY <1>1, <3>1, <4>1, <4>2, <4>3, StoredWriters
    <3>5. ~Doomed("originals", source)'
      <4> SUFFICES ASSUME NEW c \in Cleaners, NEW a \in plan'[c],
                          a.bucket = "originals", a.name = source
                   PROVE  FALSE
        BY DEF Doomed
      <4>1. a \notin plan[c]
        BY <3>1 DEF Doomed
      <4>2. a.proj \in Projects /\ key[a.proj]["originals"] = source
        BY <1>1, <4>1, PlansGrow
      <4>3. a.proj = p
        BY <1>1, <3>o, <4>1, <4>2, PlansGrow
      <4>4. deleted[p] \/ Expired(p, "originals") \/ TriggerCleanup(c, p)
        BY <1>1, <4>1, <4>3, PlansGrow DEF MayTakeSource
      <4> QED BY <2>0, <2>1, <3>1, <4>4 DEF Expired, TriggerCleanup, Pending
    <3> QED BY <3>2, <3>3, <3>4, <3>5 DEF Available
  <2>2. CASE job[p] # "queued"
    <3>1. Process(p) /\ Available(p)
      BY <1>1, <2>2, Queues DEF MayTakeSource
    <3>2. status' = [status EXCEPT ![p] = "processing_queued"] /\ UNCHANGED <<key, stored, plan>>
      BY <3>1 DEF Process, cleanVars
    <3>3. status'[p] \in Active
      BY <1>1, <3>2 DEF TypeOK, ProjTypes, Active
    <3> QED BY <3>1, <3>2, <3>3 DEF Available, Source, Doomed
  <2> QED BY <2>1, <2>2
<1>2. TypeOK /\ TypeOK' /\ [Next]_vars =>
        [\A p \in Projects : Provided(p) => Provided(p)' \/ MayTakeSource(p)]_vars
  BY <1>1, OnwardStep DEF Provided
<1> QED BY TypeInit, TypeStep, <1>2, PTL DEF Spec, QueuedSourceIsKept
=============================================================================
