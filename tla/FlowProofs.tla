----------------------------- MODULE FlowProofs -----------------------------
(***************************************************************************)
(* The properties of FlowProperties, for any number of files, projects,    *)
(* analyses and renders.                                                    *)
(***************************************************************************)
EXTENDS FlowProperties, TLAPS

-----------------------------------------------------------------------------
(* Types of the upload page *)

LEMMA VisitTypes ==
    ASSUME UploadTypeOK, NEW p \in Pages, NEW n \in NewProjects \union {Old, None}, Visit(p, n)
    PROVE  /\ page' \in [at : Pages, project : NewProjects \union {Old, None}]
           /\ up' \in UploadPages
           /\ clip' \in Files \union {None} /\ handoff' \in Files \union {None}
BY DEF UploadTypeOK, Visit, At, FreshUpload, UploadPages

\* What the form makes of its state.
LEMMA FormTypes ==
    ASSUME UploadTypeOK
    PROVE  /\ [up EXCEPT !.ownership = ~@] \in UploadPages
           /\ [up EXCEPT !.file = None, !.ownership = FALSE] \in UploadPages
           /\ [up EXCEPT !.stage = "select"] \in UploadPages
           /\ up.file \in Files \union {None}
BY DEF UploadTypeOK, UploadPages

LEMMA PickTypes ==
    ASSUME UploadTypeOK, NEW f \in Files, pick(f)
    PROVE  up' \in UploadPages
BY DEF UploadTypeOK, UploadPages, pick

LEMMA ReadTypes ==
    ASSUME UploadTypeOK, NEW f \in Files, Read(f)
    PROVE  up' \in UploadPages
<1>1. PICK chosen \in {f, None, up.file} :
        up' = [up EXCEPT !.reading = @ \ {f}, !.file = chosen]
    BY DEF Read
<1>2. chosen \in Files \union {None}
    BY FormTypes
<1> QED BY <1>1, <1>2 DEF UploadTypeOK, UploadPages

LEMMA EndedTypes ==
    ASSUME UploadTypeOK, NEW n \in NewProjects, NEW stage \in {"select", "done", "error"},
           Ended(n, stage)
    PROVE  sending' \in [NewProjects -> Calls] /\ up' \in UploadPages
BY DEF UploadTypeOK, Ended, NotSending, Calls, UploadPages

LEMMA StartTypes ==
    ASSUME UploadTypeOK, NEW n \in NewProjects, StartClicked(n)
    PROVE  UploadTypeOK'
BY DEF UploadTypeOK, StartClicked, start, Calls, UploadPages

\* One field of a project's row, or of a call, changes.
LEMMA RowTypes ==
    ASSUME UploadTypeOK, NEW n \in NewProjects
    PROVE  /\ \A s \in {"created", "uploaded", "confirmed"} :
                 [projects EXCEPT ![n].state = s] \in [NewProjects -> ProjectRows]
           /\ \A s \in {"created", "uploaded", "confirmed"}, f \in Files \union {None} :
                 [projects EXCEPT ![n] = [state |-> s, file |-> f]]
                   \in [NewProjects -> ProjectRows]
<1>1. projects \in [NewProjects -> ProjectRows] /\ projects[n] \in ProjectRows
    BY DEF UploadTypeOK
<1>2. ASSUME NEW s \in {"created", "uploaded", "confirmed"}
      PROVE  [projects[n] EXCEPT !.state = s] \in ProjectRows
    BY <1>1 DEF ProjectRows
<1>3. ASSUME NEW s \in {"created", "uploaded", "confirmed"}, NEW f \in Files \union {None}
      PROVE  [state |-> s, file |-> f] \in ProjectRows
    BY DEF ProjectRows
<1> QED BY <1>1, <1>2, <1>3

LEMMA CallTypes ==
    ASSUME UploadTypeOK, NEW n \in NewProjects
    PROVE  /\ \A s \in {"complete", "compliance"} :
                 [sending EXCEPT ![n].phase = s] \in [NewProjects -> Calls]
           /\ [sending EXCEPT ![n].cancelled = TRUE] \in [NewProjects -> Calls]
           /\ sending[n].file \in Files \union {None}
<1>1. sending \in [NewProjects -> Calls] /\ sending[n] \in Calls
    BY DEF UploadTypeOK
<1>2. ASSUME NEW s \in {"complete", "compliance"}
      PROVE  [sending[n] EXCEPT !.phase = s] \in Calls
    BY <1>1 DEF Calls
<1>3. [sending[n] EXCEPT !.cancelled = TRUE] \in Calls /\ sending[n].file \in Files \union {None}
    BY <1>1 DEF Calls
<1> QED BY <1>1, <1>2, <1>3

LEMMA UploadTypes ==
    ASSUME UploadTypeOK, UploadNext
    PROVE  UploadTypeOK'
<1>1. CASE Arrive
    <2>1. "editor" \in Pages /\ pushing \in NewProjects \union {Old, None}
        BY DEF Pages, UploadTypeOK
    <2> QED BY <1>1, <2>1, VisitTypes DEF Arrive, UploadTypeOK
<1>2. CASE setOwnership \/ ChooseDifferent \/ TryAgain
    BY <1>2, FormTypes DEF setOwnership, ChooseDifferent, TryAgain, form, UploadTypeOK
<1>3. ASSUME NEW f \in Files, Choose(f) \/ drop(f) \/ Read(f) PROVE UploadTypeOK'
    <2>1. CASE pick(f)
        BY <2>1, PickTypes DEF pick, form, UploadTypeOK
    <2>2. CASE Read(f)
        BY <2>2, ReadTypes DEF Read, form, UploadTypeOK
    <2> QED BY <1>3, <2>1, <2>2 DEF Choose, drop
<1>4. ASSUME NEW n \in NewProjects, StartClicked(n) PROVE UploadTypeOK'
    BY <1>4, StartTypes
<1>5. ASSUME NEW n \in NewProjects, Initiated(n) PROVE UploadTypeOK'
    <2>1. projects' \in [NewProjects -> ProjectRows]
        BY <1>5, RowTypes, CallTypes DEF Initiated
    <2>2. sending' \in [NewProjects -> Calls] /\ up' \in UploadPages
        BY <1>5, EndedTypes, CallTypes DEF Initiated, UploadTypeOK
    <2> QED BY <1>5, <2>1, <2>2 DEF Initiated, UploadTypeOK
<1>6. ASSUME NEW n \in NewProjects, Completed(n) PROVE UploadTypeOK'
    <2>1. projects' \in [NewProjects -> ProjectRows] /\ sending' \in [NewProjects -> Calls]
        BY <1>6, RowTypes, CallTypes DEF Completed
    <2> QED BY <1>6, <2>1 DEF Completed, UploadTypeOK
<1>7. ASSUME NEW n \in NewProjects, Confirmed(n) PROVE UploadTypeOK'
    <2>1. projects' \in [NewProjects -> ProjectRows] /\ handoff' \in Files \union {None}
        BY <1>7, RowTypes, CallTypes DEF Confirmed
    <2>2. sending' \in [NewProjects -> Calls] /\ up' \in UploadPages
        BY <1>7, EndedTypes DEF Confirmed
    <2> QED BY <1>7, <2>1, <2>2 DEF Confirmed, UploadTypeOK
<1>8. ASSUME NEW n \in NewProjects, cancel(n) PROVE UploadTypeOK'
    <2>1. projects' \in [NewProjects -> ProjectRows]
        <3>1. [projects EXCEPT ![n].state = "uploaded"] \in [NewProjects -> ProjectRows]
            BY RowTypes
        <3>2. projects' \in {projects, [projects EXCEPT ![n].state = "uploaded"]}
            BY <1>8 DEF cancel
        <3> QED BY <3>1, <3>2 DEF UploadTypeOK
    <2>2. sending' \in [NewProjects -> Calls] /\ up' \in UploadPages
        <3>1. CASE Ended(n, "select")
            BY <3>1, EndedTypes
        <3>2. CASE sending' = [sending EXCEPT ![n].cancelled = TRUE] /\ UNCHANGED up
            BY <3>2, CallTypes DEF UploadTypeOK
        <3> QED BY <1>8, <3>1, <3>2 DEF cancel
    <2> QED BY <1>8, <2>1, <2>2 DEF cancel, UploadTypeOK
<1>9. ASSUME NEW n \in NewProjects, Fails(n) PROVE UploadTypeOK'
    <2> DEFINE next == [initiate |-> "created", complete |-> "uploaded", compliance |-> "confirmed"]
    <2>1. next[sending[n].phase] \in {"created", "uploaded", "confirmed"}
        BY <1>9 DEF Fails, UploadTypeOK, Calls
    <2>2. projects' \in {projects, [projects EXCEPT ![n] =
                            [state |-> next[sending[n].phase], file |-> sending[n].file]]}
        BY <1>9 DEF Fails
    <2> HIDE DEF next
    <2>3. projects' \in [NewProjects -> ProjectRows]
        <3>1. sending[n].file \in Files \union {None}
            BY CallTypes
        <3>2. [projects EXCEPT ![n] = [state |-> next[sending[n].phase], file |-> sending[n].file]]
                \in [NewProjects -> ProjectRows]
            BY <2>1, <3>1, RowTypes
        <3> QED BY <2>2, <3>2 DEF UploadTypeOK
    <2>4. sending' \in [NewProjects -> Calls] /\ up' \in UploadPages
        BY <1>9, EndedTypes DEF Fails
    <2> QED BY <1>9, <2>3, <2>4 DEF Fails, UploadTypeOK
<1> QED BY <1>1, <1>2, <1>3, <1>4, <1>5, <1>6, <1>7, <1>8, <1>9 DEF UploadNext

-----------------------------------------------------------------------------
(* Types of the other pages *)

LEMMA Numbers ==
    /\ 0 \in AnyAnalysis /\ Analyses \subseteq AnyAnalysis
    /\ 0 \in AnyRender /\ Renders \subseteq AnyRender
BY FlowAssumption DEF AnyAnalysis, AnyRender, Analyses, Renders

LEMMA FreshTypes == FreshCandidates \in CandidatePages /\ FreshResult \in ResultPages
BY Numbers
   DEF FreshCandidates, CandidatePages, AnalysisRuns, NoRun, Runs,
       FreshResult, ResultPages, Loads, NoProject, Watches, NoWatch, Watchers

\* A step of the server leaves the pages alone.
LEMMA ServerTypes ==
    ASSUME TypeOK, ServerStep
    PROVE  TypeOK'
<1>u. UNCHANGED uploadVars => UploadTypeOK'
    BY DEF TypeOK, UploadTypeOK, uploadVars
<1>1. ASSUME NEW j \in Analyses, AnalysisEnds(j) PROVE TypeOK'
    <2>1. analyze' \in [Analyses -> JobStates] /\ status' \in Statuses /\ rows' \in AnyAnalysis
        BY <1>1, Numbers DEF AnalysisEnds, TypeOK, JobStates, Statuses
    <2> QED BY <1>1, <1>u, <2>1 DEF AnalysisEnds, TypeOK
<1>2. ASSUME NEW j \in Renders, RenderEnds(j) PROVE TypeOK'
    <2>1. render' \in [Renders -> JobStates] /\ status' \in Statuses
        BY <1>2 DEF RenderEnds, TypeOK, JobStates, Statuses
    <2> QED BY <1>2, <1>u, <2>1 DEF RenderEnds, TypeOK
<1>3. CASE PreviewEnds
    <2>1. rp' \in ResultPages
        BY <1>3 DEF PreviewEnds, TypeOK, ResultPages
    <2>2. previewing' \in BOOLEAN /\ hasClip' \in BOOLEAN /\ status' \in Statuses
        BY <1>3 DEF PreviewEnds, TypeOK, Statuses
    <2> QED BY <1>3, <1>u, <2>1, <2>2 DEF PreviewEnds, TypeOK
<1>4. CASE SaveMask
    BY <1>4, <1>u DEF SaveMask, TypeOK
<1> QED BY <1>1, <1>2, <1>3, <1>4 DEF ServerStep

LEMMA BrowseTypes ==
    ASSUME TypeOK, Browse
    PROVE  TypeOK'
<1>1. ASSUME NEW p \in Pages, NEW n \in {Old, None}, Go(p, n) PROVE TypeOK'
    <2>1. Visit(p, n) /\ pushing' = None /\ strayed' \in BOOLEAN /\ UNCHANGED <<sending, projects>>
        BY <1>1 DEF Go, Navigate, TypeOK, UploadTypeOK
    <2>2. UploadTypeOK'
        BY <2>1, VisitTypes DEF TypeOK, UploadTypeOK
    <2> QED BY <1>1, <2>2, FreshTypes DEF Go, TypeOK, server
<1> QED BY <1>1 DEF Browse, Pages

\* A run of the analysis begins, goes on or ends.
LEMMA RunTypes ==
    ASSUME NEW c \in CandidatePages, NEW r \in Runs, NEW rerun \in BOOLEAN
    PROVE  Running(c, r, rerun) \in CandidatePages
BY Numbers DEF Running, CandidatePages, AnalysisRuns

LEMMA CandidateTypes ==
    ASSUME TypeOK, CandidateStep
    PROVE  TypeOK'
<1>u. UNCHANGED uploadVars => UploadTypeOK'
    BY DEF TypeOK, UploadTypeOK, uploadVars
<1>q. ASSUME cp' \in CandidatePages, UNCHANGED <<quietCp, server>>, crossed' \in BOOLEAN
      PROVE  TypeOK'
    BY <1>q, <1>u DEF TypeOK, quietCp, server
<1>1. CASE CandidatesProject
    <2>1. cp' \in CandidatePages
        BY <1>1 DEF CandidatesProject, TypeOK, CandidatePages
    <2> QED BY <1>1, <1>q, <2>1 DEF CandidatesProject, TypeOK
<1>2. CASE CandidatesRead
    <2>1. cp' \in CandidatePages
        BY <1>2 DEF CandidatesRead, TypeOK, CandidatePages
    <2> QED BY <1>2, <1>q, <2>1 DEF CandidatesRead, TypeOK
<1>3. CASE CandidatesArrive
    <2> DEFINE shown == [cp EXCEPT !.load = "done", !.cards = cp.snap, !.snap = 0, !.auto = FALSE]
    <2>1. shown \in CandidatePages
        BY Numbers DEF TypeOK, CandidatePages
    <2>2. cp' = shown \/ \E r \in Runs : cp' = Running(shown, r, FALSE)
        BY <1>3 DEF CandidatesArrive
    <2> HIDE DEF shown
    <2>3. cp' \in CandidatePages
        BY <2>1, <2>2, RunTypes
    <2> QED BY <1>3, <1>q, <2>3 DEF CandidatesArrive, TypeOK
<1>4. ASSUME NEW r \in Runs, RunAgain(r) PROVE TypeOK'
    <2>1. cp' \in CandidatePages
        BY <1>4, RunTypes DEF RunAgain, TypeOK
    <2> QED BY <1>4, <1>q, <2>1 DEF RunAgain, TypeOK
<1>5. ASSUME NEW r \in Runs, AnalyzeServed(r) PROVE TypeOK'
    <2>1. PICK j \in Analyses :
            /\ \/ j \in Active(analyze) /\ UNCHANGED <<analyze, rows, status>>
               \/ /\ Active(analyze) = {} /\ Fresh(analyze, j)
                  /\ analyze' = [analyze EXCEPT ![j] = "active"]
                  /\ rows' = IF cp.runs[r].rerun THEN 0 ELSE rows
                  /\ status' = "analyzing"
            /\ cp' = [cp EXCEPT !.runs[r] = [@ EXCEPT !.phase = "poll", !.job = j]]
        BY <1>5 DEF AnalyzeServed
    <2>2. cp' \in CandidatePages
        <3>1. /\ cp \in CandidatePages /\ cp.runs \in [Runs -> AnalysisRuns]
              /\ cp.runs[r] \in AnalysisRuns
            BY DEF TypeOK, CandidatePages
        <3>2. [cp.runs[r] EXCEPT !.phase = "poll", !.job = j] \in AnalysisRuns
            BY <3>1, Numbers DEF AnalysisRuns
        <3>3. [cp.runs EXCEPT ![r] = [@ EXCEPT !.phase = "poll", !.job = j]]
                \in [Runs -> AnalysisRuns]
            BY <3>1, <3>2
        <3> QED BY <2>1, <3>1, <3>3 DEF CandidatePages
    <2>3. analyze' \in [Analyses -> JobStates] /\ rows' \in AnyAnalysis /\ status' \in Statuses
        BY <2>1, Numbers DEF TypeOK, JobStates, Statuses
    <2> QED BY <1>5, <1>u, <2>2, <2>3 DEF AnalyzeServed, TypeOK
<1>6. ASSUME NEW r \in Runs, AnalysisRead(r) PROVE TypeOK'
    <2>1. /\ cp \in CandidatePages /\ cp.runs \in [Runs -> AnalysisRuns]
          /\ cp.runs[r] \in AnalysisRuns /\ rows \in AnyAnalysis
        BY DEF TypeOK, CandidatePages
    <2>2. [cp.runs[r] EXCEPT !.phase = "list", !.job = rows] \in AnalysisRuns
        BY <2>1 DEF AnalysisRuns
    <2>3. [cp.runs EXCEPT ![r] = [@ EXCEPT !.phase = "list", !.job = rows]]
            \in [Runs -> AnalysisRuns]
        BY <2>1, <2>2
    <2>4. cp' \in CandidatePages
        BY <1>6, <2>1, <2>3 DEF AnalysisRead, CandidatePages
    <2> QED BY <1>6, <1>q, <2>4 DEF AnalysisRead, TypeOK
<1>7. ASSUME NEW r \in Runs, AnalysisShown(r) \/ RunFails(r) PROVE TypeOK'
    <2>1. cp.runs \in [Runs -> AnalysisRuns] /\ NoRun \in AnalysisRuns
        BY Numbers DEF TypeOK, CandidatePages, NoRun, AnalysisRuns
    <2>2. cp' \in CandidatePages
        <3>1. [cp.runs EXCEPT ![r] = NoRun] \in [Runs -> AnalysisRuns]
            BY <2>1
        <3>2. CASE AnalysisShown(r)
            <4>1. cp.runs[r].job \in AnyAnalysis
                BY <2>1 DEF AnalysisRuns
            <4> QED BY <3>1, <3>2, <4>1 DEF AnalysisShown, TypeOK, CandidatePages
        <3>3. CASE RunFails(r)
            BY <3>1, <3>3 DEF RunFails, TypeOK, CandidatePages
        <3> QED BY <1>7, <3>2, <3>3
    <2> QED BY <1>7, <1>q, <2>2 DEF AnalysisShown, RunFails, TypeOK
<1>8. CASE approve
    <2>1. cp' \in CandidatePages
        BY <1>8 DEF approve, TypeOK, CandidatePages
    <2> QED BY <1>8, <1>q, <2>1 DEF approve, TypeOK
<1>9. CASE ApproveServed
    <2>1. UploadTypeOK'
        BY <1>9, VisitTypes DEF ApproveServed, TypeOK, UploadTypeOK, Pages
    <2> QED BY <1>9, <2>1, FreshTypes DEF ApproveServed, TypeOK, Statuses
<1>10. CASE ApproveNotFound
    <2>1. cp' \in CandidatePages
        BY <1>10, Numbers DEF ApproveNotFound, TypeOK, CandidatePages
    <2> QED BY <1>10, <1>q, <2>1 DEF ApproveNotFound, TypeOK
<1>11. CASE Relisted
    <2>1. PICK shown \in cp.relist :
            \/ cp' = [cp EXCEPT !.cards = shown, !.approvingId = 0, !.relist = {}]
            \/ cp' = [cp EXCEPT !.relist = {}]
        BY <1>11 DEF Relisted
    <2>2. shown \in AnyAnalysis /\ cp \in CandidatePages
        BY DEF TypeOK, CandidatePages
    <2>3. cp' \in CandidatePages
        BY <2>1, <2>2, Numbers DEF CandidatePages
    <2> QED BY <1>11, <1>q, <2>3 DEF Relisted, TypeOK
<1>12. CASE ApproveFails
    <2>1. cp' \in CandidatePages
        BY <1>12, Numbers DEF ApproveFails, TypeOK, CandidatePages
    <2> QED BY <1>12, <1>q, <2>1 DEF ApproveFails, TypeOK
<1> QED BY <1>1, <1>2, <1>3, <1>4, <1>5, <1>6, <1>7, <1>8, <1>9, <1>10, <1>11, <1>12
        DEF CandidateStep

LEMMA ResultTypes ==
    ASSUME TypeOK, ResultStep
    PROVE  TypeOK'
<1>u. UNCHANGED uploadVars => UploadTypeOK'
    BY DEF TypeOK, UploadTypeOK, uploadVars
<1>q. ASSUME rp' \in ResultPages, UNCHANGED <<quietRp, server>> PROVE TypeOK'
    BY <1>q, <1>u DEF TypeOK, quietRp, server
<1>p. Payload \in Loads
    BY DEF Payload, Loads, TypeOK
<1>w. /\ rp \in ResultPages
      /\ \A w \in Watchers, x \in Watches : [rp.watch EXCEPT ![w] = x] \in [Watchers -> Watches]
      /\ NoWatch \in Watches /\ \A j \in Renders : [phase |-> "poll", job |-> j] \in Watches
    BY Numbers DEF TypeOK, ResultPages, Watches, NoWatch
<1>1. CASE LoadResult
    <2>1. rp' \in ResultPages
        BY <1>1, <1>p DEF LoadResult, TypeOK, ResultPages
    <2> QED BY <1>1, <1>q, <2>1 DEF LoadResult
<1>2. CASE ResumeListed
    <2>1. rp' \in ResultPages
        <3>1. ASSUME NEW j \in Renders,
                     rp' = [rp EXCEPT !.resume = "done", !.approving = TRUE,
                                      !.watch["resume"] = [phase |-> "poll", job |-> j]]
              PROVE  rp' \in ResultPages
            BY <3>1, <1>w DEF ResultPages, Watchers
        <3>2. CASE rp' = [rp EXCEPT !.resume = "done"]
            BY <3>2, <1>w DEF ResultPages
        <3>3. Active(render) \subseteq Renders
            BY DEF Active, TypeOK
        <3> QED BY <1>2, <3>1, <3>2, <3>3 DEF ResumeListed
    <2> QED BY <1>2, <1>q, <2>1 DEF ResumeListed
<1>3. CASE buildPreview
    <2>1. rp' \in ResultPages
        BY <1>3 DEF buildPreview, TypeOK, ResultPages
    <2> QED BY <1>3, <1>u, <2>1 DEF buildPreview, TypeOK, Statuses
<1>4. CASE PreviewRefreshed
    <2>1. rp' \in ResultPages
        BY <1>4, <1>p DEF PreviewRefreshed, TypeOK, ResultPages
    <2> QED BY <1>4, <1>q, <2>1 DEF PreviewRefreshed
<1>5. CASE PreviewFails \/ Confirm \/ KeepReviewing \/ beginProcessing \/ ProcessFails
    <2>1. rp' \in ResultPages
        BY <1>5 DEF PreviewFails, Confirm, KeepReviewing, beginProcessing, ProcessFails, TypeOK,
                    ResultPages
    <2> QED BY <1>5, <1>q, <2>1
            DEF PreviewFails, Confirm, KeepReviewing, beginProcessing, ProcessFails
<1>6. CASE ProcessServed
    <2>1. PICK j \in Renders :
            /\ \/ j \in Active(render) /\ UNCHANGED <<render, status>>
               \/ /\ Active(render) = {} /\ Fresh(render, j)
                  /\ render' = [render EXCEPT ![j] = "active"] /\ status' = "processing"
            /\ rp' = [rp EXCEPT !.starting = FALSE,
                                !.watch["start"] = [phase |-> "poll", job |-> j]]
        BY <1>6 DEF ProcessServed
    <2>2. rp' \in ResultPages
        BY <1>w, <2>1 DEF ResultPages, Watchers
    <2>3. render' \in [Renders -> JobStates] /\ status' \in Statuses
        BY <2>1 DEF TypeOK, JobStates, Statuses
    <2> QED BY <1>6, <1>u, <2>2, <2>3 DEF ProcessServed, TypeOK
<1>7. CASE ProcessPhoto
    <2>1. rp' \in ResultPages
        BY <1>7 DEF ProcessPhoto, TypeOK, ResultPages
    <2>2. render' \in [Renders -> JobStates] /\ status' \in Statuses
        BY <1>7 DEF ProcessPhoto, TypeOK, JobStates, Statuses
    <2> QED BY <1>7, <1>u, <2>1, <2>2 DEF ProcessPhoto, TypeOK
<1>8. ASSUME NEW w \in Watchers, PollDone(w) PROVE TypeOK'
    <2>1. rp.watch \in [Watchers -> Watches] /\ rp.watch[w] \in Watches
        BY <1>w DEF ResultPages
    <2>2. [rp.watch[w] EXCEPT !.phase = "refresh"] \in Watches
        BY <2>1 DEF Watches
    <2>3. [rp.watch EXCEPT ![w].phase = "refresh"] \in [Watchers -> Watches]
        BY <2>1, <2>2
    <2>4. rp' \in ResultPages
        BY <1>8, <1>w, <2>3 DEF PollDone, ResultPages
    <2> QED BY <1>8, <1>q, <2>4 DEF PollDone
<1>9. ASSUME NEW w \in Watchers, WatchRefreshed(w) \/ WatchFails(w) PROVE TypeOK'
    <2>1. rp' \in ResultPages
        <3>1. [rp.watch EXCEPT ![w] = NoWatch] \in [Watchers -> Watches]
            BY <1>w
        <3>2. CASE WatchRefreshed(w)
            BY <1>p, <1>w, <3>1, <3>2 DEF WatchRefreshed, ResultPages
        <3>3. CASE WatchFails(w)
            BY <1>w, <3>1, <3>3 DEF WatchFails, ResultPages
        <3> QED BY <1>9, <3>2, <3>3
    <2> QED BY <1>9, <1>q, <2>1 DEF WatchRefreshed, WatchFails
<1> QED BY <1>1, <1>2, <1>3, <1>4, <1>5, <1>6, <1>7, <1>8, <1>9 DEF ResultStep

LEMMA TypeInit == Init => TypeOK
<1> SUFFICES ASSUME Init PROVE TypeOK
    OBVIOUS
<1>1. UploadTypeOK
    BY DEF Init, UploadInit, UploadTypeOK, At, Pages, FreshUpload, UploadPages, NotSending, Calls,
           ProjectRows
<1> QED BY <1>1, FreshTypes, Numbers DEF Init, TypeOK, Statuses, JobStates

LEMMA TypeStep == TypeOK /\ [Next]_vars => TypeOK'
<1> SUFFICES ASSUME TypeOK, [Next]_vars PROVE TypeOK'
    OBVIOUS
<1>1. CASE UNCHANGED vars
    BY <1>1 DEF vars, uploadVars, flowVars, server, TypeOK, UploadTypeOK
<1>2. CASE UploadNext /\ UNCHANGED flowVars
    BY <1>2, UploadTypes DEF flowVars, server, TypeOK
<1> QED BY <1>1, <1>2, ServerTypes, BrowseTypes, CandidateTypes, ResultTypes DEF Next

\* Every variable of the pages and of the server keeps to its type.
THEOREM TypeCorrect == Spec => []TypeOK
BY TypeInit, TypeStep, PTL DEF Spec

-----------------------------------------------------------------------------
(* What the pages keep, beside what the properties say *)

\* A call of start() is for a project that has got so far; the row has the call's file.
CallInv ==
    \A n \in NewProjects :
        /\ sending[n].phase = "initiate" => projects[n].state = "none"
        /\ sending[n].phase = "complete" => projects[n].state = "created"
        /\ sending[n].phase = "compliance" => projects[n].state = "uploaded"
        /\ sending[n].phase \in {"complete", "compliance"} => projects[n].file = sending[n].file

\* The router only goes to projects whose upload is over.  Unless the user went elsewhere
\* meanwhile, a file that waits to be taken is the file of the project the router goes to,
\* and a file that the editor took is the file of the project it shows.
HandInv ==
    /\ pushing # None => projects[pushing].state = "confirmed"
    /\ handoff # None /\ ~strayed => pushing # None /\ projects[pushing].file = handoff
    /\ page.at = "editor" /\ clip # None /\ ~strayed =>
         /\ page.project \in NewProjects
         /\ projects[page.project].state = "confirmed"
         /\ projects[page.project].file = clip
    /\ page.at \in {"candidates", "result"} => ~Uploads

\* An upload page that says it is uploading is on screen, and its own call is at work.
UploadingInv ==
    up.stage = "uploading" =>
        Here /\ up.current \in NewProjects /\ sending[up.current].phase # "none"

\* A page that offers the full render, or is about to ask for it, has shown a preview.
ReviewInv ==
    /\ Rendered => hasClip
    /\ rp.confirming \/ rp.starting \/ rp.project.clip => hasClip

\* The server analyzes once at a time.
OneAnalysis == \A i, j \in Active(analyze) : i = j

\* What the candidates page knows of the server, as long as its history is not crossed.
CardsInv ==
    /\ cp.load # "done" =>
         /\ cp.cards = 0 /\ cp.approval = 0 /\ cp.relist = {}
         /\ \A r \in Runs : cp.runs[r] = NoRun
    /\ cp.load = "read" => cp.snap = rows /\ Active(analyze) = {}
    /\ \A q, r \in Runs : cp.runs[q] # NoRun /\ cp.runs[r] # NoRun => q = r
    /\ cp.cards # 0 =>
         cp.cards = rows /\ Active(analyze) = {} /\ \A r \in Runs : cp.runs[r] = NoRun
    /\ \A r \in Runs : cp.runs[r].phase = "poll" => Active(analyze) \subseteq {cp.runs[r].job}
    /\ \A r \in Runs : cp.runs[r].phase = "list" => cp.runs[r].job = rows /\ Active(analyze) = {}
    /\ cp.approval # 0 =>
         /\ Active(analyze) # {} => rows = 0
         /\ \A r \in Runs : cp.runs[r].phase = "ask" => cp.runs[r].rerun
    /\ \A shown \in cp.relist :
         /\ \A r \in Runs : cp.runs[r] = NoRun
         /\ shown = 0 \/ (shown = rows /\ Active(analyze) = {})

-----------------------------------------------------------------------------
(* Uploads *)

UploadInv == CallInv /\ HandInv /\ UploadingInv

\* A call ends, and the page learns of it if it still waits for it.
LEMMA EndedCall ==
    ASSUME UploadTypeOK, NEW n \in NewProjects, NEW stage, Ended(n, stage)
    PROVE  /\ sending'[n].phase = "none"
           /\ \A m \in NewProjects \ {n} : sending'[m] = sending[m]
           /\ \/ up' = up /\ ~(Here /\ up.current = n)
              \/ up'.stage = stage
BY DEF Ended, UploadTypeOK, NotSending, UploadPages

\* What one upload does to the other ones, to the page that waits for it and to the hand-over.
OneUpload(n) ==
    /\ sending[n].phase # "none"
    /\ \A m \in NewProjects \ {n} : sending'[m] = sending[m] /\ projects'[m] = projects[m]
    /\ UNCHANGED <<page, clip, strayed>>
    /\ \/ up' = up /\ (sending'[n].phase # "none" \/ ~(Here /\ up.current = n))
       \/ up'.stage # "uploading"

LEMMA OneUploadKeeps ==
    ASSUME UploadTypeOK, UploadInv, NEW n \in NewProjects, OneUpload(n)
    PROVE  /\ UploadingInv'
           /\ UNCHANGED <<handoff, pushing>> => HandInv'
           /\ (\A m \in {n} :
                 /\ sending'[m].phase = "initiate" => projects'[m].state = "none"
                 /\ sending'[m].phase = "complete" => projects'[m].state = "created"
                 /\ sending'[m].phase = "compliance" => projects'[m].state = "uploaded"
                 /\ sending'[m].phase \in {"complete", "compliance"} =>
                      projects'[m].file = sending'[m].file) => CallInv'
<1>1. UploadingInv'
    BY DEF OneUpload, UploadInv, UploadingInv, Here
<1>2. ASSUME UNCHANGED <<handoff, pushing>> PROVE HandInv'
    <2>1. projects[n].state # "confirmed"
        <3>1. sending[n] \in Calls
            BY DEF UploadTypeOK
        <3>2. sending[n].phase \in {"initiate", "complete", "compliance"}
            BY <3>1 DEF OneUpload, Calls
        <3> QED BY <3>2 DEF UploadInv, CallInv
    <2>2. Uploads
        BY DEF OneUpload, Uploads
    <2>3. page'.at \notin {"candidates", "result"}
        BY <2>2 DEF OneUpload, UploadInv, HandInv
    <2>4. \A m \in NewProjects : projects[m].state = "confirmed" => projects'[m] = projects[m]
        BY <2>1 DEF OneUpload
    <2> QED BY <1>2, <2>3, <2>4 DEF OneUpload, UploadInv, HandInv, UploadTypeOK
<1>3. ASSUME sending'[n].phase = "initiate" => projects'[n].state = "none",
             sending'[n].phase = "complete" => projects'[n].state = "created",
             sending'[n].phase = "compliance" => projects'[n].state = "uploaded",
             sending'[n].phase \in {"complete", "compliance"} =>
               projects'[n].file = sending'[n].file
      PROVE  CallInv'
    BY <1>3 DEF OneUpload, UploadInv, CallInv
<1> QED BY <1>1, <1>2, <1>3

\* The browser goes to another page, by itself or with the user.
LEMMA FormKeeps ==
    ASSUME UploadTypeOK, UploadInv, UNCHANGED form,
           up'.stage = "uploading" => up.stage = "uploading" /\ up'.current = up.current
    PROVE  UploadInv'
BY DEF UploadInv, CallInv, HandInv, UploadingInv, form, Uploads, Here

LEMMA VisitKeeps ==
    ASSUME UploadTypeOK, UploadInv,
           NEW p \in Pages, NEW n \in NewProjects \union {Old, None}, Visit(p, n),
           UNCHANGED <<sending, projects>>,
           p \in {"candidates", "result"} => ~Uploads,
           \/ pushing # None /\ p = "editor" /\ n = pushing /\ pushing' = None /\ strayed' = strayed
           \/ pushing' = None /\ strayed' = (strayed \/ pushing # None)
           \/ pushing = None /\ UNCHANGED <<pushing, strayed>>
    PROVE  UploadInv'
<1>1. CallInv'
    BY DEF UploadInv, CallInv
<1>2. up' = FreshUpload /\ up'.stage # "uploading"
    BY DEF Visit, FreshUpload
<1>3. UploadingInv'
    BY <1>2 DEF UploadingInv
<1>4. page'.at = p /\ page'.project = n
    BY DEF Visit, At
<1>5. Uploads' <=> Uploads
    BY DEF Uploads
<1>6. /\ p = "editor" => clip' = handoff /\ handoff' = None
      /\ p # "editor" => clip' = None /\ handoff' = handoff
    BY DEF Visit
<1>7. HandInv'
    BY <1>4, <1>5, <1>6 DEF UploadInv, HandInv, UploadTypeOK
<1> QED BY <1>1, <1>3, <1>7 DEF UploadInv

LEMMA UploadKeeps ==
    ASSUME UploadTypeOK, UploadTypeOK', UploadInv, UploadNext
    PROVE  UploadInv'
<1>c. \A n \in NewProjects : sending[n] \in Calls /\ projects[n] \in ProjectRows
    BY DEF UploadTypeOK
<1>1. CASE Arrive
    BY <1>1, VisitKeeps DEF Arrive, Pages, UploadTypeOK
<1>2. CASE setOwnership \/ ChooseDifferent \/ TryAgain
    <2>1. up'.stage = "uploading" => up.stage = "uploading" /\ up'.current = up.current
        BY <1>2 DEF setOwnership, ChooseDifferent, TryAgain, UploadTypeOK, UploadPages
    <2> QED BY <1>2, <2>1, FormKeeps DEF setOwnership, ChooseDifferent, TryAgain
<1>3. ASSUME NEW f \in Files, Choose(f) \/ drop(f) \/ Read(f) PROVE UploadInv'
    <2>1. CASE pick(f)
        <3>1. up'.stage = up.stage /\ up'.current = up.current
            BY <2>1 DEF pick, UploadTypeOK, UploadPages
        <3> QED BY <2>1, <3>1, FormKeeps DEF pick
    <2>2. CASE Read(f)
        <3>1. up'.stage = up.stage /\ up'.current = up.current
            BY <2>2 DEF Read, UploadTypeOK, UploadPages
        <3> QED BY <2>2, <3>1, FormKeeps DEF Read
    <2> QED BY <1>3, <2>1, <2>2 DEF Choose, drop
<1>4. ASSUME NEW n \in NewProjects, StartClicked(n) PROVE UploadInv'
    <2>1. /\ Here /\ projects[n].state = "none" /\ projects' = projects
          /\ sending'[n].phase = "initiate"
          /\ \A m \in NewProjects \ {n} : sending'[m] = sending[m]
          /\ up'.current = n
          /\ UNCHANGED <<page, handoff, pushing, clip, strayed>>
        BY <1>4 DEF StartClicked, start, UploadTypeOK, UploadPages
    <2>2. CallInv'
        BY <2>1 DEF UploadInv, CallInv
    <2>3. HandInv'
        BY <2>1 DEF UploadInv, HandInv, Here
    <2>4. UploadingInv'
        BY <2>1 DEF UploadingInv, Here
    <2> QED BY <2>2, <2>3, <2>4 DEF UploadInv
<1>5. ASSUME NEW n \in NewProjects, Initiated(n) PROVE UploadInv'
    <2>1. /\ projects'[n].state = "created" /\ projects'[n].file = sending[n].file
          /\ \A m \in NewProjects \ {n} : projects'[m] = projects[m]
        BY <1>5 DEF Initiated, UploadTypeOK
    <2>2. CASE Ended(n, "select")
        <3>1. OneUpload(n) /\ sending'[n].phase = "none"
            BY <1>5, <2>1, <2>2, EndedCall DEF Initiated, OneUpload
        <3> QED BY <1>5, <3>1, OneUploadKeeps DEF Initiated, UploadInv
    <2>3. CASE sending' = [sending EXCEPT ![n].phase = "complete"] /\ UNCHANGED up
        <3>1. /\ sending'[n].phase = "complete" /\ sending'[n].file = sending[n].file
              /\ \A m \in NewProjects \ {n} : sending'[m] = sending[m]
            BY <1>c, <2>3 DEF UploadTypeOK, Calls
        <3>2. OneUpload(n)
            BY <1>5, <2>1, <2>3, <3>1 DEF Initiated, OneUpload
        <3> QED BY <1>5, <2>1, <3>1, <3>2, OneUploadKeeps DEF Initiated, UploadInv
    <2> QED BY <1>5, <2>2, <2>3 DEF Initiated
<1>6. ASSUME NEW n \in NewProjects, Completed(n) PROVE UploadInv'
    <2>1. /\ projects'[n].state = "uploaded" /\ projects'[n].file = projects[n].file
          /\ \A m \in NewProjects \ {n} : projects'[m] = projects[m]
        BY <1>c, <1>6 DEF Completed, UploadTypeOK, ProjectRows
    <2>2. /\ sending'[n].phase = "compliance" /\ sending'[n].file = sending[n].file
          /\ \A m \in NewProjects \ {n} : sending'[m] = sending[m]
        BY <1>c, <1>6 DEF Completed, UploadTypeOK, Calls
    <2>3. OneUpload(n)
        BY <1>6, <2>1, <2>2 DEF Completed, OneUpload
    <2>4. projects[n].file = sending[n].file
        BY <1>6 DEF Completed, UploadInv, CallInv
    <2> QED BY <1>6, <2>1, <2>2, <2>3, <2>4, OneUploadKeeps DEF Completed, UploadInv
<1>7. ASSUME NEW n \in NewProjects, Confirmed(n) PROVE UploadInv'
    <2>1. /\ projects'[n].state = "confirmed" /\ projects'[n].file = projects[n].file
          /\ \A m \in NewProjects \ {n} : projects'[m] = projects[m]
        BY <1>c, <1>7 DEF Confirmed, UploadTypeOK, ProjectRows
    <2>2. OneUpload(n) /\ sending'[n].phase = "none"
        BY <1>7, <2>1, EndedCall DEF Confirmed, OneUpload
    <2>3. CallInv' /\ UploadingInv'
        BY <2>2, OneUploadKeeps
    <2>4. /\ pushing' = n /\ handoff' = projects'[n].file
          /\ page' = page /\ clip' = clip /\ strayed' = strayed
        BY <1>7, <2>1 DEF Confirmed, UploadInv, CallInv
    <2>5. Uploads /\ projects[n].state = "uploaded"
        BY <1>7 DEF Confirmed, Uploads, UploadInv, CallInv
    <2>6. HandInv'
        <3>1. page'.at \notin {"candidates", "result"}
            BY <2>4, <2>5 DEF UploadInv, HandInv
        <3>2. ASSUME page'.at = "editor", clip' # None, ~strayed'
              PROVE  /\ page'.project \in NewProjects
                     /\ projects'[page'.project].state = "confirmed"
                     /\ projects'[page'.project].file = clip'
            <4>1. /\ page.project \in NewProjects
                  /\ projects[page.project].state = "confirmed"
                  /\ projects[page.project].file = clip
                BY <2>4, <3>2 DEF UploadInv, HandInv
            <4> QED BY <2>1, <2>4, <2>5, <4>1
        <3> QED BY <2>1, <2>4, <3>1, <3>2, UploadAssumption DEF HandInv
    <2> QED BY <2>3, <2>6 DEF UploadInv
<1>8. ASSUME NEW n \in NewProjects, cancel(n) PROVE UploadInv'
    <2>1. CASE sending[n].phase = "initiate"
        <3>1. /\ sending'[n].phase = "initiate" /\ UNCHANGED <<up, projects>>
              /\ \A m \in NewProjects \ {n} : sending'[m] = sending[m]
            BY <1>c, <1>8, <2>1 DEF cancel, UploadTypeOK, Calls
        <3>2. OneUpload(n)
            BY <1>8, <2>1, <3>1 DEF cancel, OneUpload
        <3>3. projects[n].state = "none"
            BY <2>1 DEF UploadInv, CallInv
        <3> QED BY <1>8, <3>1, <3>2, <3>3, OneUploadKeeps DEF cancel, UploadInv
    <2>2. CASE sending[n].phase # "initiate"
        <3>1. sending[n].phase = "complete" /\ Ended(n, "select")
            BY <1>8, <2>2 DEF cancel
        <3>2. \A m \in NewProjects \ {n} : projects'[m] = projects[m]
            BY <1>8, <2>2 DEF cancel, UploadTypeOK
        <3>3. OneUpload(n) /\ sending'[n].phase = "none"
            BY <1>8, <3>1, <3>2, EndedCall DEF cancel, OneUpload
        <3> QED BY <1>8, <3>3, OneUploadKeeps DEF cancel, UploadInv
    <2> QED BY <2>1, <2>2
<1>9. ASSUME NEW n \in NewProjects, Fails(n) PROVE UploadInv'
    <2>1. \A m \in NewProjects \ {n} : projects'[m] = projects[m]
        BY <1>9 DEF Fails, UploadTypeOK
    <2>2. OneUpload(n) /\ sending'[n].phase = "none"
        BY <1>9, <2>1, EndedCall DEF Fails, OneUpload
    <2> QED BY <1>9, <2>2, OneUploadKeeps DEF Fails, UploadInv
<1> QED BY <1>1, <1>2, <1>3, <1>4, <1>5, <1>6, <1>7, <1>8, <1>9 DEF UploadNext

-----------------------------------------------------------------------------
(* The pages of the project *)

\* Nothing but the upload page and the ways to other pages changes what uploads keep.
LEMMA UploadUntouched ==
    ASSUME UploadInv, UNCHANGED uploadVars
    PROVE  UploadInv'
BY DEF UploadInv, CallInv, HandInv, UploadingInv, Uploads, Here, uploadVars

Working ==
    /\ cp.analyzing => \E r \in Runs : cp.runs[r] # NoRun
    /\ rp.approving => rp.starting \/ \E w \in Watchers : rp.watch[w] # NoWatch

\* The invariant but for what the candidates page shows.
PagesInv == UploadInv /\ Working /\ ReviewInv /\ OneAnalysis

LEMMA ServerKeeps ==
    ASSUME TypeOK, TypeOK', PagesInv, ServerStep
    PROVE  PagesInv'
<1>1. ASSUME NEW j \in Analyses, AnalysisEnds(j) PROVE PagesInv'
    <2>1. UploadInv' /\ Working' /\ ReviewInv'
        BY <1>1, UploadUntouched
           DEF AnalysisEnds, PagesInv, Working, ReviewInv, Rendered
    <2>2. OneAnalysis'
        BY <1>1 DEF AnalysisEnds, PagesInv, OneAnalysis, Active, TypeOK
    <2> QED BY <2>1, <2>2 DEF PagesInv
<1>2. ASSUME NEW j \in Renders, RenderEnds(j) PROVE PagesInv'
    <2>1. UploadInv' /\ Working' /\ OneAnalysis'
        BY <1>2, UploadUntouched DEF RenderEnds, PagesInv, Working, OneAnalysis, Active
    <2>2. Rendered
        BY <1>2 DEF RenderEnds, Rendered
    <2>3. ReviewInv'
        BY <1>2, <2>2 DEF RenderEnds, PagesInv, ReviewInv
    <2> QED BY <2>1, <2>3 DEF PagesInv
<1>3. CASE PreviewEnds
    <2>1. UploadInv' /\ OneAnalysis'
        BY <1>3, UploadUntouched DEF PreviewEnds, PagesInv, OneAnalysis, Active
    <2>2. /\ rp'.confirming = rp.confirming /\ rp'.starting = rp.starting
          /\ rp'.approving = rp.approving /\ rp'.project = rp.project /\ rp'.watch = rp.watch
        BY <1>3 DEF PreviewEnds, TypeOK, ResultPages
    <2>3. hasClip => hasClip'
        BY <1>3 DEF PreviewEnds
    <2>4. Working'
        BY <1>3, <2>2 DEF PreviewEnds, PagesInv, Working
    <2>5. ReviewInv'
        BY <1>3, <2>2, <2>3 DEF PreviewEnds, PagesInv, ReviewInv, Rendered
    <2> QED BY <2>1, <2>4, <2>5 DEF PagesInv
<1>4. CASE SaveMask
    BY <1>4, UploadUntouched
       DEF SaveMask, PagesInv, Working, ReviewInv, Rendered, OneAnalysis, Active
<1> QED BY <1>1, <1>2, <1>3, <1>4 DEF ServerStep

LEMMA BrowseKeeps ==
    ASSUME TypeOK, TypeOK', PagesInv, Browse
    PROVE  PagesInv'
<1>1. ASSUME NEW p \in Pages, NEW n \in {Old, None}, Go(p, n) PROVE PagesInv'
    <2>1. UploadInv'
        BY <1>1, VisitKeeps DEF Go, Navigate, PagesInv, TypeOK
    <2>2. /\ ~cp'.analyzing /\ ~rp'.approving /\ ~rp'.confirming /\ ~rp'.starting
          /\ ~rp'.project.clip /\ UNCHANGED <<hasClip, render, analyze>>
        BY <1>1 DEF Go, FreshCandidates, FreshResult, NoProject, server
    <2> QED BY <2>1, <2>2 DEF PagesInv, Working, ReviewInv, Rendered, OneAnalysis, Active
<1> QED BY <1>1 DEF Browse, Pages

\* A step of the candidates page on which no analysis begins.
LEMMA CandidateQuiet ==
    ASSUME TypeOK, PagesInv, UNCHANGED <<quietCp, hasClip, render, analyze>>,
           cp'.analyzing => \E r \in Runs : cp'.runs[r] # NoRun
    PROVE  PagesInv'
BY UploadUntouched DEF quietCp, PagesInv, Working, ReviewInv, Rendered, OneAnalysis, Active

LEMMA CandidateKeeps ==
    ASSUME TypeOK, TypeOK', PagesInv, CandidateStep
    PROVE  PagesInv'
<1>w. cp.analyzing => \E r \in Runs : cp.runs[r] # NoRun
    BY DEF PagesInv, Working
<1>c. cp \in CandidatePages /\ cp.runs \in [Runs -> AnalysisRuns]
    BY DEF TypeOK, CandidatePages
<1>1. CASE \/ CandidatesProject \/ CandidatesRead
           \/ approve \/ ApproveNotFound \/ Relisted \/ ApproveFails
    <2>1. cp'.analyzing = cp.analyzing /\ cp'.runs = cp.runs
        BY <1>1, <1>c DEF CandidatesProject, CandidatesRead, approve, ApproveNotFound, Relisted,
                          ApproveFails, CandidatePages
    <2>2. UNCHANGED <<quietCp, server>>
        BY <1>1 DEF CandidatesProject, CandidatesRead, approve, ApproveNotFound, Relisted,
                    ApproveFails
    <2> QED BY <1>w, <2>1, <2>2, CandidateQuiet DEF server
\* A run that starts is at work.
<1>2. ASSUME NEW c \in CandidatePages, NEW r \in Runs, NEW rerun \in BOOLEAN
      PROVE  Running(c, r, rerun).runs[r] # NoRun
    BY <1>2 DEF Running, CandidatePages, NoRun
<1>3. CASE CandidatesArrive
    <2> DEFINE shown == [cp EXCEPT !.load = "done", !.cards = cp.snap, !.snap = 0, !.auto = FALSE]
    <2>1. shown \in CandidatePages /\ shown.analyzing = cp.analyzing /\ shown.runs = cp.runs
        BY <1>c, Numbers DEF CandidatePages
    <2>2. cp' = shown \/ \E r \in Runs : cp' = Running(shown, r, FALSE)
        BY <1>3 DEF CandidatesArrive
    <2> HIDE DEF shown
    <2>3. cp'.analyzing => \E r \in Runs : cp'.runs[r] # NoRun
        BY <1>w, <1>2, <2>1, <2>2
    <2> QED BY <1>3, <2>3, CandidateQuiet DEF CandidatesArrive, server
<1>4. ASSUME NEW r \in Runs, RunAgain(r) PROVE PagesInv'
    <2>1. cp'.runs[r] # NoRun
        BY <1>2, <1>4, <1>c DEF RunAgain
    <2> QED BY <1>4, <2>1, CandidateQuiet DEF RunAgain, server
<1>5. ASSUME NEW r \in Runs, AnalyzeServed(r) PROVE PagesInv'
    <2>1. PICK j \in Analyses :
            /\ \/ j \in Active(analyze) /\ UNCHANGED <<analyze, rows, status>>
               \/ /\ Active(analyze) = {} /\ Fresh(analyze, j)
                  /\ analyze' = [analyze EXCEPT ![j] = "active"]
                  /\ rows' = IF cp.runs[r].rerun THEN 0 ELSE rows
                  /\ status' = "analyzing"
            /\ cp' = [cp EXCEPT !.runs[r] = [@ EXCEPT !.phase = "poll", !.job = j]]
        BY <1>5 DEF AnalyzeServed
    <2>2. cp'.runs[r].phase = "poll"
        BY <1>c, <2>1 DEF CandidatePages, AnalysisRuns
    <2>3. Working'
        <3>1. cp'.runs[r] # NoRun
            BY <2>2 DEF NoRun
        <3>2. rp' = rp
            BY <1>5 DEF AnalyzeServed
        <3> QED BY <3>1, <3>2 DEF PagesInv, Working
    <2>4. OneAnalysis'
        BY <2>1 DEF PagesInv, OneAnalysis, Active, TypeOK
    <2>5. UploadInv' /\ ReviewInv'
        BY <1>5, UploadUntouched DEF AnalyzeServed, PagesInv, ReviewInv, Rendered
    <2> QED BY <2>3, <2>4, <2>5 DEF PagesInv
<1>6. ASSUME NEW r \in Runs, AnalysisRead(r) PROVE PagesInv'
    <2>1. cp'.runs[r].phase = "list"
        BY <1>6, <1>c DEF AnalysisRead, CandidatePages, AnalysisRuns
    <2>2. cp'.runs[r] # NoRun
        BY <2>1 DEF NoRun
    <2> QED BY <1>6, <2>2, CandidateQuiet DEF AnalysisRead, server
<1>7. ASSUME NEW r \in Runs, AnalysisShown(r) \/ RunFails(r) PROVE PagesInv'
    <2>1. ~cp'.analyzing
        BY <1>7, <1>c DEF AnalysisShown, RunFails, CandidatePages
    <2> QED BY <1>7, <2>1, CandidateQuiet DEF AnalysisShown, RunFails, server
<1>8. CASE ApproveServed
    <2>1. ~Uploads /\ pushing = None
        BY <1>8 DEF ApproveServed, OnCandidates, PagesInv, UploadInv, HandInv, Uploads,
                    TypeOK, UploadTypeOK
    <2>2. UploadInv'
        BY <1>8, <2>1, VisitKeeps DEF ApproveServed, PagesInv, TypeOK, Pages
    <2>3. ~cp'.analyzing
        BY <1>8 DEF ApproveServed, FreshCandidates
    <2> QED BY <1>8, <2>2, <2>3
            DEF ApproveServed, PagesInv, Working, ReviewInv, Rendered, OneAnalysis, Active
<1> QED BY <1>1, <1>3, <1>4, <1>5, <1>6, <1>7, <1>8 DEF CandidateStep

\* A step of the result page that asks for no render.
LEMMA ResultQuiet ==
    ASSUME TypeOK, PagesInv, UNCHANGED <<quietRp, hasClip, render, analyze>>,
           rp'.approving => rp'.starting \/ \E w \in Watchers : rp'.watch[w] # NoWatch,
           rp'.confirming \/ rp'.starting \/ rp'.project.clip => hasClip
    PROVE  PagesInv'
BY UploadUntouched DEF quietRp, PagesInv, Working, ReviewInv, Rendered, OneAnalysis, Active

LEMMA ResultKeeps ==
    ASSUME TypeOK, TypeOK', PagesInv, ResultStep
    PROVE  PagesInv'
<1>w. rp.approving => rp.starting \/ \E w \in Watchers : rp.watch[w] # NoWatch
    BY DEF PagesInv, Working
<1>v. rp.confirming \/ rp.starting \/ rp.project.clip => hasClip
    BY DEF PagesInv, ReviewInv
<1>r. rp \in ResultPages /\ rp.watch \in [Watchers -> Watches]
    BY DEF TypeOK, ResultPages
<1>p. Payload.clip = hasClip
    BY DEF Payload
<1>1. CASE LoadResult \/ buildPreview \/ PreviewRefreshed \/ PreviewFails \/ KeepReviewing
    <2>1. /\ rp'.approving = rp.approving /\ rp'.starting = rp.starting /\ rp'.watch = rp.watch
          /\ rp'.confirming => rp.confirming
          /\ rp'.project \in {rp.project, Payload}
        BY <1>1, <1>r DEF LoadResult, buildPreview, PreviewRefreshed, PreviewFails, KeepReviewing,
                          ResultPages
    <2>2. UNCHANGED <<quietRp, hasClip, render, analyze>>
        BY <1>1 DEF LoadResult, buildPreview, PreviewRefreshed, PreviewFails, KeepReviewing,
                    server, quietRp
    <2> QED BY <1>w, <1>v, <1>p, <2>1, <2>2, ResultQuiet
<1>2. CASE ResumeListed
    <2>1. /\ rp'.starting = rp.starting /\ rp'.confirming = rp.confirming
          /\ rp'.project = rp.project
          /\ \/ rp'.watch["resume"] # NoWatch
             \/ rp'.approving = rp.approving /\ rp'.watch = rp.watch
        <3>1. ASSUME NEW j,
                     rp' = [rp EXCEPT !.resume = "done", !.approving = TRUE,
                                      !.watch["resume"] = [phase |-> "poll", job |-> j]]
              PROVE  /\ rp'.watch["resume"] # NoWatch /\ rp'.starting = rp.starting
                     /\ rp'.confirming = rp.confirming /\ rp'.project = rp.project
            BY <1>r, <3>1 DEF ResultPages, NoWatch, Watchers
        <3>2. CASE rp' = [rp EXCEPT !.resume = "done"]
            BY <1>r, <3>2 DEF ResultPages
        <3> QED BY <1>2, <3>1, <3>2 DEF ResumeListed
    <2> QED BY <1>2, <1>w, <1>v, <2>1, ResultQuiet DEF ResumeListed, server, Watchers
<1>3. CASE Confirm
    <2>1. rp.project.clip
        BY <1>3 DEF Confirm, ApproveOffered, hasPreview
    <2>2. /\ rp'.approving = rp.approving /\ rp'.starting = rp.starting /\ rp'.watch = rp.watch
          /\ rp'.project = rp.project
        BY <1>3, <1>r DEF Confirm, ResultPages
    <2> QED BY <1>3, <1>w, <1>v, <2>1, <2>2, ResultQuiet DEF Confirm, server
<1>4. CASE beginProcessing
    <2>1. hasClip
        BY <1>4, <1>v DEF beginProcessing, StartOffered, ApproveOffered, hasPreview
    <2>2. rp'.starting
        BY <1>4, <1>r DEF beginProcessing, ResultPages
    <2> QED BY <1>4, <2>1, <2>2, ResultQuiet DEF beginProcessing, server
<1>5. CASE ProcessServed
    <2>1. PICK j \in Renders :
            rp' = [rp EXCEPT !.starting = FALSE, !.watch["start"] = [phase |-> "poll", job |-> j]]
        BY <1>5 DEF ProcessServed
    <2>2. rp'.watch["start"] # NoWatch /\ rp'.confirming = rp.confirming /\ rp'.project = rp.project
        BY <1>r, <2>1 DEF ResultPages, NoWatch, Watchers
    <2>3. UploadInv' /\ OneAnalysis' /\ Working'
        BY <1>5, <2>2, UploadUntouched
           DEF ProcessServed, PagesInv, OneAnalysis, Active, Working, Watchers
    <2>4. hasClip'
        BY <1>5, <1>v DEF ProcessServed
    <2> QED BY <2>3, <2>4 DEF PagesInv, ReviewInv
<1>6. CASE ProcessPhoto
    <2>1. ~rp'.approving
        BY <1>6, <1>r DEF ProcessPhoto, ResultPages
    <2>2. UploadInv' /\ OneAnalysis' /\ Working'
        BY <1>6, <2>1, UploadUntouched DEF ProcessPhoto, PagesInv, OneAnalysis, Active, Working
    <2>3. hasClip'
        BY <1>6, <1>v DEF ProcessPhoto
    <2> QED BY <2>2, <2>3 DEF PagesInv, ReviewInv
<1>7. CASE ProcessFails
    <2>1. /\ ~rp'.approving /\ ~rp'.starting
          /\ rp'.confirming = rp.confirming /\ rp'.project = rp.project
        BY <1>7, <1>r DEF ProcessFails, ResultPages
    <2> QED BY <1>7, <1>v, <2>1, ResultQuiet DEF ProcessFails, server
<1>8. ASSUME NEW w \in Watchers, PollDone(w) PROVE PagesInv'
    <2>1. /\ rp'.approving = rp.approving /\ rp'.starting = rp.starting
          /\ rp'.confirming = rp.confirming /\ rp'.project = rp.project
          /\ rp'.watch[w].phase = "refresh"
        BY <1>8, <1>r DEF PollDone, ResultPages, Watches
    <2>2. rp'.watch[w] # NoWatch
        BY <2>1 DEF NoWatch
    <2> QED BY <1>8, <1>v, <2>1, <2>2, ResultQuiet DEF PollDone, server
<1>9. ASSUME NEW w \in Watchers, WatchRefreshed(w) \/ WatchFails(w) PROVE PagesInv'
    <2>1. /\ ~rp'.approving /\ rp'.starting = rp.starting
          /\ rp'.confirming = rp.confirming /\ rp'.project \in {rp.project, Payload}
        BY <1>9, <1>r DEF WatchRefreshed, WatchFails, ResultPages
    <2> QED BY <1>9, <1>v, <1>p, <2>1, ResultQuiet DEF WatchRefreshed, WatchFails, server
<1> QED BY <1>1, <1>2, <1>3, <1>4, <1>5, <1>6, <1>7, <1>8, <1>9 DEF ResultStep

LEMMA PagesInit == Init => PagesInv
<1> SUFFICES ASSUME Init PROVE PagesInv
    OBVIOUS
<1>1. UploadInv
    BY DEF Init, UploadInit, UploadInv, CallInv, HandInv, UploadingInv, At, FreshUpload, NotSending
<1>2. Working /\ ReviewInv /\ OneAnalysis
    BY DEF Init, Working, FreshCandidates, FreshResult, NoProject, ReviewInv, Rendered,
           OneAnalysis, Active
<1> QED BY <1>1, <1>2 DEF PagesInv

LEMMA PagesStep == TypeOK /\ PagesInv /\ [Next]_vars => PagesInv'
<1> SUFFICES ASSUME TypeOK, PagesInv, [Next]_vars PROVE PagesInv'
    OBVIOUS
<1>1. TypeOK'
    BY TypeStep
<1>2. UNCHANGED flowVars /\ UploadInv' => PagesInv'
    BY DEF flowVars, server, PagesInv, Working, ReviewInv, Rendered, OneAnalysis, Active
<1>3. CASE UNCHANGED vars
    BY <1>2, <1>3, UploadUntouched DEF vars, PagesInv
<1>4. CASE UploadNext /\ UNCHANGED flowVars
    BY <1>1, <1>2, <1>4, UploadKeeps DEF PagesInv, TypeOK
<1> QED BY <1>1, <1>3, <1>4, ServerKeeps, BrowseKeeps, CandidateKeeps, ResultKeeps DEF Next

\* The editor plays the local file only of the project it shows.
THEOREM FileIsTheProjects == Spec => []HandoffMatches
<1>1. PagesInv => HandoffMatches
    BY DEF PagesInv, UploadInv, HandInv, HandoffMatches
<1> QED BY TypeInit, TypeStep, PagesInit, PagesStep, <1>1, PTL DEF Spec

\* No page shows a spinner that nothing will end.
THEOREM SpinnersEnd == Spec => []NoStuckSpinner
<1>1. PagesInv => NoStuckSpinner
    BY DEF PagesInv, UploadInv, UploadingInv, Working, NoStuckSpinner
<1> QED BY TypeInit, TypeStep, PagesInit, PagesStep, <1>1, PTL DEF Spec

\* A render starts only after a preview of the project was built.
THEOREM RendersAreReviewed == Spec => []RenderWasReviewed
<1>1. PagesInv => RenderWasReviewed
    BY DEF PagesInv, ReviewInv, RenderWasReviewed
<1> QED BY TypeInit, TypeStep, PagesInit, PagesStep, <1>1, PTL DEF Spec

-----------------------------------------------------------------------------
(* The cards on screen *)

ListInv == OnCandidates /\ ~crossed => CardsInv

\* The page and what it knows of stay as they were, or it is left.
LEMMA ListQuiet ==
    ASSUME ListInv, UNCHANGED <<cp, rows, analyze, crossed>>, OnCandidates' => OnCandidates
    PROVE  ListInv'
BY DEF ListInv, CardsInv, Active

LEMMA ListFresh ==
    ASSUME cp' = FreshCandidates
    PROVE  ListInv'
BY DEF ListInv, CardsInv, FreshCandidates, NoRun

LEMMA ListUpload ==
    ASSUME ListInv, UploadNext, UNCHANGED flowVars
    PROVE  ListInv'
<1>1. OnCandidates' => OnCandidates
    <2>1. CASE Arrive
        BY <2>1 DEF Arrive, Visit, At, OnCandidates
    <2>2. page' = page \/ Arrive
        BY DEF UploadNext, setOwnership, ChooseDifferent, TryAgain, Choose, drop, pick, Read, form,
               StartClicked, start, Initiated, Completed, Confirmed, cancel, Fails
    <2> QED BY <2>1, <2>2 DEF OnCandidates
<1> QED BY <1>1, ListQuiet DEF flowVars, server

\* At most one analysis is active, so none is when it ends.
LEMMA LastEnds ==
    ASSUME TypeOK, OneAnalysis, NEW j \in Analyses, analyze[j] = "active",
           NEW s \in JobStates \ {"active"}, analyze' = [analyze EXCEPT ![j] = s]
    PROVE  j \in Active(analyze) /\ Active(analyze') = {}
BY DEF TypeOK, OneAnalysis, Active

LEMMA ListServer ==
    ASSUME TypeOK, OneAnalysis, ListInv, ServerStep
    PROVE  ListInv'
<1>1. ASSUME NEW j \in Analyses, AnalysisEnds(j) PROVE ListInv'
    <2>1. j \in Active(analyze) /\ Active(analyze') = {}
        BY <1>1, LastEnds DEF AnalysisEnds, JobStates
    <2> SUFFICES ASSUME OnCandidates, ~crossed PROVE CardsInv'
        BY <1>1 DEF AnalysisEnds, uploadVars, OnCandidates, ListInv
    <2>2. CardsInv /\ cp' = cp
        BY <1>1 DEF ListInv, AnalysisEnds
    <2>3. /\ cp.load # "read" /\ cp.cards = 0
          /\ \A r \in Runs : cp.runs[r].phase # "list"
          /\ \A shown \in cp.relist : shown = 0
        BY <2>1, <2>2 DEF CardsInv
    <2> QED BY <2>1, <2>2, <2>3 DEF CardsInv
<1>2. ASSUME NEW j \in Renders, RenderEnds(j) PROVE ListInv'
    BY <1>2, ListQuiet DEF RenderEnds, uploadVars, OnCandidates
<1>3. CASE PreviewEnds
    BY <1>3, ListQuiet DEF PreviewEnds, uploadVars, OnCandidates
<1>4. CASE SaveMask
    BY <1>4, ListQuiet DEF SaveMask, uploadVars, OnCandidates
<1> QED BY <1>1, <1>2, <1>3, <1>4 DEF ServerStep

LEMMA ListResult ==
    ASSUME ListInv, ResultStep
    PROVE  ListInv'
<1>1. UNCHANGED <<cp, rows, analyze, crossed, page>>
    BY DEF ResultStep, LoadResult, ResumeListed, buildPreview, PreviewRefreshed, PreviewFails,
           Confirm, KeepReviewing, beginProcessing, ProcessServed, ProcessPhoto, ProcessFails,
           PollDone, WatchRefreshed, WatchFails, quietRp, server, uploadVars
<1> QED BY <1>1, ListQuiet DEF OnCandidates

\* What a run that starts leaves of the page.
LEMMA RunningIs ==
    ASSUME NEW c \in CandidatePages, NEW r \in Runs, NEW rerun \in BOOLEAN,
           cp' = Running(c, r, rerun)
    PROVE  /\ cp'.load = c.load /\ cp'.snap = c.snap /\ cp'.approval = c.approval
           /\ cp'.relist = c.relist
           /\ cp'.cards = (IF rerun THEN 0 ELSE c.cards)
           /\ cp'.runs[r].phase = "ask" /\ cp'.runs[r].rerun = rerun
           /\ \A q \in Runs \ {r} : cp'.runs[q] = c.runs[q]
BY DEF Running, CandidatePages

LEMMA ListCandidates ==
    ASSUME TypeOK, OneAnalysis, ListInv, CandidateStep
    PROVE  ListInv'
<1>c. cp \in CandidatePages /\ cp.runs \in [Runs -> AnalysisRuns]
    BY DEF TypeOK, CandidatePages
<1>n. NoRun.phase = "none"
    BY DEF NoRun
<1>1. CASE CandidatesProject
    <2>1. /\ cp'.load \in {"list", "done"} /\ cp'.cards = cp.cards /\ cp'.runs = cp.runs
          /\ cp'.approval = cp.approval /\ cp'.relist = cp.relist /\ cp.load = "project"
          /\ OnCandidates /\ UNCHANGED <<rows, analyze, crossed>>
        BY <1>1, <1>c DEF CandidatesProject, CandidatePages, server
    <2> QED BY <1>n, <2>1 DEF ListInv, CardsInv
<1>2. CASE CandidatesRead
    <2>1. /\ cp'.load = "read" /\ cp'.cards = cp.cards /\ cp'.runs = cp.runs /\ cp'.snap = rows
          /\ cp'.approval = cp.approval /\ cp'.relist = cp.relist /\ cp.load = "list"
          /\ OnCandidates /\ UNCHANGED <<rows, analyze>>
          /\ crossed' = (crossed \/ Active(analyze) # {})
        BY <1>2, <1>c DEF CandidatesRead, CandidatePages, server
    <2> QED BY <1>n, <2>1 DEF ListInv, CardsInv
<1>3. CASE CandidatesArrive
    <2> DEFINE shown == [cp EXCEPT !.load = "done", !.cards = cp.snap, !.snap = 0, !.auto = FALSE]
    <2>1. /\ shown \in CandidatePages /\ shown.load = "done" /\ shown.runs = cp.runs
          /\ shown.cards = cp.snap /\ shown.approval = cp.approval /\ shown.relist = cp.relist
        BY <1>c, Numbers DEF CandidatePages
    <2>2. /\ cp' = shown \/ (cp.snap = 0 /\ \E r \in Runs : cp' = Running(shown, r, FALSE))
          /\ OnCandidates /\ cp.load = "read" /\ UNCHANGED <<rows, analyze, crossed>>
        BY <1>3 DEF CandidatesArrive, server
    <2> HIDE DEF shown
    <2> SUFFICES ASSUME ~crossed PROVE CardsInv'
        BY <2>2 DEF ListInv
    <2>3. /\ cp.snap = rows /\ Active(analyze) = {} /\ cp.approval = 0 /\ cp.relist = {}
          /\ \A r \in Runs : cp.runs[r] = NoRun
        BY <2>2 DEF ListInv, CardsInv
    <2>4. CASE cp' = shown
        BY <1>n, <2>1, <2>2, <2>3, <2>4 DEF CardsInv
    <2>5. ASSUME cp.snap = 0, NEW r \in Runs, cp' = Running(shown, r, FALSE) PROVE CardsInv'
        <3>1. /\ cp'.load = "done" /\ cp'.cards = 0 /\ cp'.approval = 0 /\ cp'.relist = {}
              /\ cp'.runs[r].phase = "ask"
              /\ \A q \in Runs \ {r} : cp'.runs[q] = NoRun
            <4>1. FALSE \in BOOLEAN
                OBVIOUS
            <4>2. /\ cp'.load = shown.load /\ cp'.cards = shown.cards
                  /\ cp'.approval = shown.approval /\ cp'.relist = shown.relist
                  /\ cp'.runs[r].phase = "ask"
                  /\ \A q \in Runs \ {r} : cp'.runs[q] = shown.runs[q]
                BY <2>1, <2>5, <4>1, RunningIs
            <4> QED BY <2>1, <2>3, <2>5, <4>2
        <3> QED BY <1>n, <2>2, <2>3, <3>1 DEF CardsInv
    <2> QED BY <2>2, <2>4, <2>5
<1>4. ASSUME NEW r \in Runs, RunAgain(r) PROVE ListInv'
    <2>1. /\ cp'.load = cp.load /\ cp'.cards = 0 /\ cp'.approval = cp.approval
          /\ cp'.relist = cp.relist
          /\ cp'.runs[r].phase = "ask" /\ cp'.runs[r].rerun
          /\ \A q \in Runs \ {r} : cp'.runs[q] = cp.runs[q]
        <3>1. cp' = Running(cp, r, TRUE) /\ TRUE \in BOOLEAN
            BY <1>4 DEF RunAgain
        <3> QED BY <1>c, <3>1, RunningIs
    <2>2. /\ OnCandidates /\ UNCHANGED <<rows, analyze>>
          /\ crossed' = \/ crossed \/ cp.load # "done" \/ cp.relist # {}
                        \/ \E q \in Runs : cp.runs[q] # NoRun
        BY <1>4 DEF RunAgain, server
    <2> SUFFICES ASSUME ~crossed' PROVE CardsInv'
        BY DEF ListInv
    <2>3. CardsInv /\ cp.load = "done" /\ cp.relist = {} /\ \A q \in Runs : cp.runs[q] = NoRun
        BY <2>2 DEF ListInv
    <2> QED BY <1>n, <2>1, <2>2, <2>3 DEF CardsInv
<1>5. ASSUME NEW r \in Runs, AnalyzeServed(r) PROVE ListInv'
    <2>1. PICK j \in Analyses :
            /\ \/ j \in Active(analyze) /\ UNCHANGED <<analyze, rows, status>>
               \/ /\ Active(analyze) = {} /\ Fresh(analyze, j)
                  /\ analyze' = [analyze EXCEPT ![j] = "active"]
                  /\ rows' = IF cp.runs[r].rerun THEN 0 ELSE rows
                  /\ status' = "analyzing"
            /\ cp' = [cp EXCEPT !.runs[r] = [@ EXCEPT !.phase = "poll", !.job = j]]
        BY <1>5 DEF AnalyzeServed
    <2>2. /\ cp'.load = cp.load /\ cp'.cards = cp.cards /\ cp'.approval = cp.approval
          /\ cp'.snap = cp.snap /\ cp'.relist = cp.relist
          /\ cp'.runs[r].phase = "poll" /\ cp'.runs[r].job = j
          /\ \A q \in Runs \ {r} : cp'.runs[q] = cp.runs[q]
        BY <1>c, <2>1 DEF CandidatePages, AnalysisRuns
    <2>3. OnCandidates /\ crossed' = crossed /\ page' = page /\ cp.runs[r].phase = "ask"
        BY <1>5 DEF AnalyzeServed, uploadVars
    <2> SUFFICES ASSUME ~crossed PROVE CardsInv'
        BY <2>3 DEF ListInv
    <2>4. CardsInv /\ cp.runs[r] # NoRun
        BY <1>n, <2>3 DEF ListInv
    <2>5. /\ cp.load = "done" /\ cp.cards = 0 /\ \A q \in Runs \ {r} : cp.runs[q] = NoRun
          /\ cp.relist = {}
        BY <2>4 DEF CardsInv, CandidatePages
    <2>6. Active(analyze') = {j}
        BY <2>1 DEF OneAnalysis, Active, TypeOK
    <2>7. cp.approval # 0 => rows' = 0
        BY <2>1, <2>3, <2>4 DEF CardsInv
    <2> QED BY <1>n, <2>2, <2>5, <2>6, <2>7 DEF CardsInv
<1>6. ASSUME NEW r \in Runs, AnalysisRead(r) PROVE ListInv'
    <2>1. /\ cp'.load = cp.load /\ cp'.cards = cp.cards /\ cp'.approval = cp.approval
          /\ cp'.snap = cp.snap /\ cp'.relist = cp.relist
          /\ cp'.runs[r].phase = "list" /\ cp'.runs[r].job = rows
          /\ \A q \in Runs \ {r} : cp'.runs[q] = cp.runs[q]
        BY <1>c, <1>6 DEF AnalysisRead, CandidatePages, AnalysisRuns
    <2>2. /\ OnCandidates /\ cp.runs[r].phase = "poll" /\ analyze[cp.runs[r].job] = "completed"
          /\ UNCHANGED <<rows, analyze, crossed>>
        BY <1>6 DEF AnalysisRead, server
    <2> SUFFICES ASSUME ~crossed PROVE CardsInv'
        BY <2>2 DEF ListInv
    <2>3. CardsInv /\ cp.runs[r] # NoRun
        BY <1>n, <2>2 DEF ListInv
    <2>4. Active(analyze) \subseteq {cp.runs[r].job}
        BY <2>2, <2>3 DEF CardsInv
    <2>5. Active(analyze) = {}
        BY <2>2, <2>4 DEF Active
    <2>6. /\ cp.load = "done" /\ cp.cards = 0 /\ \A q \in Runs \ {r} : cp.runs[q] = NoRun
          /\ cp.relist = {}
        BY <2>3 DEF CardsInv, CandidatePages
    <2> QED BY <1>n, <2>1, <2>2, <2>3, <2>5, <2>6 DEF CardsInv
<1>7. ASSUME NEW r \in Runs, AnalysisShown(r) \/ RunFails(r) PROVE ListInv'
    <2>1. /\ cp'.load = cp.load /\ cp'.approval = cp.approval /\ cp'.snap = cp.snap
          /\ cp'.relist = cp.relist
          /\ cp'.runs[r] = NoRun /\ \A q \in Runs \ {r} : cp'.runs[q] = cp.runs[q]
          /\ OnCandidates /\ UNCHANGED <<rows, analyze, crossed>> /\ cp.runs[r] # NoRun
        BY <1>7, <1>c, <1>n DEF AnalysisShown, RunFails, CandidatePages, server
    <2> SUFFICES ASSUME ~crossed PROVE CardsInv'
        BY <2>1 DEF ListInv
    <2>2. CardsInv
        BY <2>1 DEF ListInv
    <2>3. /\ cp.load = "done" /\ cp.cards = 0 /\ \A q \in Runs : cp'.runs[q] = NoRun
          /\ cp.relist = {}
        BY <2>1, <2>2 DEF CardsInv, CandidatePages
    <2>4. cp'.cards = 0 \/ (cp'.cards = rows /\ Active(analyze) = {})
        <3>1. CASE AnalysisShown(r)
            <4>1. cp'.cards = cp.runs[r].job /\ cp.runs[r].phase = "list"
                BY <1>c, <3>1 DEF AnalysisShown, CandidatePages
            <4> QED BY <2>2, <4>1 DEF CardsInv
        <3>2. CASE RunFails(r)
            <4>1. cp'.cards = cp.cards
                BY <1>c, <3>2 DEF RunFails, CandidatePages
            <4> QED BY <2>3, <4>1
        <3> QED BY <1>7, <3>1, <3>2
    <2> QED BY <1>n, <2>1, <2>2, <2>3, <2>4 DEF CardsInv
<1>8. CASE approve
    <2>1. /\ cp'.load = cp.load /\ cp'.cards = cp.cards /\ cp'.snap = cp.snap /\ cp'.runs = cp.runs
          /\ cp'.relist = cp.relist /\ cp.cards # 0
          /\ OnCandidates /\ UNCHANGED <<rows, analyze, crossed>>
        BY <1>8, <1>c DEF approve, CardsOffered, CandidatePages, server
    <2> QED BY <1>n, <2>1 DEF ListInv, CardsInv
<1>9. CASE ApproveServed
    BY <1>9, ListFresh DEF ApproveServed
<1>10. CASE ApproveNotFound
    <2>1. /\ cp'.load = cp.load /\ cp'.cards = cp.cards /\ cp'.snap = cp.snap /\ cp'.runs = cp.runs
          /\ cp'.relist = {rows} /\ cp'.approval = 0 /\ cp.approval # 0
          /\ OnCandidates /\ UNCHANGED <<rows, analyze>>
          /\ crossed' = (crossed \/ \E r \in Runs : cp.runs[r] # NoRun)
        BY <1>10, <1>c DEF ApproveNotFound, CandidatePages, server
    <2> SUFFICES ASSUME ~crossed' PROVE CardsInv'
        BY DEF ListInv
    <2>2. CardsInv /\ \A r \in Runs : cp.runs[r] = NoRun
        BY <2>1 DEF ListInv
    <2>3. cp.load = "done" /\ (Active(analyze) # {} => rows = 0)
        BY <2>1, <2>2 DEF CardsInv
    <2> QED BY <1>n, <2>1, <2>2, <2>3 DEF CardsInv
<1>11. CASE Relisted
    <2>1. PICK shown \in cp.relist :
            \/ cp' = [cp EXCEPT !.cards = shown, !.approvingId = 0, !.relist = {}]
            \/ cp' = [cp EXCEPT !.relist = {}]
        BY <1>11 DEF Relisted
    <2>2. /\ cp'.load = cp.load /\ cp'.cards \in {shown, cp.cards} /\ cp'.snap = cp.snap
          /\ cp'.runs = cp.runs /\ cp'.relist = {} /\ cp'.approval = cp.approval
        BY <2>1, <1>c DEF CandidatePages
    <2>3. OnCandidates /\ UNCHANGED <<rows, analyze, crossed>>
        BY <1>11 DEF Relisted, server
    <2> SUFFICES ASSUME ~crossed PROVE CardsInv'
        BY <2>3 DEF ListInv
    <2>4. CardsInv
        BY <2>3 DEF ListInv
    <2>5. /\ cp.load = "done" /\ \A r \in Runs : cp.runs[r] = NoRun
          /\ shown = 0 \/ (shown = rows /\ Active(analyze) = {})
        BY <2>1, <2>4 DEF CardsInv
    <2>6. cp'.cards = 0 \/ (cp'.cards = rows /\ Active(analyze) = {})
        BY <2>2, <2>4, <2>5 DEF CardsInv
    <2> QED BY <1>n, <2>2, <2>3, <2>4, <2>5, <2>6 DEF CardsInv
<1>12. CASE ApproveFails
    <2>1. /\ cp'.load = cp.load /\ cp'.cards = cp.cards /\ cp'.snap = cp.snap /\ cp'.runs = cp.runs
          /\ cp'.relist = cp.relist /\ cp'.approval = 0
          /\ OnCandidates /\ UNCHANGED <<rows, analyze, crossed>>
        BY <1>12, <1>c DEF ApproveFails, CandidatePages, server
    <2> QED BY <2>1 DEF ListInv, CardsInv
<1> QED BY <1>1, <1>2, <1>3, <1>4, <1>5, <1>6, <1>7, <1>8, <1>9, <1>10, <1>11, <1>12
        DEF CandidateStep

LEMMA ListInit == Init => ListInv
BY DEF Init, UploadInit, At, ListInv, OnCandidates

LEMMA ListStep == TypeOK /\ PagesInv /\ ListInv /\ [Next]_vars => ListInv'
<1> SUFFICES ASSUME TypeOK, PagesInv, ListInv, [Next]_vars PROVE ListInv'
    OBVIOUS
<1>1. CASE UNCHANGED vars
    BY <1>1, ListQuiet DEF vars, flowVars, server, uploadVars, OnCandidates
<1>2. CASE Browse
    BY <1>2, ListFresh DEF Browse, Go
<1> QED BY <1>1, <1>2, ListUpload, ListServer, ListCandidates, ListResult DEF Next, PagesInv

\* A candidate on screen at rest is one the server still has.
THEOREM CardsAreTrue == Spec => []ShownCardsExist
<1>1. ListInv => ShownCardsExist
    BY DEF ListInv, CardsInv, ShownCardsExist
<1> QED BY TypeInit, TypeStep, PagesInit, PagesStep, ListInit, ListStep, <1>1, PTL DEF Spec
=============================================================================
