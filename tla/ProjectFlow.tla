---------------------------- MODULE ProjectFlow ----------------------------
(***************************************************************************)
(* The pages of a project after its upload: the candidates of the AI        *)
(* detection (app/projects/[id]/candidates/page.tsx) and the review and      *)
(* export of the result (components/PreviewApproveScreen.tsx), over the      *)
(* routes and jobs of the server they call.                                  *)
(*                                                                          *)
(* The project they are about is Old; a project that is uploaded during the *)
(* visit gets as far as its editor.  A page that is left loses its state;    *)
(* what it asked the server to do goes on, and so does a route whose caller  *)
(* has gone.                                                                 *)
(***************************************************************************)
EXTENDS Upload

CONSTANTS
    MaxAnalyses,  \* bound: analyze jobs of one visit
    MaxRenders    \* bound: processing jobs of one visit

ASSUME FlowAssumption == MaxAnalyses \in Nat /\ MaxRenders \in Nat

Analyses == 1 .. MaxAnalyses
Renders == 1 .. MaxRenders
AnyAnalysis == 0 .. MaxAnalyses      \* 0 for none
AnyRender == 0 .. MaxRenders
Statuses == {"uploaded", "analyzing", "awaiting_review", "preview_processing",
             "preview_ready", "processing", "completed", "failed"}
JobStates == {"none", "active", "completed", "failed"}
Runs == {"first", "second"}          \* runs of runAnalysis on one page
Watchers == {"start", "resume"}      \* watchJob of beginProcessing and of the resume effect

VARIABLES
    media,       \* "photo" or "video"
    status,      \* server: the project's status
    rows,        \* server: the analysis the candidate rows are of, 0 for none
    hasMask,     \* server: a mask is saved
    hasClip,     \* server: a preview clip is stored
    previewing,  \* server: POST /preview at work
    analyze,     \* server: analyze jobs
    render,      \* server: processing jobs
    cp,          \* state of the candidates page
    rp,          \* state of the result page
    crossed      \* history: a run was started while a list was on its way or another run
                 \* at work, or a list was read while an earlier visit's analysis or, after
                 \* a refused approval, a run was at work

server == <<media, status, rows, hasMask, hasClip, previewing, analyze, render>>
flowVars == <<server, cp, rp, crossed>>
vars == <<uploadVars, flowVars>>

NoRun == [phase |-> "none", rerun |-> FALSE, job |-> 0]
FreshCandidates == [load |-> "project", auto |-> FALSE, snap |-> 0, cards |-> 0,
                    runs |-> [r \in Runs |-> NoRun],
                    analyzing |-> FALSE, approvingId |-> 0, approval |-> 0, relist |-> {}]
NoProject == [status |-> "none", clip |-> FALSE]
NoWatch == [phase |-> "none", job |-> 0]
FreshResult == [project |-> NoProject, resume |-> "project", building |-> "no",
                confirming |-> FALSE, approving |-> FALSE, starting |-> FALSE,
                watch |-> [w \in Watchers |-> NoWatch]]

\* A run polls its job; then job is the analysis of which it has read the list.
AnalysisRuns == [phase : {"none", "ask", "poll", "list"}, rerun : BOOLEAN, job : AnyAnalysis]
CandidatePages == [load : {"project", "list", "read", "done"}, auto : BOOLEAN,
                   snap : AnyAnalysis, cards : AnyAnalysis,
                   runs : [Runs -> AnalysisRuns],
                   analyzing : BOOLEAN, approvingId : AnyAnalysis,
                   approval : AnyAnalysis, relist : SUBSET AnyAnalysis]
Loads == [status : Statuses \union {"none"}, clip : BOOLEAN]
Watches == [phase : {"none", "poll", "refresh"}, job : AnyRender]
ResultPages == [project : Loads, resume : {"project", "list", "done"},
                building : {"no", "sent", "refresh"},
                confirming : BOOLEAN, approving : BOOLEAN, starting : BOOLEAN,
                watch : [Watchers -> Watches]]

TypeOK ==
    /\ UploadTypeOK
    /\ media \in {"photo", "video"}
    /\ status \in Statuses
    /\ rows \in AnyAnalysis
    /\ hasMask \in BOOLEAN /\ hasClip \in BOOLEAN /\ previewing \in BOOLEAN
    /\ analyze \in [Analyses -> JobStates]
    /\ render \in [Renders -> JobStates]
    /\ cp \in CandidatePages
    /\ rp \in ResultPages
    /\ crossed \in BOOLEAN

Init ==
    /\ UploadInit
    /\ media \in {"photo", "video"}
    /\ status = "uploaded" /\ rows = 0
    /\ hasMask \in BOOLEAN /\ hasClip = FALSE /\ previewing = FALSE
    /\ analyze = [j \in Analyses |-> "none"]
    /\ render = [j \in Renders |-> "none"]
    /\ cp = FreshCandidates /\ rp = FreshResult
    /\ crossed = FALSE

-----------------------------------------------------------------------------
(* The server.                                                             *)

Active(jobs) == {j \in DOMAIN jobs : jobs[j] = "active"}
Unused(jobs) == {j \in DOMAIN jobs : jobs[j] = "none"}
Fresh(jobs, j) == j \in Unused(jobs) /\ \A i \in Unused(jobs) : j <= i
Rendered == \E j \in Renders : render[j] # "none"

\* A worker finishes the analysis: its rows replace the earlier ones, or the
\* rows are gone and none was found, or it fails.
AnalysisEnds(j) ==
    /\ analyze[j] = "active"
    /\ \/ /\ analyze' = [analyze EXCEPT ![j] = "completed"]
          /\ rows' \in {0, j} /\ status' = "awaiting_review"
       \/ /\ analyze' = [analyze EXCEPT ![j] = "failed"]
          /\ rows' \in {0, rows} /\ status' = "failed"
    /\ UNCHANGED <<uploadVars, media, hasMask, hasClip, previewing, render, cp, rp, crossed>>

RenderEnds(j) ==
    /\ render[j] = "active"
    /\ \E end \in {"completed", "failed"} :
         render' = [render EXCEPT ![j] = end] /\ status' = end
    /\ UNCHANGED <<uploadVars, media, rows, hasMask, hasClip, previewing, analyze, cp, rp, crossed>>

\* POST /preview returns with a clip or fails, whoever waits for it.
PreviewEnds ==
    /\ previewing
    /\ previewing' = FALSE
    /\ \/ status' = "preview_ready" /\ hasClip' = TRUE
       \/ status' = "failed" /\ UNCHANGED hasClip
    /\ rp' = IF rp.building = "sent"
             THEN [rp EXCEPT !.building = IF status' = "failed" THEN "no" ELSE "refresh"] ELSE rp
    /\ UNCHANGED <<uploadVars, media, rows, hasMask, analyze, render, cp, crossed>>

-----------------------------------------------------------------------------
(* Navigation, and the editor of the project as far as it matters here.    *)

\* Bound: a visit either uploads or works on Old.
Uploads == \E n \in NewProjects : sending[n].phase # "none" \/ projects[n].state # "none"
Worked == previewing \/ hasClip \/ rows # 0 \/ Unused(analyze) # Analyses \/ Unused(render) # Renders

Go(p, n) ==
    /\ Navigate(p, n)
    /\ p \in {"candidates", "result"} => ~Uploads
    /\ p = "upload" => ~Worked
    /\ cp' = FreshCandidates /\ rp' = FreshResult
    /\ UNCHANGED <<server, crossed>>

\* A mask is saved in the editor (MaskEditor).
SaveMask ==
    /\ page = At("editor", Old) /\ ~hasMask
    /\ hasMask' = TRUE
    /\ UNCHANGED <<uploadVars, media, status, rows, hasClip, previewing, analyze, render, cp, rp, crossed>>

-----------------------------------------------------------------------------
(* The candidates page.                                                    *)

OnCandidates == page.at = "candidates"
quietCp == <<uploadVars, rp>>

\* The project is loaded first; a first visit will run the analysis.
CandidatesProject ==
    /\ OnCandidates /\ cp.load = "project"
    /\ \/ cp' = [cp EXCEPT !.load = "list", !.auto = (status # "awaiting_review")]
       \/ cp' = [cp EXCEPT !.load = "done"]
    /\ UNCHANGED <<quietCp, server, crossed>>

CandidatesRead ==
    /\ OnCandidates /\ cp.load = "list"
    /\ cp' = [cp EXCEPT !.load = "read", !.snap = rows]
    /\ crossed' = (crossed \/ Active(analyze) # {})
    /\ UNCHANGED <<quietCp, server>>

\* Mutated form of Running: a rerun keeps the cards on screen.
RunningKeepsCards(c, r, rerun) ==
    [c EXCEPT !.runs[r] = [phase |-> "ask", rerun |-> rerun, job |-> 0],
              !.analyzing = TRUE, !.approvingId = 0]

\* A run starts: a rerun clears the cards, whose rows it will delete.
Running(c, r, rerun) ==
    [c EXCEPT !.runs[r] = [phase |-> "ask", rerun |-> rerun, job |-> 0],
              !.analyzing = TRUE, !.approvingId = 0, !.cards = IF rerun THEN 0 ELSE @]

\* The first list replaces the cards; an empty one starts the analysis unless
\* the project awaits its review.
CandidatesArrive ==
    /\ OnCandidates /\ cp.load = "read"
    /\ LET shown == [cp EXCEPT !.load = "done", !.cards = cp.snap, !.snap = 0, !.auto = FALSE] IN
       \/ /\ cp.snap = 0 /\ cp.auto
          /\ \E r \in Runs : cp.runs[r] = NoRun /\ cp' = Running(shown, r, FALSE)
       \/ /\ ~(cp.snap = 0 /\ cp.auto)
          /\ cp' = shown
    /\ UNCHANGED <<quietCp, server, crossed>>

\* "Run again", "Run detection again": offered as soon as the project is there.
RunAgain(r) ==
    /\ OnCandidates /\ cp.load # "project" /\ ~cp.analyzing /\ cp.runs[r] = NoRun
    /\ cp' = Running(cp, r, TRUE)
    /\ crossed' = \/ crossed \/ cp.load # "done" \/ cp.relist # {}
                  \/ \E q \in Runs : cp.runs[q] # NoRun
    /\ UNCHANGED <<quietCp, server>>

\* POST /analyze answers with the active job; or a rerun clears the rows and a
\* job is queued.
AnalyzeServed(r) ==
    /\ OnCandidates /\ cp.runs[r].phase = "ask"
    /\ \E j \in Analyses :
         /\ \/ j \in Active(analyze) /\ UNCHANGED <<analyze, rows, status>>
            \/ /\ Active(analyze) = {} /\ Fresh(analyze, j)
               /\ analyze' = [analyze EXCEPT ![j] = "active"]
               /\ rows' = IF cp.runs[r].rerun THEN 0 ELSE rows
               /\ status' = "analyzing"
         /\ cp' = [cp EXCEPT !.runs[r] = [@ EXCEPT !.phase = "poll", !.job = j]]
    /\ UNCHANGED <<uploadVars, media, hasMask, hasClip, previewing, render, rp, crossed>>

\* The job is done and its rows are read.
AnalysisRead(r) ==
    /\ OnCandidates /\ cp.runs[r].phase = "poll" /\ analyze[cp.runs[r].job] = "completed"
    /\ cp' = [cp EXCEPT !.runs[r] = [@ EXCEPT !.phase = "list", !.job = rows]]
    /\ UNCHANGED <<quietCp, server, crossed>>

AnalysisShown(r) ==
    /\ OnCandidates /\ cp.runs[r].phase = "list"
    /\ cp' = [cp EXCEPT !.runs[r] = NoRun, !.analyzing = FALSE, !.cards = cp.runs[r].job]
    /\ UNCHANGED <<quietCp, server, crossed>>

\* The job failed, or any call of the run did.
RunFails(r) ==
    /\ OnCandidates /\ cp.runs[r] # NoRun
    /\ cp' = [cp EXCEPT !.runs[r] = NoRun, !.analyzing = FALSE]
    /\ UNCHANGED <<quietCp, server, crossed>>

CardsOffered == ~cp.analyzing /\ cp.approvingId = 0 /\ cp.cards # 0

approve ==
    /\ OnCandidates /\ CardsOffered
    /\ cp.approval = 0 /\ cp.relist = {}    \* bound: one approval in flight
    /\ cp' = [cp EXCEPT !.approvingId = cp.cards, !.approval = cp.cards]
    /\ UNCHANGED <<quietCp, server, crossed>>

\* The candidate becomes the mask and the editor opens.
ApproveServed ==
    /\ OnCandidates /\ cp.approval # 0 /\ cp.approval = rows
    /\ hasMask' = TRUE /\ status' = "uploaded"
    /\ Visit("editor", Old)
    /\ cp' = FreshCandidates
    /\ UNCHANGED <<sending, projects, pushing, strayed, media, rows, hasClip, previewing,
                   analyze, render, rp, crossed>>

\* A candidate that a rerun has replaced is not found: the list is read again.
ApproveNotFound ==
    /\ OnCandidates /\ cp.approval \notin {0, rows}
    /\ cp' = [cp EXCEPT !.approval = 0, !.relist = {rows}]
    /\ crossed' = (crossed \/ \E r \in Runs : cp.runs[r] # NoRun)
    /\ UNCHANGED <<quietCp, server>>

\* The list arrives, or it does not and the button goes on saying that it approves.
Relisted ==
    /\ OnCandidates
    /\ \E shown \in cp.relist :
         \/ cp' = [cp EXCEPT !.cards = shown, !.approvingId = 0, !.relist = {}]
         \/ cp' = [cp EXCEPT !.relist = {}]
    /\ UNCHANGED <<quietCp, server, crossed>>

ApproveFails ==
    /\ OnCandidates /\ cp.approval # 0
    /\ cp' = [cp EXCEPT !.approvingId = 0, !.approval = 0]
    /\ UNCHANGED <<quietCp, server, crossed>>

-----------------------------------------------------------------------------
(* The result page: load, preview.                                         *)

OnResult == page.at = "result"
quietRp == <<uploadVars, cp, crossed>>
Loaded == rp.project # NoProject
hasPreview == rp.project.clip
Payload == [status |-> status, clip |-> hasClip]

\* The project is loaded, and the effect that depends on it asks for jobs.
LoadResult ==
    /\ OnResult /\ ~Loaded
    /\ rp' = [rp EXCEPT !.project = Payload, !.resume = "list"]
    /\ UNCHANGED <<quietRp, server>>

\* A processing job of an earlier visit is watched; failures are swallowed.
ResumeListed ==
    /\ OnResult /\ rp.resume = "list"
    /\ \/ \E j \in Active(render) :
            rp' = [rp EXCEPT !.resume = "done", !.approving = TRUE,
                             !.watch["resume"] = [phase |-> "poll", job |-> j]]
       \/ rp' = [rp EXCEPT !.resume = "done"]
    /\ UNCHANGED <<quietRp, server>>

PreviewOffered == Loaded /\ rp.building = "no"

\* POST /preview: refused without a mask, at work otherwise.  Bound: one at a
\* time on the server.
buildPreview ==
    /\ OnResult /\ PreviewOffered /\ ~previewing /\ hasMask
    /\ previewing' = TRUE /\ status' = "preview_processing"
    /\ rp' = [rp EXCEPT !.building = "sent"]
    /\ UNCHANGED <<uploadVars, media, rows, hasMask, hasClip, analyze, render, cp, crossed>>

\* The project is read again, with the signed address of its clip.
PreviewRefreshed ==
    /\ OnResult /\ rp.building = "refresh"
    /\ \/ rp' = [rp EXCEPT !.building = "no", !.project = Payload]
       \/ rp' = [rp EXCEPT !.building = "no"]
    /\ UNCHANGED <<quietRp, server>>

\* Mutated form of PreviewFails: the button says that it failed.
PreviewFailsAloud ==
    /\ OnResult /\ rp.building = "sent"
    /\ rp' = [rp EXCEPT !.building = "failed"]
    /\ UNCHANGED <<quietRp, server>>

\* The answer does not come in time; the route works on.
PreviewFails ==
    /\ OnResult /\ rp.building = "sent"
    /\ rp' = [rp EXCEPT !.building = "no"]
    /\ UNCHANGED <<quietRp, server>>

-----------------------------------------------------------------------------
(* The result page: approval, watching, download.                          *)

ApproveOffered == Loaded /\ rp.project.status # "completed" /\ hasPreview /\ ~rp.approving

\* "Approve and process full video" opens the dialog.
Confirm ==
    /\ OnResult /\ media = "video" /\ ApproveOffered /\ ~rp.confirming
    /\ rp' = [rp EXCEPT !.confirming = TRUE]
    /\ UNCHANGED <<quietRp, server>>

\* "Keep reviewing", Escape, a click beside the dialog.
KeepReviewing ==
    /\ OnResult /\ rp.confirming
    /\ rp' = [rp EXCEPT !.confirming = FALSE]
    /\ UNCHANGED <<quietRp, server>>

\* "Start full processing" in the dialog; a photo needs no dialog.
StartOffered == rp.confirming \/ (media = "photo" /\ ApproveOffered)

\* Mutated form of beginProcessing: no preview is needed.
beginUnreviewed ==
    /\ OnResult /\ ~rp.approving /\ Loaded
    /\ rp' = [rp EXCEPT !.confirming = FALSE, !.approving = TRUE, !.starting = TRUE]
    /\ UNCHANGED <<quietRp, server>>

beginProcessing ==
    /\ OnResult /\ ~rp.approving /\ StartOffered
    /\ rp' = [rp EXCEPT !.confirming = FALSE, !.approving = TRUE, !.starting = TRUE]
    /\ UNCHANGED <<quietRp, server>>

\* POST /process for a video: the active job, or a new one; it is watched.
ProcessServed ==
    /\ OnResult /\ rp.starting /\ media = "video" /\ hasMask
    /\ \E j \in Renders :
         /\ \/ j \in Active(render) /\ UNCHANGED <<render, status>>
            \/ /\ Active(render) = {} /\ Fresh(render, j)
               /\ render' = [render EXCEPT ![j] = "active"] /\ status' = "processing"
         /\ rp' = [rp EXCEPT !.starting = FALSE,
                             !.watch["start"] = [phase |-> "poll", job |-> j]]
    /\ UNCHANGED <<uploadVars, media, rows, hasMask, hasClip, previewing, analyze, cp, crossed>>

\* POST /process for a photo: the route names a variable mask that it never
\* set, so the job it created fails.
ProcessPhoto ==
    /\ OnResult /\ rp.starting /\ media = "photo" /\ hasMask
    /\ \E j \in Renders :
         Fresh(render, j) /\ render' = [render EXCEPT ![j] = "failed"]
    /\ status' = "failed"
    /\ rp' = [rp EXCEPT !.starting = FALSE, !.approving = FALSE]
    /\ UNCHANGED <<uploadVars, media, rows, hasMask, hasClip, previewing, analyze, cp, crossed>>

\* Too few credits, no broker, a lost answer.
ProcessFails ==
    /\ OnResult /\ rp.starting
    /\ rp' = [rp EXCEPT !.starting = FALSE, !.approving = FALSE]
    /\ UNCHANGED <<quietRp, server>>

PollDone(w) ==
    /\ OnResult /\ rp.watch[w].phase = "poll" /\ render[rp.watch[w].job] = "completed"
    /\ rp' = [rp EXCEPT !.watch[w].phase = "refresh"]
    /\ UNCHANGED <<quietRp, server>>

\* The project is read again and the page says that it is ready to download.
WatchRefreshed(w) ==
    /\ OnResult /\ rp.watch[w].phase = "refresh"
    /\ rp' = [rp EXCEPT !.watch[w] = NoWatch, !.approving = FALSE, !.project = Payload]
    /\ UNCHANGED <<quietRp, server>>

\* Mutated form of WatchFails: approving is not reset.
WatchForgotten(w) ==
    /\ OnResult /\ rp.watch[w].phase # "none"
    /\ rp' = [rp EXCEPT !.watch[w] = NoWatch]
    /\ UNCHANGED <<quietRp, server>>

\* The job failed, or a single call of the watcher did; a running job goes on.
WatchFails(w) ==
    /\ OnResult /\ rp.watch[w].phase # "none"
    /\ rp' = [rp EXCEPT !.watch[w] = NoWatch, !.approving = FALSE]
    /\ UNCHANGED <<quietRp, server>>

-----------------------------------------------------------------------------
CandidateStep ==
    \/ CandidatesProject \/ CandidatesRead \/ CandidatesArrive
    \/ \E r \in Runs : RunAgain(r) \/ AnalyzeServed(r) \/ AnalysisRead(r) \/ AnalysisShown(r)
                   \/ RunFails(r)
    \/ approve \/ ApproveServed \/ ApproveNotFound \/ Relisted \/ ApproveFails
ResultStep ==
    \/ LoadResult \/ ResumeListed \/ buildPreview \/ PreviewRefreshed \/ PreviewFails
    \/ Confirm \/ KeepReviewing \/ beginProcessing \/ ProcessServed \/ ProcessPhoto \/ ProcessFails
    \/ \E w \in Watchers : PollDone(w) \/ WatchRefreshed(w) \/ WatchFails(w)
ServerStep ==
    \/ \E j \in Analyses : AnalysisEnds(j)
    \/ \E j \in Renders : RenderEnds(j)
    \/ PreviewEnds \/ SaveMask
Browse ==
    \/ Go("dashboard", None) \/ Go("upload", None)
    \/ \E p \in {"editor", "candidates", "result"} : Go(p, Old)

Next ==
    \/ UploadNext /\ UNCHANGED flowVars
    \/ Browse \/ ServerStep \/ CandidateStep \/ ResultStep

Spec == Init /\ [][Next]_vars
=============================================================================
