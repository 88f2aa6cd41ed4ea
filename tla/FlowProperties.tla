--------------------------- MODULE FlowProperties ---------------------------
(***************************************************************************)
(* What the pages of a project are supposed to keep.                       *)
(***************************************************************************)
EXTENDS ProjectFlow

\* The editor plays the local file only of the project it shows, through
\* cancelled, retried and left uploads and files dropped meanwhile
\* (_pendingUploadFile, services/uploads.ts), unless the user went elsewhere
\* while the router was on its way.
HandoffMatches ==
    page.at = "editor" /\ clip # None /\ ~strayed => projects[page.project].file = clip

\* No page shows a spinner for ever: while a page says that it is uploading,
\* analyzing or processing, one of its own calls or watchers is still at work
\* that will end it, however runs and watchers overlap.
NoStuckSpinner ==
    /\ up.stage = "uploading" => sending[up.current].phase # "none"
    /\ cp.analyzing => \E r \in Runs : cp.runs[r] # NoRun
    /\ rp.approving => rp.starting \/ \E w \in Watchers : rp.watch[w] # NoWatch

\* A render, which costs credits, starts only after a preview of the project
\* was built ("Build and review a preview before approving the full render").
RenderWasReviewed == Rendered => hasClip

\* A candidate on screen at rest is one the server still has (runAnalysis
\* clears the cards because a rerun deletes their rows), unless the page had
\* overlapping calls: a rerun started while a list was on its way or another
\* run at work, a list read while an earlier visit's analysis was at work, or
\* read again during a run because an approval was refused.
ShownCardsExist ==
    OnCandidates /\ ~cp.analyzing /\ ~crossed => cp.cards \in {0, rows}
=============================================================================
