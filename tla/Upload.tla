------------------------------- MODULE Upload -------------------------------
(***************************************************************************)
(* The upload page (app/upload/page.tsx, services/uploads.ts): picking a   *)
(* file, confirming its ownership, and the three calls of start(), which    *)
(* go on when the page is left.  A finished upload hands its file to the    *)
(* project's mask editor through a variable of the module and sends the     *)
(* browser there, wherever it is by then.                                   *)
(*                                                                          *)
(* What the other pages do is the subject of the module that extends this.  *)
(***************************************************************************)
EXTENDS Naturals, FiniteSets

CONSTANTS
    Files,       \* files the user can pick
    NewProjects, \* bound: projects the uploads of one visit may create
    Old,         \* a project of an earlier visit
    None

ASSUME UploadAssumption == None \notin Files \union NewProjects /\ Old \notin NewProjects \union {None}

VARIABLES
    page,      \* the page the browser shows, and its project
    up,        \* state of the upload page
    sending,   \* calls of start(), one for each project to be
    projects,  \* server: how far each new project has got, and its file
    handoff,   \* _pendingUploadFile
    pushing,   \* the project the router is on its way to
    clip,      \* the file the mask editor plays until the proxy is there
    strayed    \* history: the user went elsewhere while the router was on its way

uploadVars == <<page, up, sending, projects, handoff, pushing, clip, strayed>>

Pages == {"dashboard", "upload", "editor", "candidates", "result"}
At(p, n) == [at |-> p, project |-> n]
FreshUpload == [file |-> None, ownership |-> FALSE, stage |-> "select",
                reading |-> {}, current |-> None]
NotSending == [phase |-> "none", file |-> None, cancelled |-> FALSE]

UploadPages == [file : Files \union {None}, ownership : BOOLEAN,
                stage : {"select", "uploading", "done", "error"},
                reading : SUBSET Files, current : NewProjects \union {None}]
Calls == [phase : {"none", "initiate", "complete", "compliance"},
          file : Files \union {None}, cancelled : BOOLEAN]
ProjectRows == [state : {"none", "created", "uploaded", "confirmed"}, file : Files \union {None}]

UploadTypeOK ==
    /\ page \in [at : Pages, project : NewProjects \union {Old, None}]
    /\ up \in UploadPages
    /\ sending \in [NewProjects -> Calls]
    /\ projects \in [NewProjects -> ProjectRows]
    /\ handoff \in Files \union {None}
    /\ pushing \in NewProjects \union {None}
    /\ clip \in Files \union {None}
    /\ strayed \in BOOLEAN

UploadInit ==
    /\ page = At("dashboard", None)
    /\ up = FreshUpload
    /\ sending = [n \in NewProjects |-> NotSending]
    /\ projects = [n \in NewProjects |-> [state |-> "none", file |-> None]]
    /\ handoff = None /\ pushing = None /\ clip = None
    /\ strayed = FALSE

-----------------------------------------------------------------------------
(* Navigation.  A page that is left loses its state; start() does not stop. *)

\* The editor takes the file that was handed over when it is mounted.
Visit(p, n) ==
    /\ page' = At(p, n)
    /\ up' = FreshUpload
    /\ IF p = "editor" THEN clip' = handoff /\ handoff' = None
                       ELSE clip' = None /\ UNCHANGED handoff

\* A click on a link replaces a navigation that is still under way.
Navigate(p, n) ==
    /\ page # At(p, n)
    /\ Visit(p, n)
    /\ pushing' = None
    /\ strayed' = (strayed \/ pushing # None)
    /\ UNCHANGED <<sending, projects>>

Arrive ==
    /\ pushing # None
    /\ Visit("editor", pushing)
    /\ pushing' = None
    /\ UNCHANGED <<sending, projects, strayed>>

-----------------------------------------------------------------------------
(* The form.                                                               *)

Here == page.at = "upload"
form == <<page, sending, projects, handoff, pushing, clip, strayed>>

\* A file of an allowed format and size: its metadata is read in the background.
pick(f) ==
    /\ Here /\ f \notin up.reading
    /\ up' = [up EXCEPT !.reading = @ \union {f}]
    /\ UNCHANGED form

\* The drop zone is not clicked during an upload; dropping a file is not stopped.
Choose(f) == up.stage # "uploading" /\ pick(f)
drop(f) == pick(f)

\* The metadata is there: the file is the page's file, or its video is too
\* long and the page has none, or it cannot be read and nothing changes.
Read(f) ==
    /\ Here /\ f \in up.reading
    /\ \E chosen \in {f, None, up.file} :
         up' = [up EXCEPT !.reading = @ \ {f}, !.file = chosen]
    /\ UNCHANGED form

setOwnership ==
    /\ Here /\ up.stage # "uploading"
    /\ up' = [up EXCEPT !.ownership = ~@]
    /\ UNCHANGED form

ChooseDifferent ==
    /\ Here /\ up.stage # "uploading" /\ up.file # None
    /\ up' = [up EXCEPT !.file = None, !.ownership = FALSE]
    /\ UNCHANGED form

TryAgain ==
    /\ Here /\ up.stage = "error"
    /\ up' = [up EXCEPT !.stage = "select"]
    /\ UNCHANGED form

-----------------------------------------------------------------------------
(* start(): initiate, complete, compliance, and on to the editor.          *)

valid == up.file # None /\ up.ownership /\ up.stage = "select"

start(n) ==
    /\ Here /\ up.file # None /\ up.ownership
    /\ sending[n].phase = "none" /\ projects[n].state = "none"
    /\ up' = [up EXCEPT !.stage = "uploading", !.current = n]
    /\ sending' = [sending EXCEPT ![n] =
                     [phase |-> "initiate", file |-> up.file, cancelled |-> FALSE]]
    /\ UNCHANGED <<page, projects, handoff, pushing, clip, strayed>>

StartClicked(n) == valid /\ start(n)

\* The page learns how its own upload ended; one that was left does not.
Ended(n, stage) ==
    /\ sending' = [sending EXCEPT ![n] = NotSending]
    /\ up' = IF Here /\ up.current = n THEN [up EXCEPT !.stage = stage, !.current = None]
                                       ELSE up

\* A token that was cancelled before complete() is sent stops it there.
Initiated(n) ==
    /\ sending[n].phase = "initiate"
    /\ projects' = [projects EXCEPT ![n] = [state |-> "created", file |-> sending[n].file]]
    /\ \/ /\ sending[n].cancelled
          /\ Ended(n, "select")
       \/ /\ ~sending[n].cancelled
          /\ sending' = [sending EXCEPT ![n].phase = "complete"]
          /\ UNCHANGED up
    /\ UNCHANGED <<page, handoff, pushing, clip, strayed>>

Completed(n) ==
    /\ sending[n].phase = "complete"
    /\ projects' = [projects EXCEPT ![n].state = "uploaded"]
    /\ sending' = [sending EXCEPT ![n].phase = "compliance"]
    /\ UNCHANGED <<page, up, handoff, pushing, clip, strayed>>

\* Mutated form of Confirmed: the file that is handed over is the page's file.
ConfirmedWithPageFile(n) ==
    /\ sending[n].phase = "compliance"
    /\ projects' = [projects EXCEPT ![n].state = "confirmed"]
    /\ handoff' = up.file /\ pushing' = n
    /\ Ended(n, "done")
    /\ UNCHANGED <<page, clip, strayed>>

Confirmed(n) ==
    /\ sending[n].phase = "compliance"
    /\ projects' = [projects EXCEPT ![n].state = "confirmed"]
    /\ handoff' = sending[n].file /\ pushing' = n
    /\ Ended(n, "done")
    /\ UNCHANGED <<page, clip, strayed>>

\* "Cancel upload": the cancel token is only given to complete(), whose
\* request may have been served all the same.
cancel(n) ==
    /\ Here /\ up.stage = "uploading" /\ up.current = n
    /\ \/ /\ sending[n].phase = "initiate"
          /\ sending' = [sending EXCEPT ![n].cancelled = TRUE]
          /\ UNCHANGED <<up, projects>>
       \/ /\ sending[n].phase = "complete"
          /\ Ended(n, "select")
          /\ projects' \in {projects, [projects EXCEPT ![n].state = "uploaded"]}
    /\ UNCHANGED <<page, handoff, pushing, clip, strayed>>

\* A call fails or its answer is lost: the server may have served it.
Fails(n) ==
    /\ sending[n].phase # "none"
    /\ Ended(n, "error")
    /\ LET next == [initiate |-> "created", complete |-> "uploaded", compliance |-> "confirmed"]
       IN projects' \in {projects, [projects EXCEPT ![n] =
                            [state |-> next[sending[n].phase], file |-> sending[n].file]]}
    /\ UNCHANGED <<page, handoff, pushing, clip, strayed>>

UploadNext ==
    \/ Arrive \/ setOwnership \/ ChooseDifferent \/ TryAgain
    \/ \E f \in Files : Choose(f) \/ drop(f) \/ Read(f)
    \/ \E n \in NewProjects :
         StartClicked(n) \/ Initiated(n) \/ Completed(n) \/ Confirmed(n) \/ cancel(n) \/ Fails(n)
=============================================================================
