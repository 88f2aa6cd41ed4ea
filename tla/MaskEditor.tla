----------------------------- MODULE MaskEditor -----------------------------
(***************************************************************************)
(* The mask editor of one project (features/mask/useMaskWorkspace.ts) with *)
(* the controls of components/mask/ and app/projects/[id]/page.tsx.  How an *)
(* analysis comes to offer a suggestion is modelled for the candidates page *)
(* (ProjectFlow); here a suggestion may be accepted at any time.           *)
(*                                                                         *)
(* A shape is its identity; the mask that is sent is the set of its shapes  *)
(* with the settings.  The canvas keeps its size during a visit, so that    *)
(* toSource and toDisplay are inverse to each other.                        *)
(* Saves, the first load and approvals are requests in flight together; the *)
(* server serves them in any order, a save even after it timed out.        *)
(***************************************************************************)
EXTENDS Integers, Sequences, SequencesExt

CONSTANTS
    MaxShapes,  \* bound: shapes drawn in one visit
    Props,      \* settings of expansion, feathering and smoothing
    Puts,       \* PUT /mask requests that may be in flight together
    MaxApprovals  \* bound: suggestions accepted in one visit

ASSUME MaskAssumption == MaxShapes \in Nat /\ MaxApprovals \in Nat

VARIABLES
    project,    \* the project's record in the page
    load,       \* the GET /mask of the first load
    pendingLoad,  \* shapes of its answer, before they are painted
    shapes, redoStack, props,     \* the mask on screen
    drawn,      \* shapes drawn so far
    saveState, maskSaved, savedOnce,
    puts,       \* PUT /mask requests
    server,     \* the mask the server holds
    approving,       \* the approval under way and the mask it read
    approvals,  \* approvals left
    raced       \* history: an edit or request crossed another, or half an approval failed

editor == <<shapes, redoStack, props, drawn>>
status == <<saveState, maskSaved, savedOnce>>
loading == <<project, load, pendingLoad>>
approval == <<approving, approvals>>
vars == <<loading, editor, status, puts, server, approval, raced>>

NoMask == [shapes |-> {}, props |-> 0]
Ids == 0 .. MaxShapes + 1
SavedId == 0               \* the shape of an earlier visit
AiId == MaxShapes + 1      \* the shape of an approved candidate
Mask == [shapes : SUBSET Ids, props : Props \union {0}]
payload == [shapes |-> ToSet(shapes), props |-> props]
Requests == [state : {"free", "sent", "lost"}, mask : Mask]
Free == [state |-> "free", mask |-> NoMask]

TypeOK ==
    /\ project \in {"loading", "ready", "readOnly", "failed"}
    /\ load \in {"project", "sent", "pending", "done"}
    /\ pendingLoad \subseteq Ids
    /\ shapes \in Seq(Ids) /\ redoStack \in Seq(Ids)
    /\ props \in Props \union {0}
    /\ drawn \in 0 .. MaxShapes
    /\ saveState \in {"clean", "dirty", "saving", "saved", "error"}
    /\ maskSaved \in BOOLEAN /\ savedOnce \in BOOLEAN
    /\ puts \in [Puts -> Requests]
    /\ server \in Mask
    /\ approving \in {"none", "sent", "approved"} /\ approvals \in 0 .. MaxApprovals
    /\ raced \in BOOLEAN

\* A visit begins with no mask on the server or with one of an earlier visit.
Init ==
    /\ project = "loading" /\ load = "project" /\ pendingLoad = {}
    /\ shapes = <<>> /\ redoStack = <<>> /\ props = 0 /\ drawn = 0
    /\ saveState = "clean" /\ maskSaved = FALSE /\ savedOnce = FALSE
    /\ puts = [i \in Puts |-> Free]
    /\ server \in {NoMask, [shapes |-> {SavedId}, props |-> 0]}
    /\ approving = "none" /\ approvals = MaxApprovals
    /\ raced = FALSE

-----------------------------------------------------------------------------
(* The first load: the project, then the mask, then the painted mask.      *)

Busy == load # "done" \/ approving # "none" \/ \E i \in Puts : puts[i].state # "free"
crosses == raced' = (raced \/ Busy)

LoadProject ==
    /\ load = "project"
    /\ project' \in {"ready", "readOnly", "failed"}
    /\ load' = "sent"
    /\ UNCHANGED <<pendingLoad, editor, status, puts, server, approval, raced>>

\* A mask that exists sets the properties and the status at once; its shapes
\* wait in pendingLoad.  A 404 or a failed request changes nothing.
LoadMask ==
    /\ load = "sent"
    /\ \/ /\ server # NoMask
          /\ load' = "pending" /\ pendingLoad' = server.shapes /\ props' = server.props
          /\ saveState' = "saved" /\ maskSaved' = TRUE /\ savedOnce' = TRUE
       \/ /\ load' = "done"
          /\ UNCHANGED <<pendingLoad, props, status>>
    /\ UNCHANGED <<project, shapes, redoStack, drawn, puts, server, approval, raced>>

\* The shapes of the saved mask replace what is on the canvas.
ApplyPendingLoad ==
    /\ load = "pending" /\ project \in {"ready", "readOnly"}
    /\ shapes' = SetToSeq(pendingLoad)
    /\ load' = "done" /\ pendingLoad' = {}
    /\ UNCHANGED <<project, redoStack, props, drawn, status, puts, server, approval, raced>>

-----------------------------------------------------------------------------
(* Drawing.                                                                *)

\* The page shows the editor once the project is read; an expired project gets
\* a page of its own, so that a read-only editor shows a cancelled one.
Open == project \in {"ready", "readOnly"}
readOnly == project = "readOnly"

\* What the tool picker, the history panel, the action bar, the status line and
\* the detection panel offer.
ToolsOffered == Open /\ ~readOnly
HistoryOffered == Open /\ ~readOnly /\ shapes # <<>>
SaveOffered == Open /\ ~readOnly /\ shapes # <<>> /\ ~maskSaved /\ saveState # "saving"
RetryOffered == Open /\ saveState = "error"
AcceptOffered == Open /\ approving = "none" /\ approvals > 0

markDirty == maskSaved' = FALSE /\ saveState' = "dirty" /\ UNCHANGED savedOnce
elsewhere == <<puts, server, approval>>

\* A gesture with a tool that reached the given measure makes a shape: a
\* rectangle of more than 2 pixels, a polygon of 3 corners, a brush stroke of
\* one point.  One that is shorter, cancelled or ended with another tool in
\* hand makes nothing.
Needed == [rectangle |-> 3, polygon |-> 3, brush |-> 1]
draw(t, measure) ==
    /\ ToolsOffered /\ measure >= Needed[t]
    /\ drawn < MaxShapes
    /\ drawn' = drawn + 1
    /\ shapes' = Append(shapes, drawn + 1) /\ redoStack' = <<>>
    /\ markDirty /\ crosses
    /\ UNCHANGED <<loading, props, elsewhere>>

-----------------------------------------------------------------------------
(* Undo, redo, reset and the mask's properties.  The shortcuts of undo and  *)
(* redo, unlike the buttons, also work on a read-only project.              *)

\* Mutated form of undo: the shape cannot be brought back.
undoForGood ==
    /\ Open /\ shapes # <<>>
    /\ shapes' = Front(shapes)
    /\ markDirty /\ crosses
    /\ UNCHANGED <<loading, redoStack, props, drawn, elsewhere>>

undo ==
    /\ Open /\ shapes # <<>>
    /\ redoStack' = Append(redoStack, Last(shapes)) /\ shapes' = Front(shapes)
    /\ markDirty /\ crosses
    /\ UNCHANGED <<loading, props, drawn, elsewhere>>

\* A click with the eraser.
Erase == ToolsOffered /\ undo

redo ==
    /\ Open /\ redoStack # <<>>
    /\ shapes' = Append(shapes, Last(redoStack)) /\ redoStack' = Front(redoStack)
    /\ markDirty /\ crosses
    /\ UNCHANGED <<loading, props, drawn, elsewhere>>

resetMask ==
    /\ redoStack' = Reverse(redoStack \o shapes) /\ shapes' = <<>>
    /\ markDirty /\ crosses
    /\ UNCHANGED <<loading, props, drawn, elsewhere>>

\* On a read-only project the panel is shut to the pointer only: the keyboard
\* still reaches its sliders.
PropertiesShown == Open /\ shapes # <<>>

ResetConfirmed == HistoryOffered /\ resetMask
Discard == SaveOffered /\ resetMask

\* Mutated form of updateProps: the status is left alone.
updatePropsQuietly(p) ==
    /\ PropertiesShown
    /\ props' = p
    /\ crosses
    /\ UNCHANGED <<loading, shapes, redoStack, drawn, status, elsewhere>>

\* updateExpansion, updateFeather, updateTemporal and resetProperties.
updateProps(p) ==
    /\ PropertiesShown
    /\ props' = p
    /\ markDirty /\ crosses
    /\ UNCHANGED <<loading, shapes, redoStack, drawn, elsewhere>>

-----------------------------------------------------------------------------
(* Saving.                                                                 *)

save(i) ==
    /\ Open /\ ~readOnly
    /\ \/ /\ shapes # <<>> /\ puts[i].state = "free"
          /\ puts' = [puts EXCEPT ![i] = [state |-> "sent", mask |-> payload]]
          /\ saveState' = "saving" /\ UNCHANGED <<maskSaved, savedOnce>>
          /\ crosses
       \/ /\ shapes = <<>>
          /\ saveState' = "error" /\ UNCHANGED <<maskSaved, savedOnce, puts, raced>>

\* "Save mask" with something to save, and "Retry" in the header.
handleSave(i) ==
    /\ SaveOffered \/ RetryOffered
    /\ save(i)
    /\ UNCHANGED <<loading, editor, server, approval>>

\* The debounced save, once a mask of this project has been saved or loaded.
Autosave(i) ==
    /\ savedOnce /\ saveState = "dirty" /\ shapes # <<>>
    /\ save(i)
    /\ UNCHANGED <<loading, editor, server, approval>>

\* Mutated form of PutAnswered: only the status changes.
PutAnsweredEarly(i) ==
    /\ puts[i].state = "sent"
    /\ saveState' = "saved" /\ maskSaved' = TRUE /\ savedOnce' = TRUE
    /\ puts' = [puts EXCEPT ![i].state = "lost"]
    /\ UNCHANGED <<loading, editor, server, approval, raced>>

\* The server stores the mask and says so.
PutAnswered(i) ==
    /\ puts[i].state = "sent"
    /\ server' = puts[i].mask
    /\ saveState' = "saved" /\ maskSaved' = TRUE /\ savedOnce' = TRUE
    /\ puts' = [puts EXCEPT ![i] = Free]
    /\ UNCHANGED <<loading, editor, approval, raced>>

\* The mask is refused (validation, an expired session), or the answer does
\* not come in time: the server may still get to the request.
PutFails(i) ==
    /\ puts[i].state = "sent"
    /\ saveState' = "error" /\ UNCHANGED <<maskSaved, savedOnce>>
    /\ puts' \in {[puts EXCEPT ![i] = Free], [puts EXCEPT ![i].state = "lost"]}
    /\ UNCHANGED <<loading, editor, server, approval, raced>>

PutArrivesLate(i) ==
    /\ puts[i].state = "lost"
    /\ server' \in {server, puts[i].mask}
    /\ puts' = [puts EXCEPT ![i] = Free]
    /\ UNCHANGED <<loading, editor, status, approval, raced>>

-----------------------------------------------------------------------------
(* An accepted suggestion of the AI detection panel.                       *)

\* "Accept": the candidate becomes the server's mask, the mask is read back
\* and replaces the one on screen.
approve ==
    /\ AcceptOffered
    /\ approving' = "sent" /\ approvals' = approvals - 1
    /\ crosses
    /\ UNCHANGED <<loading, editor, status, puts, server>>

ServeApprove ==
    /\ approving = "sent"
    /\ server' = [shapes |-> {AiId}, props |-> 0]
    /\ approving' = "approved"
    /\ UNCHANGED <<loading, editor, status, puts, approvals, raced>>

\* Mutated form of ApproveFails: the panel stays in a state of its own.
ApproveFailsOpen ==
    /\ approving # "none"
    /\ approving' = "failed"
    /\ UNCHANGED <<loading, editor, status, puts, server, approvals, raced>>

\* Either call fails; the suggestion may have become the mask all the same.
ApproveFails ==
    /\ approving # "none"
    /\ approving' = "none"
    /\ raced' = (raced \/ approving # "sent")
    /\ UNCHANGED <<loading, editor, status, puts, server, approvals>>

applyLoadedMask ==
    /\ approving = "approved"
    /\ approving' = "none"
    /\ props' = server.props /\ shapes' = SetToSeq(server.shapes) /\ redoStack' = <<>>
    /\ saveState' = "saved" /\ maskSaved' = TRUE /\ savedOnce' = TRUE
    /\ UNCHANGED <<loading, drawn, puts, server, approvals, raced>>

-----------------------------------------------------------------------------
Edit ==
    \/ \E t \in DOMAIN Needed, n \in 0 .. 3 : draw(t, n)
    \/ \E p \in Props : updateProps(p)
    \/ Erase \/ undo \/ redo \/ ResetConfirmed \/ Discard
Saving == \E i \in Puts :
    handleSave(i) \/ Autosave(i) \/ PutAnswered(i) \/ PutFails(i) \/ PutArrivesLate(i)
Loading == LoadProject \/ LoadMask \/ ApplyPendingLoad
Approving == approve \/ ServeApprove \/ ApproveFails \/ applyLoadedMask

Next == Edit \/ Saving \/ Loading \/ Approving
Spec == Init /\ [][Next]_vars
=============================================================================
