--------------------------- MODULE MaskProperties ---------------------------
(***************************************************************************)
(* What the mask editor is supposed to keep.                               *)
(***************************************************************************)
EXTENDS MaskEditor

\* Between approvals the status line is honest unless edits and requests
\* crossed each other or half an approval failed (SaveState of
\* useMaskWorkspace.ts): "All changes saved" means that the server holds the
\* shapes and the settings on screen.
HonestUnlessRaced ==
    ~raced /\ load # "pending" /\ approving = "none" =>
        /\ saveState = "clean" => shapes = <<>>
        /\ saveState = "saved" => server = payload

\* Preview and processing are unlocked ("Continue", WorkspaceActionBar) only
\* when the server holds a mask, through failed, late and crossing saves too.
UnlockedHasMask == maskSaved => server # NoMask

MaskLoaded ==
    \/ load = "pending" /\ load' = "done"
    \/ approving = "approved" /\ approving' = "none"

\* No edit loses a shape for good: what leaves the canvas can be redone, and
\* what can be redone goes only when a new shape is drawn, unless a mask is
\* loaded over it (undo, redo, erase, reset, discard).
ShapesStayInReach ==
    [][MaskLoaded \/
        /\ ToSet(shapes) \subseteq ToSet(shapes') \union ToSet(redoStack')
        /\ drawn' = drawn => ToSet(redoStack) \subseteq ToSet(shapes') \union ToSet(redoStack')]_vars
=============================================================================
