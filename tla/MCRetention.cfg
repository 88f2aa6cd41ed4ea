SPECIFICATION Spec
CONSTANTS
  Projects = {p1}
  Uploaded = {p1}
  Cleaners = {c1, c2}
  Buckets = {"originals", "previews", "outputs"}
  Operations = {"preview", "reupload", "cancel_upload", "hold", "files", "cleanup", "drop",
                "retry", "cancel_job", "fault", "crash"}
  MaxOps = 1
  Files = {f1, f2}
  Main = f1
  NoKey = NoKey
SYMMETRY Symmetry
INVARIANTS TypeOK InWindowIsKept NoStrayObjects
PROPERTIES HoldHolds QueuedSourceIsKept
