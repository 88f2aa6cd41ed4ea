SPECIFICATION Spec
CONSTANTS
  Projects = {p1, p2}
  Uploaded = {p1}
  Cleaners = {c1}
  Buckets = {"originals", "previews", "outputs"}
  Operations = {"duplicate"}
  MaxOps = 1
  Files = {f1}
  Main = f1
  NoKey = NoKey
INVARIANTS InWindowIsKept
