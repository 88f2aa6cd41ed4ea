SPECIFICATION FairSpec
CONSTANTS
  Projects = {p1}
  Uploaded = {p1}
  Cleaners = {c1}
  Buckets = {"originals", "proxies", "previews", "outputs"}
  Operations = {"hold", "fault", "crash"}
  MaxOps = 2
  Files = {f1}
  Main = f1
  NoKey = NoKey
PROPERTIES DanglingIsRepaired DeletedIsForgotten
