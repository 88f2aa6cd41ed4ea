SPECIFICATION Spec
CONSTANTS
  Workers = {w1, w2}
  Requests = {r1, r2}
  MaxJobs = 2
  MaxTries = 1
  Plan = 2
  HardTimeLimit = TRUE
  Disturbances = {"crash", "hardkill", "refuse", "lose", "ambiguous", "age", "cancel", "retry", "delete", "unmask"}
  MaxDisturb = 2
  Free = Free
  Orphan = Orphan
SYMMETRY Symmetry
INVARIANTS TypeOK LockExclusive CompletedHasOutput StuckOnlyIfLost
PROPERTIES FinishedJobsReopenOnlyBy ImplementsJobMutex
CHECK_DEADLOCK FALSE
