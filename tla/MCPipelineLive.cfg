SPECIFICATION FairSpec
CONSTANTS
  Workers = {w1, w2}
  Requests = {r1}
  MaxJobs = 2
  MaxTries = 1
  Plan = 2
  HardTimeLimit = TRUE
  Disturbances = {"ambiguous", "age", "cancel", "retry", "delete", "unmask"}
  MaxDisturb = 2
  Free = Free
  Orphan = Orphan
PROPERTIES JobsSettle
CHECK_DEADLOCK FALSE
