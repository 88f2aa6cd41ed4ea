SPECIFICATION Spec
CONSTANTS
  Workers = {w1, w2}
  Requests = {r1, r2}
  MaxJobs = 2
  MaxTries = 2
  Plan = 2
  HardTimeLimit = TRUE
  Disturbances = {"crash", "hardkill", "refuse", "lose", "cancel", "delete", "reset"}
  MaxDisturb = 3
  Free = Free
  Orphan = Orphan
SYMMETRY Symmetry
INVARIANTS FailedIsSettled DeliveredXorRefunded RecordedOnlyIfDelivered
CHECK_DEADLOCK FALSE
