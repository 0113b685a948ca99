SPECIFICATION FairSpec
CONSTANTS
  Jobs = {j1, j2, j3}
  Keys = {k1}
  Requests = {r1}
  Copies = {m1}
  MaxAttempts = 1
  MaxRetries = 0
  MaxScans = 2
  MaxFaults = 1
  Faults = {"scheduler lost"}
PROPERTY DueIsNotBlocked
CHECK_DEADLOCK FALSE
