SPECIFICATION FairSpec
CONSTANTS
  Jobs = {j1, j2}
  Keys = {k1}
  Requests = {r1}
  Copies = {m1, m2}
  MaxAttempts = 1
  MaxRetries = 1
  MaxScans = 1
  MaxFaults = 1
  Faults = {"lost worker", "redelivery", "api broker", "api crash", "scheduler broker"}
PROPERTY JobsSettle
CHECK_DEADLOCK FALSE
