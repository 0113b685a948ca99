SPECIFICATION Spec
CONSTANTS
  Jobs = {j1, j2}
  Keys = {k1, k2}
  Requests = {r1, r2}
  Copies = {m1, m2}
  MaxAttempts = 2
  MaxRetries = 1
  MaxScans = 0
  MaxFaults = 1
  Faults = {"lost worker", "redelivery", "database", "retry broker", "api broker", "api crash", "scheduler broker", "scheduler lost"}
SYMMETRY Symmetry
INVARIANTS JobsTypeOK OneJobAtATime NobodyForgotten AnswersAreTrue
PROPERTIES AnswersOnlyMove ImplementsTarget
CHECK_DEADLOCK FALSE
