SPECIFICATION Spec
CONSTANTS
  Creators = {c1, c2}
  MaxRetries = 1
  MaxResumes = 0
  MaxFaults = 0
  Faults = {}
  ProviderFailures = {"retryable"}
INVARIANT TransientFailuresStayRetryable
CHECK_DEADLOCK FALSE
