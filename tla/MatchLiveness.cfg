SPECIFICATION FairSpec
CONSTANTS
  Creators = {c1, c2}
  MaxRetries = 1
  MaxResumes = 1
  MaxFaults = 1
  Faults = {"lost worker", "redelivery", "api broker", "pair broker", "advance broker", "ranking broker"}
  ProviderFailures = {"retryable", "permanent"}
PROPERTY PairsSettle
CHECK_DEADLOCK FALSE
