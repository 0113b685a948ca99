SPECIFICATION Spec
CONSTANTS
  Creators = {c1, c2}
  MaxRetries = 1
  MaxResumes = 1
  MaxFaults = 1
  Faults = {"lost worker", "redelivery", "database", "retry broker", "api broker", "pair broker", "advance broker", "ranking broker", "api crash"}
  ProviderFailures = {"retryable", "permanent"}
SYMMETRY Symmetry
INVARIANTS PublishedWhole RankingComplete RetryNeverRefused FailureAccounted ProgressExact
PROPERTY ImplementsLifecycle
CHECK_DEADLOCK FALSE
