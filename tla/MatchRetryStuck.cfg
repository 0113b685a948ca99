SPECIFICATION FairSpec
CONSTANTS
  Creators = {c1}
  MaxRetries = 1
  MaxResumes = 1
  MaxFaults = 1
  Faults = {"api broker"}
  ProviderFailures = {}
PROPERTY RetriedMatchSettles
CHECK_DEADLOCK FALSE
