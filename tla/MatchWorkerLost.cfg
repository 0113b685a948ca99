SPECIFICATION FairSpec
CONSTANTS
  Creators = {c1}
  MaxRetries = 1
  MaxResumes = 0
  MaxFaults = 1
  Faults = {"lost worker"}
  ProviderFailures = {}
PROPERTY Settles
CHECK_DEADLOCK FALSE
