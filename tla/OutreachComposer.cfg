SPECIFICATION ComposerFairSpec
CONSTANTS
  Creators = {c1}
  Keys = {1, 2}
  MaxSends = 2
  Copies = {m1}
  MaxRetries = 1
  MaxFaults = 1
  Drafts = {"d1", "d2"}
  MaxCalls = 2
  MaxEdits = 3
  Faults = {"api broker", "api crash", "abandoned"}
INVARIANTS PreviewIsOfDraft RetryKeepsKey AcceptedIsTaken
PROPERTIES DeliveriesSettle
CHECK_DEADLOCK FALSE
