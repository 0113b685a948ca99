SPECIFICATION FairSpec
CONSTANTS
  Jobs = {j1, j2}
  MaxTime = 4
  PageSize = 1
  MaxRetries = 2
INVARIANTS CursorIsExact KeepsGoing
PROPERTIES RefreshIsServed ActiveJobsAreFollowed
CHECK_DEADLOCK FALSE
