SPECIFICATION PartsSpec
SYMMETRY Symmetry
CONSTANTS
  Workers = {x, y}
  Batches = {"batch"}
  Reductions = {"presentation"}
  MaxTries = 1
  MaxLosses = 1
  PipelineErrors = {"transient", "permanent"}
  Seeders = {"operator"}
  NRows = 3
  Channels = {"channel"}
  MaxRuns = 2
  MaxJobs = 2
  MaxTroubles = 2
  Templates = {x, y}
  Names = {u, v}
  MaxOthers = 1
  Campaigns = {"campaign"}
  Tasks = {x, y, z}
  NProfiles = 2
  Queries = {{1, 2}, {2}}
  PageSize = 1
  MaxScheduled = 1
  MaxEdits = 2
  MaxVersion = 4
  MaxKeys = 2
  Minute = 3
  Rates = {1, 2}
  MaxRate = 2
  MaxClock = 9
  Updates = {x, y}
  Tests = {x, y}
  Services = {"steam"}
  Publics = {u, v}
  JobIds = {"job"}
  Sessions = {x, y}
  ProfileIds = {"profile"}
  LegacyStages = {"none", "analyzing"}
  LegacyUnits = {6}
  LegacyCodes = {"other"}
  LegacyTimes = {1}
  MaxTime = 3
INVARIANTS UpgradeTakesAll PublishedIsConsistent OnlyErrorsFail AllTakenIn KeepsPollingCampaigns WithinRate FavoritesAreTrue CriteriaAreApplied OfferedOnce
PROPERTIES DraftSurvives VerdictsAreOfTheStored
CHECK_DEADLOCK FALSE
