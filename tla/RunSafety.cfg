SPECIFICATION Spec
CONSTANTS
  None = None
  Failed = Failed
  r1 = r1
  r2 = r2
  s1 = s1
  s2 = s2
  Runs <- TwoRuns
  Scenarios <- TwoScenarios
  MaxRestarts = 2
  Models <- TwoModels
  Requests <- TwoRequests
  CacheSeconds = 1
  MaxClock = 2
  MaxFaults = 2
  Golden <- GoldenCases
  TargetCase = "target"
  ControlCase = "control"
  Workers = 2
  Candidates <- ThreeCandidates
  Outside = TRUE
  TaskCosts = {1}
  RuleIds = {"major", "blocker"}
  Blockers = {"blocker"}
  Locations <- PlacesNamed
  Actual <- PlacesThere
  Truths <- ScoreCases
  Minimum <- Thresholds
  MaxFindings = 2
SYMMETRY Symmetry
CHECK_DEADLOCK FALSE
INVARIANTS RunIsMeasured RepeatIsScored
PROPERTIES JobsAreTrue StartsReady LaunchesAreTrue ProfileIsKept
