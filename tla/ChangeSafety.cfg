SPECIFICATION Spec
CONSTANTS
  None = None
  Refused = Refused
  c1 = c1
  c2 = c2
  Artifacts <- TwoFiles
  MaxEdits = 2
  Detected <- FoundIn
  Excepted <- ExceptedIn
  Answers <- PossibleAnswers
  Callers <- TwoCallers
  ReviewIds = {"v1", "v2"}
  RemediationIds = {"m1", "m2"}
  Finals = {"patched", "unpatched"}
  Remediable = {"patched"}
  MaxReviews = 2
  MaxRemediations = 2
  MaxStore = 3
  MaxWorkers = 1
  MaxRegistered = 2
  TaskRequests <- ThreeRequests
  OwnRequest <- TheRequest
  MaxCalls = 3
  Nodes = {"a", "b", "c"}
  Sources = {"a"}
  Targets = {"b", "c", "u"}
  Replacements = {"a", "c"}
  Edges = {1, 2}
  Rules = {"r1", "r2"}
  Seed = {"r1"}
  Values = {"file", "ftp"}
  Places = {"dmz", "lan"}
  Operands = {"dmz", None}
  Refs = {"good", "bad"}
  Approved = {"good"}
  MaxExceptions = 2
  MaxClauses = 2
  Cycles <- TwoCycles
  Publishers = {"publisher", "second"}
  Mutations = {"weak", "good", "other"}
  Proposed <- TwoPrecedents
  Corpora = {1, 2}
  ApprovedPrecedents = {1, 2}
  ValidMutation <- Valid
  Applies <- AppliesTo
  Bump <- PartRaised
  GatePasses <- Gate
  ArchitectActs = TRUE
  MaxCommits = 3
  Components = {"old", "new"}
  Successor = "new"
  MaxLines = 2
CHECK_DEADLOCK FALSE
INVARIANTS ReviewIsTrue PatchIsRight WorkerIsBelieved RulesKeepForce ScenarioIsTrue SnapshotIsTrue
PROPERTIES RemediationIsTrusted PublishedIsGated AcceptedIsBetter
