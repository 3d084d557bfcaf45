SPECIFICATION Spec
CONSTANTS
  None = None
  c1 = c1
  c2 = c2
  t1 = t1
  t2 = t2
  Callers = {c1, c2}
  Keys = {"k1"}
  Inputs = {"i1"}
  Tasks = {t1, t2}
  Window = 2
  MaxRestarts = 1
  LateLanding = TRUE
  Payloads = {"approve", "block"}
  WithErrors = {"block"}
  Digests = {"right", "wrong"}
  Prepared = "right"
  MaxReceipts = 5
  MaxRows = 3
  MaxTasks = 2
  MaxPending = 0
  DigestRepair = TRUE
  TransportRepair = TRUE
  Threads = {"tool", "other"}
  MaxCalls = 4
  JournalLimit = 3
  Broken = Broken
  Unreadable = Unreadable
  Processes = {c1, c2}
  ReviewIds = {t1, t2}
  Precedents = {"precedent"}
  MaxRecords = 3
  MaxFiles = 2
  MaxCommands = 3
  Torn = Torn
  Runs = {c1, c2}
  Ordinals = {1}
  Series = {"series"}
  CaptureIds = {t1, t2}
  Cases <- PaidCases
  Expected <- Undecided
  Tolerated = 0
  TaskIds = {"first", "second"}
  MaxAttempts = 2
  MaxVersion = 2
  MaxClock = 0
  Costs = {1, 2}
  MaxModelCalls = 2
  MaxEvents = 4
  Limit = 2
SYMMETRY Symmetry
CHECK_DEADLOCK FALSE
INVARIANTS PaysOnce TrustIsExact ReceiptsKept FeedbackIsKept SeriesIsTrue
PROPERTIES ResultsStand CostIsExact
