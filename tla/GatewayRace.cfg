SPECIFICATION GatewaySpec
CONSTANTS
  w1 = w1
  w2 = w2
  h1 = h1
  r1 = r1
  r2 = r2
  q1 = q1
  q2 = q2
  Callers = {w1, w2}
  Hosts = {}
  ReviewIds = {r1}
  Requests = {q1}
  Payloads = {"approve", "block"}
  Meaning <- MCMeaning
  Analysis <- MCAnalysis
  HookSlots = 1
  MaxReviews = 1
  MaxReviewBytes = 2
  MaxStoreBytes = 4
  PreparedBytes <- MCPreparedBytes
  FinalBytes = 1
  MaxPrepared = 2
  Tools = {"prepare", "finalize"}
  MaxConcurrency = 2
CHECK_DEADLOCK FALSE
SYMMETRY Symmetry
INVARIANTS SinglePayload
