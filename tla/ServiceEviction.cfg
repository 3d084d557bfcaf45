SPECIFICATION Spec
CONSTANTS
  c1 = c1
  c2 = c2
  c3 = c3
  r1 = r1
  r2 = r2
  q1 = q1
  q2 = q2
  q3 = q3
  Callers = {c1, c2}
  ReviewIds = {r1, r2}
  Requests = {q1}
  Payloads = {"approve"}
  Meaning <- MCMeaning
  Analysis <- MCAnalysis
  HookSlots = 1
  MaxReviews = 2
  MaxReviewBytes = 3
  MaxStoreBytes = 4
  PreparedBytes <- MCPreparedBytes
  FinalBytes = 1
  MaxPrepared = 3
  Tools = {"prepare", "finalize"}
SYMMETRY Symmetry
INVARIANTS TypeOK StoreBounded
PROPERTIES DecidedOnceInPlace LeavesOnlyForCause
