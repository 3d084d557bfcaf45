SPECIFICATION Spec
CONSTANTS
  c1 = c1
  c2 = c2
  c3 = c3
  r1 = r1
  r2 = r2
  q1 = q1
  q2 = q2
  q3 = q3
  Callers = {c1, c2}
  ReviewIds = {r1}
  Requests = {q1, q2}
  Payloads = {"approve", "block", "invalid"}
  Meaning <- MCMeaning
  Analysis <- MCAnalysis
  HookSlots = 1
  MaxReviews = 1
  MaxReviewBytes = 3
  MaxStoreBytes = 4
  PreparedBytes <- MCPreparedBytes
  FinalBytes = 1
  MaxPrepared = 2
  Tools = {"prepare", "finalize", "read"}
SYMMETRY Symmetry
INVARIANTS AnswersTruthful HookThreadsBounded
PROPERTIES ImplementsLedger
