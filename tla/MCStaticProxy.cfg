\* An entry of one key evicts the other's; two contexts, one caller that leaves.
SPECIFICATION Spec
CONSTANTS
  c1 = c1
  c2 = c2
  k1 = k1
  k2 = k2
  MaxBytes = 2
  Key = {k1, k2}
  Request <- MCRequest
  Context = {c1, c2}
  Flight = {f1, f2, f3}
  None = None
  Origins = 2
  Content <- MCContent
  Ttl = 1
  MaxPublished = 2
  MaxRequests = 3
  MaxGiveUps = 1
  MaxClock = 1
SYMMETRY MCSymmetry
INVARIANTS BudgetKept MonotonicReads FiledUnderItsKey NoOrphan
CHECK_DEADLOCK FALSE
