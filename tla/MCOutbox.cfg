\* Two pods (four drains) on one row: leases, recovery, crashes.
SPECIFICATION Spec
CONSTANTS
  Pod = {a, b}
  MaxId = 1
  MaxAttempts = 2
  BackoffDelay <- MCBackoff
  Lease = 3
  ClaimDelay = 0
  SmtpTimeout = 1
  UpdateTimeout = 1
  MaxSkew = 1
  RetentionAge = 0
  RetentionBatch = 1
  MaxFaults = 1
  MaxRedrives = 1
  a = a
  b = b
SYMMETRY MCSymmetry
INVARIANTS ExclusiveLease NoUnexplainedDuplicate AttemptsBounded
PROPERTIES SentIsFinal ImplementsPromise
CHECK_DEADLOCK TRUE
