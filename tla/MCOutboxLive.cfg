\* Progress and wake-ups: one pod (two drains), two rows, a crash, stop or error.
SPECIFICATION FairSpec
CONSTANTS
  Pod = {a}
  MaxId = 2
  MaxAttempts = 2
  BackoffDelay <- MCBackoff
  Lease = 1
  ClaimDelay = 0
  SmtpTimeout = 0
  UpdateTimeout = 0
  MaxSkew = 0
  RetentionAge = 0
  RetentionBatch = 1
  MaxFaults = 1
  MaxRedrives = 0
  a = a
INVARIANTS WakeupCovered
PROPERTIES Settles
CHECK_DEADLOCK TRUE
