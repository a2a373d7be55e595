\* The outbox rows of one event's transitions, with retention deleting rows.
SPECIFICATION Spec
CONSTANTS
  Operator = {"op"}
  Creator = {"cr"}
  Checker = {k1}
  ReviewAudience = {"smod"}
  Contact = {"mail"}
  Windows <- MCWindows
  PatchWindows <- MCNoWindows
  PatchStatus = {"pending_review", "reviewed", "cancelled"}
  ClientVersions = {2, 3, 4}
  MaxTime = 3
  MaxPatches = 2
  MaxAborts = 1
  k1 = k1
  k2 = k2
INVARIANTS NeverPoisoned
PROPERTIES RowsMatchTransitions
CHECK_DEADLOCK FALSE
