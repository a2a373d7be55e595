\* A draft and a scan round that has already read the batch.
SPECIFICATION Spec
CONSTANTS
  Operator = {"op"}
  Creator = {"cr"}
  Checker = {k1}
  ReviewAudience = {"smod"}
  Contact = {"mail"}
  Windows <- MCWindows
  PatchWindows <- MCNoWindows
  PatchStatus = {"pending_review", "reviewed", "modified", "cancelled"}
  ClientVersions = {2, 3, 4}
  MaxTime = 4
  MaxPatches = 2
  MaxAborts = 1
  k1 = k1
  k2 = k2
PROPERTIES DraftsIgnored
CHECK_DEADLOCK FALSE
