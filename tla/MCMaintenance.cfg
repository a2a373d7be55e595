\* Two checkers, an operator and the creator write one event; no mail.
SPECIFICATION FairSpec
CONSTANTS
  Operator = {"op"}
  Creator = {"cr"}
  Checker = {k1, k2}
  ReviewAudience = {}
  Contact = {}
  Windows <- MCWindows
  PatchWindows <- MCPatchWindows
  PatchStatus = {"pending_review", "reviewed", "modified", "cancelled"}
  ClientVersions = {2, 3, 4}
  MaxTime = 3
  MaxPatches = 2
  MaxAborts = 1
  k1 = k1
  k2 = k2
INVARIANTS NoLostUpdate BackfillOnce
PROPERTIES CreatorConfined Converges
CHECK_DEADLOCK FALSE
