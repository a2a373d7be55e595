\* Two users and two checkers on one info event.
SPECIFICATION FairSpec
CONSTANTS
  User = {"u1", "u2"}
  Checker = {"k1", "k2"}
  Windows <- MCWindows
  PatchWindows <- MCPatchWindows
  PatchStatus = {"planned", "completed", "cancelled"}
  MaxTime = 3
  MaxPatches = 2
  MaxAborts = 1
INVARIANTS HistoryOrdered
PROPERTIES Converges
CHECK_DEADLOCK FALSE
