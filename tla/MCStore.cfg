\* Two sessions, three requests, one failing statement.
SPECIFICATION Spec
CONSTANTS
  Null = Null
  s1 = s1
  s2 = s2
  Session = {s1, s2}
  Stored <- MCStored
  Request <- MCRequest
  Now = 1
  MaxRequests = 3
  MaxFailures = 1
SYMMETRY MCSymmetry
INVARIANTS PatchedAsShown HistoryExplainsStatus ReopenedIsOpen ComponentWhole WaitsForTheRunning
PROPERTIES UpdatesAppended
