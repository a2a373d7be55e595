\* Two handlers and a failure.
SPECIFICATION Spec
CONSTANTS
  h1 = h1
  h2 = h2
  c1 = c1
  c2 = c2
  c3 = c3
  Handler = {h1, h2}
  Component = {c1, c2}
  Impact = {1}
  Ops = {"regular", "maintenance", "extract", "patch"}
  PatchStatus = {"reopened"}
  ClientVersions = {1}
  MaxIncidents = 4
  MaxRequests = 4
  MaxOverlaps = 2
  MaxFails = 1
SYMMETRY MCSymmetry
PROPERTIES CoverageKept MaintenanceUntouched
CHECK_DEADLOCK FALSE
