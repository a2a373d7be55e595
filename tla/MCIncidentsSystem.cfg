\* Creations, reports of the system and patches, one at a time.
SPECIFICATION Spec
CONSTANTS
  h1 = h1
  h2 = h2
  c1 = c1
  c2 = c2
  c3 = c3
  Handler = {h1}
  Component = {c1, c2, c3}
  Impact = {1, 2}
  Ops = {"system", "regular", "maintenance", "patch"}
  PatchStatus = {"resolved", "impact changed"}
  ClientVersions = {1}
  MaxIncidents = 4
  MaxRequests = 4
  MaxOverlaps = 0
  MaxFails = 0
SYMMETRY MCSymmetry
INVARIANTS OnePlace ResponseTrue
PROPERTIES CoverageKept
CHECK_DEADLOCK FALSE
