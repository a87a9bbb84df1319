SPECIFICATION Spec
CONSTANTS
  p1 = p1
  d1 = d1
  Pub = {p1, p2, p3}
  Doc = {d1, d2, d3}
  Flow = {f1, f2}
  Zip = {clean}
  Dirty = {}
  None = None
  LegacyDoc <- OneLegacy
  MaxRequests = 2
  MaxCrashes = 1
SYMMETRY LegacySymmetry
INVARIANTS BusyHasRunner  MergesExclude VersionCountsMerges 
PROPERTIES LeavesPortalLocked
CHECK_DEADLOCK FALSE
