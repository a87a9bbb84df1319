SPECIFICATION FairSpec
CONSTANTS
  p1 = p1
  d1 = d1
  Pub = {p1, p2}
  Doc = {d1, d2, d3}
  Flow = {f1, f2}
  Zip = {clean, dirty}
  Dirty = {dirty}
  None = None
  LegacyDoc <- OneLegacy
  MaxRequests = 2
  MaxCrashes = 0
 
PROPERTIES BusySettles 
CHECK_DEADLOCK FALSE
