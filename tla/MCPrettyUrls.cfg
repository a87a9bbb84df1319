SPECIFICATION Spec
CONSTANTS
  DocBody = {a}
  TopicBody = {t}
  Fits = {a, t}
  Nested = {}
  Prio = {0, 1}
  MaxRows = 2
  Request = {r1, r2}
  Ingest = {i1}
  Worker = {w1}
  None = None
  MaxCalls = 2
  MaxEvents = 1
SYMMETRY Symmetry
INVARIANTS  ActivatedIsLive
CHECK_DEADLOCK FALSE
