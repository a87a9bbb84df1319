SPECIFICATION Spec
CONSTANTS
  Topic = {t1}
  Save = {s1}
  Initial = {r0}
  Job = {j1, j2}
  Ingest = {i1}
  None = None
  MaxCrashes = 1
SYMMETRY Symmetry
INVARIANTS  OneWorkerUnlessRaced
CHECK_DEADLOCK FALSE
