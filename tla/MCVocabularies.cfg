SPECIFICATION Spec
CONSTANTS
  f1 = f1
  f2 = f2
  f3 = f3
  Vocab = {v1, v2}
  Name = {n1}
  File = {f1, f2, f3}
  LanguageOf <- Languages
  Request = {r1, r2}
  Ingest = {i1}
  None = None
  MaxCalls = 3
  MaxEvents = 2
SYMMETRY Symmetry
INVARIANTS TermsMatchFile FileThere CacheFollows 
CHECK_DEADLOCK FALSE
