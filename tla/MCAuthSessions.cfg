SPECIFICATION Spec
CONSTANTS
  User = {u1, u2}
  Tab = {a, b}
  Request = {q1, q2}
  None = None
  MaxTokens = 3
  MaxLost = 1
  MaxEvents = 2
SYMMETRY Symmetry
INVARIANTS SignedInCanRefresh  
PROPERTIES RevokedForGood OnlySignInSignsIn
CHECK_DEADLOCK FALSE
