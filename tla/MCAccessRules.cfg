SPECIFICATION Spec
CONSTANTS
  anon = anon
  ann = ann
  t1 = t1
  t2 = t2
  t3 = t3
  Rule = {r1, r2}
  Request = {q1, q2, q3}
  User = {anon, ann}
  Doc = Doc
  Topic = {t1, t2, t3}
  Parent <- Chain
  Content <- Contents
  Defaults <- PublicOrNone
  None = None
  MaxDepth = 2
  MaxCrashes = 1
SYMMETRY Symmetry
INVARIANTS LiveWasApplied AppliedNothingLeft LegacyRulesGone ChildrenInherit
PROPERTIES StagedSetKept
CHECK_DEADLOCK FALSE
