SPECIFICATION EitherSpec
CONSTANTS
  k = k
  docs = docs
  x = x
  part = part
  a = a
  Literal = {docs}
  Bare = {k}
  Fragment = {x}
  Blank = Blank
  Segment = {part}
  Template <- Templates
  MaxTemplates = 2
  Guarded = {k}
  Member = {t1, t2, t3}
  Stranger = Stranger
  Position <- TwoPositions
  Heading <- TwoHeadings
  Word = {a}
  Raw <- Raws
  Unset = Unset
SYMMETRY Symmetry
INVARIANTS ReadsLikeTemplate DocumentOrder DistinctUnlessNumbered
 
CHECK_DEADLOCK FALSE
