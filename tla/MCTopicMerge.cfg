SPECIFICATION Spec
CONSTANTS
  intro = intro
  setup = setup
  extra = extra
  page = page
  old = old
  new = new
  guide = guide
  guide2 = guide2
  Doc = {d1, d2}
  Sid = {intro, setup, extra, page}
  Text = {old, new}
  Title = {guide, guide2}
  Upload <- Uploads
  UrlOf <- Urls
  None = None
  MaxTopics = 4
  MaxMerges = 2
  MaxFaults = 1
SYMMETRY Symmetry
INVARIANTS OneTopicPerId MergedTree 
PROPERTIES IdentityKept Synchronises
CHECK_DEADLOCK FALSE
