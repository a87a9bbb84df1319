SPECIFICATION Spec
CONSTANTS
  z1 = z1
  z2 = z2
  h1 = h1
  png = png
  jpg = jpg
  Pub = {p1, p2}
  Deleter = {x1, x2}
  Zip = {z1, z2}
  Hash = {h1}
  Key = {png, jpg}
  Entries <- Files
  HashOf <- Hashing
  None = None
  MaxUploads = 3
  MaxFaults = 1
SYMMETRY Symmetry
INVARIANTS BlobsThere  RawThere NothingLeft
CHECK_DEADLOCK FALSE
