SPECIFICATION Spec
CONSTANTS
  z1 = z1
  h1 = h1
  png = png
  Pub = {p1, p2}
  Deleter = {x1}
  Zip = {z1}
  Hash = {h1}
  Key = {png}
  Entries <- Files
  HashOf <- Hashing
  None = None
  MaxUploads = 2
  MaxFaults = 0
PROPERTIES OnlyLastHolderDeletes
CHECK_DEADLOCK FALSE
