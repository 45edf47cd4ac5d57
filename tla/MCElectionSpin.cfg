SPECIFICATION FairSpec
CONSTANTS
  Key = {k1}
  k1 = k1
  Lease = {0}
  MaxRev = 2
  Compacts = FALSE
PROPERTIES
  ContextEndsWatch
