SPECIFICATION FairSpec
CONSTANTS
  Key = {k1, k2}
  k1 = k1
  k2 = k2
  Lease = {1}
  MaxRev = 4
  Compacts = FALSE
PROPERTIES
  FirstLeaderSeen
