SPECIFICATION FairSpec
CONSTANTS
  Key = {k1, k2}
  k1 = k1
  k2 = k2
  Lease = {0, 1}
  MaxRev = 4
  Compacts = TRUE
INVARIANTS
  TypeOK
  ReturnedDidLead
  EndOfLeaderAhead
PROPERTIES
  OneEndIsEnough
  ImplementsLeaderWatch
  EndOfLeaderSeen
  ContextEndsWait
