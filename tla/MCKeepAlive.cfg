SPECIFICATION Spec
CONSTANTS
  RetryMin = 1
  RetryMax = 3
  Deadline = 1
  TTLs = {2, 4, 6}
  RevokeRetries = 2
  MaxFails = 2
CHECK_DEADLOCK FALSE
INVARIANTS
  TypeOK
  AliveIsRenewed
  ClosesInTime
PROPERTIES
  FollowsFlow
