SPECIFICATION FairSpec
CONSTANTS
  LeaseId = {1, 2, 3}
  Foreign = {3}
  Leftover = {}
  MaxStray = 1
  GoneReply = {"notfound", "gone"}
  Callers = {c1, c2}
  c1 = c1
  c2 = c2
  RequestIds = {0, 1, 3}
  RetryOptions <- MCRetryOptions
INVARIANTS
  TypeOK
  EventsExclusive
  AliveHoldsLease
  CloseIsFinal
  CallsMatchEvents
  RevokedAtTheEnd
  OnlyMemoryHurts
PROPERTIES
  LeaseIdStable
  WindsDown
  ImplementsLifecycle
  FollowsFlow
  ContextCloses
  CloseTerminates
