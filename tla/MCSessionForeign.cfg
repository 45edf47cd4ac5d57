SPECIFICATION Spec
CONSTANTS
  LeaseId = {1, 2}
  Foreign = {2}
  Leftover = {}
  MaxStray = 1
  GoneReply = {"notfound"}
  Callers = {c1}
  c1 = c1
  RequestIds = {0, 1}
  RetryOptions = {1}
INVARIANTS
  ForeignLeasesKept
