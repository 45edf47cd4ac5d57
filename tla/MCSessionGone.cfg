SPECIFICATION HealedSpec
CONSTANTS
  LeaseId = {1, 2}
  Foreign = {}
  Leftover = {}
  MaxStray = 1
  GoneReply = {"notfound", "gone"}
  Callers = {c1}
  c1 = c1
  RequestIds = {0, 1}
  RetryOptions = {1}
PROPERTIES
  LossNoticed
