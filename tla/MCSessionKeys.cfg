SPECIFICATION KeysHealedSpec
CONSTANTS
  LeaseId = {1, 2, 3}
  Foreign = {3}
  Leftover = {1}
  MaxStray = 1
  GoneReply = {"notfound"}
  Callers = {c1}
  c1 = c1
  RequestIds = {0, 1}
  RetryOptions = {2}
INVARIANTS
  KeysTypeOK
  ReadsGrantedLease
  KeyOnOwnLease
  KeysAreGone
  RegrantIsTold
PROPERTIES
  BecomesAlive
  LossNoticed
  LossTold
