SPECIFICATION Spec
CONSTANTS
  MaxByte = 3
  SignedChar = FALSE
  Txns = {t1, t2}
  Stores <- MCStores
  Values = {1, 2}
  Leases = {300}
  Compares <- MCCompares
  Requests <- MCRequests
  MaxCalls = 4
INVARIANTS
  TypeOK
  RunsAsSaid
SYMMETRY Symmetry
CHECK_DEADLOCK FALSE
