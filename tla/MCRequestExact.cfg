SPECIFICATION Spec
CONSTANTS
  MaxByte = 5
  SignedChar = FALSE
  Keys <- MCKeys
  Asked <- MCAsked
  Ends <- MCEnds
  MaxOptions = 5
INVARIANTS
  PrefixExact
