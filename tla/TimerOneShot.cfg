CONSTANTS
  User = {u1, u2}
  Repeating = FALSE
SPECIFICATION FairSpec
PROPERTY DtorReturns
CHECK_DEADLOCK FALSE
