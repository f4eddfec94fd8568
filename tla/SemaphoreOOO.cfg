CONSTANTS
  Thread = {t1, t2, t3}
  Queue = {"q"}
  None = None
  Counts = {1, 2}
  MaxCount = 3
  OOO = TRUE
SPECIFICATION FairSpec
PROPERTY SignalReturns
CHECK_DEADLOCK FALSE
