CONSTANTS
  Thread = {t1, t2, t3}
  Queue = {"cvar"}
  None = None
  MultiVCPU = TRUE
SPECIFICATION Spec
INVARIANT FreeLockWakes
