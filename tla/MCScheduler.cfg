CONSTANTS
  v1 = v1
  v2 = v2
  m1 = m1
  m2 = m2
  VCPU = {v1, v2}
  OS = {o}
  Worker = {m1, m2, w}
  Main <- MCMain
  Queue = {q}
  Programs <- SafetyPrograms
  None = None
SPECIFICATION Spec
INVARIANTS QueuesMatchStates NoLostWakeup
  
