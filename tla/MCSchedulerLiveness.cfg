CONSTANTS
  v1 = v1
  v2 = v2
  m1 = m1
  m2 = m2
  VCPU = {v1, v2}
  OS = {}
  Worker = {m1, m2}
  Main <- MCMain
  Queue = {q}
  Programs <- LivenessPrograms
  None = None
SPECIFICATION FairSpec
PROPERTIES StandbyRuns SleepsEnd
