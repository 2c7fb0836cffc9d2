SPECIFICATION Spec
CONSTANTS
  m1 = m1
  s1 = s1
  s2 = s2
  NULL = NULL
  Monitors <- OneMonitor
  Replicas <- OneReplica
  MaxChanges = 1
  MaxFaults = 0
  Faults = {"slow"}
CHECK_DEADLOCK FALSE
INVARIANT NobodyLeftBehind
