SPECIFICATION FairSpec
CONSTANTS
  m1 = m1
  s1 = s1
  s2 = s2
  NULL = NULL
  Monitors <- OneMonitor
  Replicas <- TwoReplicas
  MaxChanges = 2
  MaxFaults = 2
  Faults = {"publish", "listen", "replica", "stream", "refuse", "fetch", "remount"}
CHECK_DEADLOCK FALSE
INVARIANTS
  TypeOK
  NobodyLeftBehind
PROPERTY Settles
