----------------------------- MODULE MCMonitor -------------------------------
(* MonitorStream on small sets of model values.                             *)
EXTENDS MonitorStream

CONSTANTS m1, s1, s2

OneMonitor == {m1}
OneReplica == {s1}
TwoReplicas == {s1, s2}
==============================================================================
