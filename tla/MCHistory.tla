----------------------------- MODULE MCHistory -------------------------------
(* CheckinHistory on small sets: model values, and symmetry where the run     *)
(* checks no liveness and no property names a single request.               *)
EXTENDS CheckinHistory, TLC

CONSTANTS a1, r1, r2, r3, u1

OneAttendee == {a1}
ThreeRequests == {r1, r2, r3}
OneUuid == {u1}

SymThree == Permutations(ThreeRequests)
==============================================================================
