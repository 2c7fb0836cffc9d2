----------------------------- MODULE MCCheckin -------------------------------
(* CheckinStore on small sets: model values, and symmetry where the run     *)
(* checks no liveness and no property names a single request.               *)
EXTENDS CheckinStore, TLC

CONSTANTS a1, r1, r2, r3, r4, r5, u1

OneAttendee == {a1}
TwoRequests == {r1, r2}
ThreeRequests == {r1, r2, r3}
FiveRequests == {r1, r2, r3, r4, r5}
OneUuid == {u1}

SymThree == Permutations(ThreeRequests)
SymFive == Permutations(FiveRequests)
==============================================================================
