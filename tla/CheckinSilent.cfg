SPECIFICATION Spec
CONSTANTS
  a1 = a1
  r1 = r1
  r2 = r2
  r3 = r3
  r4 = r4
  r5 = r5
  u1 = u1
  NULL = NULL
  Attendees <- OneAttendee
  Requests <- TwoRequests
  Uuids <- OneUuid
  Ops = {"batch"}
  Faults = {"store"}
CHECK_DEADLOCK FALSE
INVARIANT NothingSilent
