SPECIFICATION Spec
CONSTANTS
  a1 = a1
  r1 = r1
  r2 = r2
  r3 = r3
  r4 = r4
  r5 = r5
  u1 = u1
  NULL = NULL
  Attendees <- OneAttendee
  Requests <- ThreeRequests
  Uuids <- OneUuid
  Ops = {"station", "info"}
  Faults = {}
CHECK_DEADLOCK FALSE
INVARIANT NoDoubleCheckin
