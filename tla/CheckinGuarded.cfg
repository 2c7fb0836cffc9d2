SPECIFICATION Spec
CONSTANTS
  a1 = a1
  r1 = r1
  r2 = r2
  r3 = r3
  r4 = r4
  r5 = r5
  u1 = u1
  NULL = NULL
  Attendees <- OneAttendee
  Requests <- FiveRequests
  Uuids <- OneUuid
  Ops = {"station", "batch", "undo"}
  Faults = {"crash"}
CHECK_DEADLOCK FALSE
SYMMETRY SymFive
INVARIANTS
  FeedMirrorsStatus
  OneScanPerRow
  NothingSilent
PROPERTY AtomicLedger
