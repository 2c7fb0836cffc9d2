SPECIFICATION HistorySpec
CONSTANTS
  a1 = a1
  r1 = r1
  r2 = r2
  r3 = r3
  u1 = u1
  NULL = NULL
  Attendees <- OneAttendee
  Requests <- ThreeRequests
  Uuids <- OneUuid
  Ops = {"station", "batch", "undo", "printed", "put", "sync", "info", "block", "unblock", "delete", "codes"}
  Faults = {"crash", "store", "publish"}
CHECK_DEADLOCK FALSE
SYMMETRY SymThree
INVARIANTS
  PrintedExact
  NoOvercount
PROPERTY VerdictWasTrue
