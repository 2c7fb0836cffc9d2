SPECIFICATION ZoneSpec
CONSTANTS
  Zones = {"z1", "z2"}
  Categories = {"vip"}
  MaxClauses = 1
  MaxZoneTurns = 1
  MaxZoneCalls = 4
  ZoneFaults = {}
CHECK_DEADLOCK FALSE
INVARIANT CleanShowsSaved
