SPECIFICATION EditorSpec
CONSTANTS
  EditorEvents = {"e1", "e2"}
  MaxEdits = 2
  MaxPuts = 3
  EditorFaults = {}
CHECK_DEADLOCK FALSE
INVARIANT CleanMeansSaved
