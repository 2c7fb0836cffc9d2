SPECIFICATION OfficeSpec
CHECK_DEADLOCK FALSE
CONSTANTS
  EditorEvents = {"e1", "e2"}
  MaxEdits = 2
  MaxPuts = 2
  EditorFaults = {"other", "switch", "fail"}
  FontsOf <- EventFonts
  MaxEffects = 3
  FontFaults = {"toggle", "event", "edit", "list", "bytes"}
  Guests = {"a", "b"}
  PageOne = {"a"}
  Plotters = {"p"}
  NeedsFont = {"a"}
  MaxPreviewTurns = 1
  MaxPreviewPrints = 1
  PreviewFaults = {"roster", "printers", "network"}
  FieldValues = {"A", "B"}
  GrantRows = {"r1", "r2"}
  MaxDrawerEdits = 2
  MaxDrawerCalls = 2
  CardPeople = {"a1", "a2"}
  MaxCardTurns = 4
  Roll = 3
  PerPage = 2
  MaxListTurns = 3
  Files = {"f1", "f2"}
  Encodings = {"utf", "win"}
  Rows = 3
  PreviewRows = 1
  ChunkSize = 2
  MaxParses = 3
  MaxSends = 4
  ImportFaults = {"reject"}
  StandardFields = {"email"}
  OtherNames = {"x"}
  Headers <- FileHeaders
  Cells = {"", "a", "A "}
  Folded <- FoldedCells
  MaxSheet = 3
  ImportChunk = 2
  Zones = {"z1", "z2"}
  Categories = {"vip"}
  MaxClauses = 1
  MaxZoneCalls = 2
  MaxZoneTurns = 1
  ZoneFaults = {"other", "list", "fail", "lost", "form"}
  StaffSize = 2
  MaxCodes = 3
  MaxCodeTurns = 1
  CodeFaults = {"fail", "lost", "leave", "list"}
  TeamPeople = {"p", "q"}
  TeamZones = {"z1"}
  MaxTeamCalls = 2
  MaxTeamTurns = 1
  TeamFaults = {"fail", "lost", "leave"}
INVARIANTS
  OfficeTypeOK
  SavesOnWhatWasSeen
  ReadyIsComplete
  JobsMatchScreen
  RemovalsTracked
  TallyHonest
  RowsAccounted
  CreatedOnce
  ImportsWhatWasMapped
  NeverLockedOut
  DeadCodesOverlapped
  CreatedIsClaimed
PROPERTIES
  TypingSurvivesSaves
  ToastsWereConfirmed
  GuardResolves
