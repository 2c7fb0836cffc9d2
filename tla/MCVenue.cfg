SPECIFICATION VenueSpec
CHECK_DEADLOCK FALSE
CONSTANTS
  Stations = {"s1", "s2"}
  Codes = {"c1", "c2"}
  Registered = {"c1"}
  MaxScans = 2
  MaxTurns = 1
  Modes = {"wedge", "scanner"}
  StationFaults = {"network", "agent", "settings", "navigate", "elsewhere"}
  RailAttendees = {"a1", "a2"}
  Printers = {"p1", "p2"}
  MaxConfirms = 1
  MaxRailTurns = 2
  LaunchEvents = {"e1", "e2"}
  SettingValues = {"print", "quiet"}
  DefaultValue = "print"
  MaxSaves = 2
  MaxLaunchTurns = 4
  LaunchFaults = {"other", "move", "fail"}
  Guests = {"g1", "g2"}
  Strangers = {"x"}
  MaxKioskScans = 2
  MaxKioskPrints = 1
  MaxKioskTurns = 2
  Threshold = 3
  InitialBackoff = 1
  MaxBackoff = 4
  BootTimes = {0, 3}
  MaxBreaks = 2
  MaxSwitches = 2
  PrinterNames = {"p1", "p2"}
  MaxEquipCalls = 3
  MaxTests = 2
  SystemPrinters = {"p"}
  NetworkPrinters = {"n"}
  AddedPrinters = {"a"}
  MaxWizardOpens = 2
  MaxWizardCalls = 5
  MinChars = 3
  MaxListens = 3
  MaxScannerScans = 3
  MaxScannerTurns = 2
  HubPrinters = {"p"}
  HubScanners = {"s"}
  Addresses = {"a", "b"}
  MaxHubCalls = 3
  MaxHubTurns = 1
  HubFaults = {"agent", "lost", "leave", "overlap"}
INVARIANTS
  VenueTypeOK
  PrintsMatchCheckins
  DismissalOwned
  PrintsAreConfirmed
  SavesOwnForm
  BadgesEarned
  PendingOwned
  TestCanEnd
  NothingAfterTold
  ScanIsFresh
  MirroredOrReported
PROPERTIES
  StationRecovers
  SelfServiceReturns
  SupervisorRecovers
