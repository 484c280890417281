SPECIFICATION DeployedSpec
CONSTANTS
  Specs <- AllModes
  None = None
  MaxGeneration = 2
  MaxFaults = 1
  Callers = {"change", "timer"}
  LiveView = TRUE
  RefsExist = FALSE
INVARIANTS
  TypeOK
  UncrossedReportTruly
PROPERTIES
  ChangesAreHandled
  Converges
  OnlyCrossedTakeStore
CHECK_DEADLOCK FALSE
