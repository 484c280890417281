SPECIFICATION HistorySpec
CONSTANTS
  Specs <- TwoModes
  None = None
  MaxGeneration = 2
  MaxFaults = 0
  Callers = {"change", "timer"}
  LiveView = FALSE
  RefsExist = TRUE
PROPERTIES
  StoreContinuity
CHECK_DEADLOCK FALSE
