SPECIFICATION HistorySpec
CONSTANTS
  Specs <- TwoModes
  None = None
  Startable <- Everything
  MaxReplicas = 1
  MaxGeneration = 2
  MaxDisturbances = 1
  Disturbances = {"lag", "fault", "crash"}
INVARIANTS
  TypeOK
  GenerationsAgree
  QuietIsAccurate
PROPERTIES
  StoreContinuity
  ReadyOnlyWhenApplied
  ImplementsContract
CHECK_DEADLOCK FALSE
