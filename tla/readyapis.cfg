SPECIFICATION Spec
CONSTANTS
  Specs <- OneMode
  None = None
  Startable <- Everything
  MaxReplicas = 1
  MaxGeneration = 1
  MaxDisturbances = 1
  Disturbances = {"fault"}
INVARIANTS
  ReadyHasReadyAPIs
CHECK_DEADLOCK FALSE
