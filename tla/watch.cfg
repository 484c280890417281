SPECIFICATION Spec
CONSTANTS
  Specs <- TwoAPIs
  None = None
  Startable <- Everything
  MaxReplicas = 2
  MaxGeneration = 1
  MaxDisturbances = 2
  Disturbances = {"lag", "fault", "crash", "pod", "tamper", "resync"}
INVARIANTS
  QuietIsAccurate
CHECK_DEADLOCK FALSE
