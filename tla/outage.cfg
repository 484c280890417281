SPECIFICATION FairSpec
CONSTANTS
  Specs <- OneMode
  None = None
  Startable <- Everything
  MaxReplicas = 1
  MaxGeneration = 1
  MaxDisturbances = 2
  Disturbances = {"fault", "pod", "readyz", "tamper", "delete"}
PROPERTIES
  Converges
  OutageIsReported
  DeletedIsCollected
CHECK_DEADLOCK FALSE
