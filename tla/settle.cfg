SPECIFICATION FairSpec
CONSTANTS
  Specs <- Rejecting
  None = None
  Startable <- Everything
  MaxReplicas = 1
  MaxGeneration = 2
  MaxDisturbances = 1
  Disturbances = {"lag", "fault", "reference"}
PROPERTIES
  Converges
CHECK_DEADLOCK FALSE
