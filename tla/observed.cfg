SPECIFICATION Spec
CONSTANTS
  Specs <- Rejecting
  None = None
  Startable <- Nothing
  MaxReplicas = 1
  MaxGeneration = 2
  MaxDisturbances = 0
  Disturbances = {}
PROPERTIES
  ObservedIsReconciled
CHECK_DEADLOCK FALSE
