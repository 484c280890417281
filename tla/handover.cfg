SPECIFICATION FairSpec
CONSTANTS
  Specs <- Variants
  None = None
  MaxGeneration = 2
  MaxDisturbances = 2
INVARIANTS
  TypeOK
  LeftoversAreKnown
  
PROPERTIES
  StoreNeedsCrossing
  DeletedIsCollected
CHECK_DEADLOCK FALSE
