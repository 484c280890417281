SPECIFICATION Spec
CONSTANTS
  Producers = {"agent", "other"}
  Publications <- WithReuse
  None = None
  Retention = 0
  Tolerance = 1
  MaxAttempts = 2
  MaxClock = 1
  MaxFaults = 1
INVARIANTS
  TypeOK
  PublishedIsDurable
  TraceIsPrefix
  NoFalseConflict
PROPERTIES
  ImplementsLedger
CHECK_DEADLOCK FALSE
