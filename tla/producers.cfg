SPECIFICATION FairClientSpec
CONSTANTS
  Producers <- Clients
  Publications <- Recorded
  None = None
  Retention = 0
  Tolerance = 1
  MaxAttempts = 2
  MaxClock = 1
  MaxFaults = 1
  MaxQueries = 2
INVARIANTS
  ClientTypeOK
  SuccessIsReal
  MismatchMeansExpired
  RerunsAreIdempotent
PROPERTIES
  ImplementsLedger
  PublicationEnds
  ExpiredRowsVanish
CHECK_DEADLOCK FALSE
