SPECIFICATION FairSpec
CONSTANTS
  Collectors = {"old", "new"}
  Retention = 1
  MaxClock = 2
  MaxFaults = 1
INVARIANTS
  TypeOK
  CollectionsAreWhole
  RowsFollowTheCluster
  CollectedIsDurable
PROPERTIES
  NoGrowthWithoutPrune
  MaintainedUnlessStuck
