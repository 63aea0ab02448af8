CONSTANTS
  RTC = 2
  RSC = 2
  BadWrites = TRUE
  Verifies = TRUE
  FMX = 2
  PerSector = 2
  MaxRun = 2
  Layouts <- SmallLayouts
  RecordData <- SmallData
  MaxRecords = 5
  MaxCalls = 2
SPECIFICATION FairSpec
INVARIANTS
  SoftErrorEffort
  MapIsChain
  PositFinds
PROPERTY
  OperationReturns
CHECK_DEADLOCK FALSE
