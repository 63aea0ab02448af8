CONSTANTS
  f1 = f1
  f2 = f2
  n1 = n1
  n2 = n2
  Names = {n1, n2}
  Fcb = {f1}
  Sectors = 2
  DirSlots = 1
  MaxSlots = 2
  MaxRecords = 2
  Contents = FALSE
  Modes <- AppendMode
  MaxFaults = 1
  FaultAt <- Failing
  Discipline <- Reckless
SPECIFICATION FairSpec
INVARIANTS HeldIsListed
PROPERTIES CallReturns
CHECK_DEADLOCK FALSE
