CONSTANTS
  f1 = f1
  f2 = f2
  n1 = n1
  n2 = n2
  Names = {n1, n2}
  Fcb = {f1, f2}
  Sectors = 3
  DirSlots = 1
  MaxSlots = 2
  MaxRecords = 2
  Contents = FALSE
  Modes <- AnyMode
  MaxFaults = 0
  FaultAt <- NoFaults
  Discipline <- Exhausting
SYMMETRY Symmetric
SPECIFICATION Spec
INVARIANTS NoCrossLink
CHECK_DEADLOCK FALSE
