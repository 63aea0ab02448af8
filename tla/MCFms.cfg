CONSTANTS
  f1 = f1
  f2 = f2
  n1 = n1
  n2 = n2
  Names = {n1, n2}
  Fcb = {f1, f2}
  Sectors = 4
  DirSlots = 1
  MaxSlots = 3
  MaxRecords = 2
  Contents = FALSE
  Modes <- AnyMode
  MaxFaults = 0
  FaultAt <- NoFaults
  Discipline <- Careful
SYMMETRY Symmetric
SPECIFICATION Spec
INVARIANTS NoCrossLink FreeExact TornOnlyInWindow FilesEnd OneWriter ReadsOwnFile
CHECK_DEADLOCK FALSE
