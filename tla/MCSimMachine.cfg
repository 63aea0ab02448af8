SPECIFICATION Spec
CONSTANTS
  None = None
  Pattern <- MCPattern
  SectorBytes = 2
  Images <- MCImages
  Services <- MCServices
  Keys = {3, 8, 65}
  BreakPlaces <- MCBreakPlaces
  BreakKinds = {1, 2}
  MaxSteps = 2
  MaxCalls = 2
  MaxKeys = 2
  MaxCommands = 3
  MaxSignals = 1
INVARIANTS
  RegistersKept
  KeysInOrder
PROPERTIES
  DiskSpec
  CallEnds
  BreakpointStops
  StepIsOne
