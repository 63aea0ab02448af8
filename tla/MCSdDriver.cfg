SPECIFICATION Spec
CONSTANTS
  Half <- MCHalf
  BlockSize <- MCBlockSize
  Filler <- MCFiller
  Byte <- MCByte
  Sectors <- MCSectors
  Blocks <- MCBlocks
  Values = {"a", "b"}
  None = None
  HighCapacity = TRUE
  EarlyCalls = FALSE
  MaxCalls = 3
  MaxResets = 1
  CardErrors = {}
PROPERTIES CallReturns DiskSpec
