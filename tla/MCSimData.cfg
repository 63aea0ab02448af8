SPECIFICATION Spec
CONSTANTS
  Samples <- MCSamples
  Postbytes <- MCPostbytes
  Lengths <- MCLengths
  TextLengths <- MCTextLengths
  SectorBytes = 4
  Places <- MCPlaces
INVARIANTS
  SameAlu
  BranchesCompare
  LengthsAgree
  HexLoads
  TextComesBack
  PortsTransfer
