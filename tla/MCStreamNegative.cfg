CONSTANTS
  SectorSize = 2
  Reserved <- MCReserved
  HeaderOffset = 6
  HeaderSectors = 1
  DiskLen = 9
  Clients = {owner}
  Owner = owner
  Bufs = {b1}
  NoBuf = NoBuf
  Offsets <- MCOffsets
  Lengths <- MCLengths
  MaxOffset = 8
  SourceFaults = FALSE
  EagerEOF = FALSE
SPECIFICATION Spec
INVARIANTS
  NegativeOffsetNoPanic
CHECK_DEADLOCK FALSE
