CONSTANTS
  SectorSize = 2
  Reserved <- MCReserved
  HeaderOffset = 6
  HeaderSectors = 1
  DiskLen = 9
  Clients = {owner, other}
  Owner = owner
  Bufs = {b1, b2}
  NoBuf = NoBuf
  Offsets <- MCOffsets
  Lengths <- MCLengths
  MaxOffset = 8
  SourceFaults = TRUE
  EagerEOF = TRUE
SPECIFICATION Spec
INVARIANTS
  TypeOK
  BufferExclusive
  NoLeak
  DeliveredIsView
  PanicHasCause
  ShortMeansEnd
PROPERTIES
  ImplementsView
  CallsReturn
\* A panic ends the program; with both callers gone nothing is left to do.
CHECK_DEADLOCK FALSE
