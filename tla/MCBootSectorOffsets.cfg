CONSTANTS
  Images <- BootSectorImages
  ValidSizes = {2, 4}
  Size512 = 2
  Size4096 = 4
  ScanSectors = 2
  TailSectors = 6
SPECIFICATION Spec
INVARIANTS
  BootSectorOffsetsUsed
\* New returns: pc = "done" has no successor.
CHECK_DEADLOCK FALSE
