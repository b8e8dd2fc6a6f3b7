CONSTANTS
  Images <- MCImages
  ValidSizes = {2, 3, 4}
  Size512 = 2
  Size4096 = 4
  ScanSectors = 2
  TailSectors = 6
SPECIFICATION Spec
INVARIANTS
  TypeOK
  FirstGoodWins
  LocatorsComeFirst
  ProbeAgrees
  ReadErrorMeansShort
  LocatorMissedOnlyIf
\* New returns: pc = "done" has no successor.
CHECK_DEADLOCK FALSE
