CONSTANTS
  Volumes <- MCVolumes
  Sectors <- MCSectors
SPECIFICATION Spec
INVARIANTS
  TypeOK
  NoSectorLost
  TableSeparated
  LookupExact
  SkipsExactlyMetadata
  NextMetadataIsNext
  SmallMetadataReserved
\* The call returns: pc = "done" has no successor.
CHECK_DEADLOCK FALSE
