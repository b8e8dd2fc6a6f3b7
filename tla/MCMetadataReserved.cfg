CONSTANTS
  Volumes <- LargeMetadataVolumes
  Sectors <- MCSectors
SPECIFICATION Spec
INVARIANTS
  MetadataReserved
CHECK_DEADLOCK FALSE
