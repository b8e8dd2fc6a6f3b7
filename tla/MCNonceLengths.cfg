CONSTANTS
  Width = 6
  ByteBits = 2
  Reduction = {0, 1}
  ByteBase = 3
  WordBytes = 4
  MinNonce = 1
  MaxNonce = 3
  SectorCalls = {}
  CcmCalls <- MCGenuine
SPECIFICATION Spec
INVARIANT NonceLengthsSupported
\* The function returns: "done" has no successor.
CHECK_DEADLOCK FALSE
