CONSTANTS
  Width = 6
  ByteBits = 2
  Reduction = {0, 1}
  ByteBase = 3
  WordBytes = 4
  MinNonce = 1
  MaxNonce = 3
  SectorCalls <- MCSectorCalls
  CcmCalls <- MCCcmCalls
SPECIFICATION Spec
INVARIANTS
  SectorRecovered
  GenuineOpens
  ForgedRejected
  CounterInRange
\* The functions return: "done" and "panic" have no successor.
CHECK_DEADLOCK FALSE
