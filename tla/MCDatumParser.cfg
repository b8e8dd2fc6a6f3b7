CONSTANTS
  Sources <- MCSources
  Headers <- MCHeaders
SPECIFICATION Spec
INVARIANTS
  TypeOK
  InStepUnlessFlawed
  OnlyLastLost
  DepthBounded
  SecondCheckAgrees
PROPERTIES
  Terminates
\* The parser returns: "done" and "failed" have no successor.
CHECK_DEADLOCK FALSE
