\* A transistor without a channel width.
CONSTANTS
  Name <- Strings
  Symbolic = Symbolic
  LongChannel = 2
  Circuits <- TransistorWithoutWidth
  Manifests <- Optimised
SPECIFICATION FairSpec
PROPERTIES
  IgnoredIsPassedOver
CHECK_DEADLOCK FALSE
