\* Two components with a parameter each.
CONSTANTS
  Name <- Strings
  Symbolic = Symbolic
  LongChannel = 2
  Circuits <- ResistorAndCapacitor
  Manifests <- Optimised
SPECIFICATION Spec
PROPERTIES
  OnlyOpensCollapse
CHECK_DEADLOCK FALSE
