\* Two defects on two worker processes, any of them with a leftover log.
CONSTANTS
  NumDefects = 2
  Worker = {w1, w2}
  Leftover = {1, 2}
SPECIFICATION Spec
SYMMETRY Symmetry
INVARIANTS
  TypeOK
  CompleteOrRaised
  TimeoutJustified
  LossExplained
PROPERTIES
  NoWriterAfterPool
  ImplementsContract
\* A lost pipe lock stops the program for good.
CHECK_DEADLOCK FALSE
