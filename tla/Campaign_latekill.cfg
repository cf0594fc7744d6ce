\* Two defects on one worker: a timer that ran out as its simulation ended.
CONSTANTS
  NumDefects = 2
  Worker = {w1}
  Leftover = {}
SPECIFICATION Spec
INVARIANT EndedSimulationsAreSafe
CHECK_DEADLOCK FALSE
