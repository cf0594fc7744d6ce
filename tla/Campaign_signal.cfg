\* Two defects on one worker, with a signal at any moment.
CONSTANTS
  NumDefects = 2
  Worker = {w1}
  Leftover = {}
SPECIFICATION FairSpec
PROPERTY SignalTerminates
CHECK_DEADLOCK FALSE
