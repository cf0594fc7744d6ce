\* Two defects on one worker process, in a fresh log directory.
CONSTANTS
  NumDefects = 2
  Worker = {w1}
  Leftover = {}
SPECIFICATION FairSpec
PROPERTY CampaignEnds
\* A lost pipe lock stops the program for good.
CHECK_DEADLOCK FALSE
