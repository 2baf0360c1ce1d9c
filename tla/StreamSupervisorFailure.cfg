CONSTANTS
  MaxSignals = 1
  MaxRestarts = 0
SPECIFICATION FairSpec
CHECK_DEADLOCK FALSE
PROPERTY FailureSurfaces
