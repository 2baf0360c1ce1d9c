CONSTANTS
  MaxSignals = 2
  MaxRestarts = 1
SPECIFICATION FairSpec
CHECK_DEADLOCK FALSE
INVARIANTS
  TypeOK
  NothingLeftRunning
  
PROPERTIES
  
  ParquetFailureSurfaces
