CONSTANTS
  Tokens = {a, b}
  MaxEvents = 3
  PageSize = 2
  MaxAttempts = 2
  Discarded = {2}
  MaxRestarts = 1
SPECIFICATION FairSpec
CHECK_DEADLOCK FALSE
INVARIANTS
  TypeOK
  PageAccounted
  
PROPERTIES
  ShutdownTerminates
  LastPageIngested
