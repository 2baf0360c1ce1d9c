CONSTANTS
  Repos = {1, 2}
  MaxStars = 1
  Growing = {1}
  Late = {1}
  MaxTime = 2
  WeekLength = 1
  Lookback = 2
  Threshold = 1
  SyncBatch = 1
  TopLimit = 2
  FetchBatch = 2
  MaxRuns = 2
  MaxFaults = 2
SPECIFICATION Spec
INVARIANTS
  TypeOK
  HistoryNeverAhead
  
  

  
