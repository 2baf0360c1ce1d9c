CONSTANTS
  Sources = {1, 2}
  Shows <- MCShows
  Limits = {2}
  MaxAge = 1
  ListLimit = 4
  Requests = {r1, r2}
  MaxSyncs = 2
  MaxTime = 2
  MaxFaults = 2
SPECIFICATION Spec
INVARIANTS
  TypeOK
  
  SourcesAccounted
  ReadyMeansFresh
  
SYMMETRY Symmetry
