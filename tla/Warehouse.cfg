CONSTANTS
  Events = {1, 2, 3}
  DateOf <- MCDateOf
  TypeOf <- MCTypeOf
  Saves <- MCSaves
  Ranges <- MCRanges
  Late = {3}
  MaxDay = 1
  Retention = 0
  MaxRows = 2
  BatchSize = 2
  ChunkSize = 1
  MaxRuns = 3
  MaxFaults = 1
SPECIFICATION Spec
INVARIANTS
  TypeOK
  
  
  
PROPERTIES
  ArchiveKeeps
CHECK_DEADLOCK FALSE
