CONSTANTS
  MaxTopic = 2
  MaxPerTrigger = 2
  Chunk = 1
  MaxFaults = 2
  EventOf <- MCEventOf
  Unset = Unset
SPECIFICATION FairSpec
CHECK_DEADLOCK FALSE
INVARIANTS
  TypeOK
  NothingLost
  DuplicatesAreReplays
PROPERTIES
  ParquetArchivesAll
  ParquetDelivers
