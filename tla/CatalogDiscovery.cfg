CONSTANTS
  Repos = {1, 2, 3}
  CreatedOn <- MCCreatedOn
  MinStars = 1
  TopStars = 2
  StartDate = 1
  Today = 2
  MaxShardSize = 2
  SearchCap = 2
  PageSize = 1
  BatchSize = 2
  Limit = 2
  MaxMoves = 1
  MaxRuns = 2
  MaxKills = 1
SPECIFICATION FairSpec
CHECK_DEADLOCK FALSE
INVARIANTS
  TypeOK
  ShardsTile
  CatalogComplete
  CountedFilesExist
PROPERTIES
  RunEnds
