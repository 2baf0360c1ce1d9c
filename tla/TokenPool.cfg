CONSTANTS
  NumTokens = 2
  Limit = 5
  Threshold = 4
  Window = 1
  PageRepos = 2
  MaxAttempts = 2
  Revocable = {1}
SPECIFICATION FairSpec
INVARIANTS
  TypeOK
  QuotaMargin
  SleepIsLongEnough
PROPERTIES
  PollingResumes
  EveryTokenServes
