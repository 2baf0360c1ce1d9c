CONSTANTS
  NumTokens = 2
  Limit = 2
  Threshold = 1
  Window = 2
  PageRepos = 1
  MaxAttempts = 2
  Revocable = {1}
SPECIFICATION Spec
PROPERTY LimitMeansAllExhausted
