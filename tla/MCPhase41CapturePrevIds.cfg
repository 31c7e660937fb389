SPECIFICATION FairSpec
CONSTANTS
  Price = {1, 2, 3, 4}
  MaxSize = 1
  LastId = 3
  History <- MCHistory
  Touch <- MCTouch
  Limit = 1
  DepthN = 1
  QueueSize = 2
  MaxAttempts = 2
  MaxFaults = 1
  PrevIds = TRUE
PROPERTIES LostBookIsFetched UpdatesAppliedWhole
