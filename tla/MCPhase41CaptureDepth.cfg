SPECIFICATION Spec
CONSTANTS
  Price = {1, 2, 3, 4}
  MaxSize = 1
  LastId = 3
  History <- MCHistory
  Touch <- MCTouch
  Limit = 1
  DepthN = 1
  QueueSize = 2
  MaxAttempts = 1
  MaxFaults = 0
  PrevIds = FALSE
INVARIANT SampleIsExchangeTop
