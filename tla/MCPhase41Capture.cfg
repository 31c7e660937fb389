SPECIFICATION Spec
CONSTANTS
  Price = {1, 2, 3, 4}
  MaxSize = 1
  LastId = 4
  History <- MCHistory
  Touch <- MCTouch
  Limit = 1
  DepthN = 1
  QueueSize = 2
  MaxAttempts = 2
  MaxFaults = 2
  PrevIds = FALSE
INVARIANTS TypeOK BookFaithful SampleFaithful PassMeansNoLoss
PROPERTIES GenerationUnbroken ImplementsSampleFeed
