SPECIFICATION FairSpec
CONSTANTS
  Path = {samples, trace}
  QueueSize = 2
  BatchSize = 2
  MaxRows = 4
  MaxErrors = 1
INVARIANTS PassMeansWritten
PROPERTIES ImplementsRowLog ThreadEnds
